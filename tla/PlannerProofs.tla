--------------------------- MODULE PlannerProofs ---------------------------
(***************************************************************************)
(* What every plan is like, for every schedule, library, listing, largest  *)
(* prefix and limit: what each of its actions is, that no two of them take *)
(* the same file, that it never takes the last thing that can be played,   *)
(* and that it never takes more room than the limit; and what the folder   *)
(* shows when a plan is empty.                                             *)
(***************************************************************************)
EXTENDS Planner, PrefixesProofs

-----------------------------------------------------------------------------
(* The planner's input: the types of the rows and of a listing             *)

Videos == [id : Nat, slug : Nat \ Unplayable, sha : Int, size : Nat]

LibraryOK(library) ==
  /\ library \subseteq Videos
  /\ \A v, w \in library : v.id = w.id => v = w

NamesFor(library) ==
  {n \in [nnn : Nat, slug : Nat, sha : {v.sha : v \in library} \cup {None}] :
     n.sha = None <=> \A v \in library : v.slug # n.slug}

WantsFor(library) ==
  [id : Int, video : library, start : Int, end : Int \cup {None}, position : Int, fallback : BOOLEAN]

InputOK(inp) ==
  /\ LibraryOK(inp.library)
  /\ None \notin NamesFor(inp.library)
  /\ \A v \in inp.library : v.sha # None
  /\ IsFiniteSet(DOMAIN inp.remote.root)
  /\ DOMAIN inp.remote.root \subseteq NamesFor(inp.library)
  /\ inp.remote.stagingExists \in BOOLEAN
  /\ IsFiniteSet(DOMAIN inp.remote.staging)
  /\ DOMAIN inp.remote.staging \subseteq [sha : Int, part : BOOLEAN]
  /\ IsFiniteSet(inp.wants)
  /\ inp.wants \subseteq WantsFor(inp.library)
  /\ \A u, w \in inp.wants : u.id = w.id => u = w
  /\ Cardinality({w.video.sha : w \in inp.wants}) <= MaxPrefix

-----------------------------------------------------------------------------
(* Lists                                                                   *)

(* s has each element of S once.                                           *)
Enumerates(s, S) ==
  /\ s \in Seq(S)
  /\ \A x \in S : \E i \in 1 .. Len(s) : s[i] = x
  /\ \A i, j \in 1 .. Len(s) : s[i] = s[j] => i = j

LEMMA EnumeratedIn ==
  ASSUME NEW S, NEW s, Enumerates(s, S), NEW T, S \subseteq T
  PROVE  s \in Seq(T) /\ Len(s) \in Nat /\ \A k \in 1 .. Len(s) : s[k] \in S
BY DEF Enumerates

LEMMA SortedEnumerates ==
  ASSUME NEW S, NEW R, IsFiniteSet(S), PutsInOrder(R, S)
  PROVE  Enumerates(Sorted(S, R), S)
<1> DEFINE n == Cardinality(S)
           s == Sorted(S, R)
<1>1. /\ n \in Nat /\ s \in [1 .. n -> S]
      /\ \A i, j \in 1 .. n : i < j => <<s[i], s[j]>> \in R
      /\ \A x \in S : \E i \in 1 .. n : s[i] = x
  BY SortedInOrder
<1> HIDE DEF n, s
<1>2. s \in Seq(S) /\ Len(s) = n
  BY <1>1
<1>3. ASSUME NEW i \in 1 .. n, NEW j \in 1 .. n, s[i] = s[j] PROVE i = j
  <2>1. s[i] \in S /\ <<s[i], s[i]>> \notin R
    BY <1>1 DEF PutsInOrder
  <2>2. ~ (i < j) /\ ~ (j < i)
    BY <1>1, <1>3, <2>1
  <2>3. QED BY <1>1, <2>2
<1>4. Enumerates(s, S)
  BY <1>1, <1>2, <1>3 DEF Enumerates
<1>5. QED BY <1>4 DEF s

LEMMA AscendingEnumerates ==
  ASSUME NEW S, IsFiniteSet(S), S \subseteq Int
  PROVE  Enumerates(Ascending(S), S)
<1> DEFINE R == {p \in S \X S : p[1] < p[2]}
<1>1. \A x, y \in S : <<x, y>> \in R <=> x < y
  OBVIOUS
<1>2. Ascending(S) = Sorted(S, R)
  BY DEF Ascending
<1> HIDE DEF R
<1>3. PutsInOrder(R, S)
  BY <1>1 DEF PutsInOrder
<1>4. QED BY <1>2, <1>3, SortedEnumerates

(* Names, and wants, can be put in order.                                  *)
NamePairs(S) == {p \in S \X S : p[1] # p[2] /\ NameBefore(p[1], p[2])}
WantPairs(W) == {p \in W \X W : OrderBefore(p[1], p[2])}
TimePairs(W) == {p \in W \X W : UpcomingBefore(p[1], p[2])}

LEMMA NamesOrdered ==
  ASSUME NEW library, LibraryOK(library), NEW S, S \subseteq NamesFor(library)
  PROVE  ByName(S) = Sorted(S, NamePairs(S)) /\ PutsInOrder(NamePairs(S), S)
<1> DEFINE R == NamePairs(S)
<1>1. \A x, y \in S : <<x, y>> \in R <=> x # y /\ NameBefore(x, y)
  BY DEF NamePairs
<1>2. ByName(S) = Sorted(S, R)
  BY DEF ByName, NamePairs
<1> HIDE DEF R
<1>3. \A x \in S : x.nnn \in Int /\ x.slug \in Int
  BY DEF NamesFor
<1>4. \A x, y \in S : x.nnn = y.nnn /\ x.slug = y.slug /\ x.sha = y.sha => x = y
  BY DEF NamesFor
<1>5. \A x, y \in S : x.slug = y.slug =>
        \/ x.sha \in Int /\ y.sha \in Int
        \/ x.sha = y.sha
  <2>1. \A v \in library : v.sha \in Int
    BY DEF LibraryOK, Videos
  <2>2. ASSUME NEW x \in S, NEW y \in S, x.slug = y.slug
        PROVE  \/ x.sha \in Int /\ y.sha \in Int
               \/ x.sha = y.sha
    <3>1. CASE \A v \in library : v.slug # x.slug
      <4>1. x.sha = None
        BY <3>1 DEF NamesFor
      <4>2. y.sha = None
        BY <2>2, <3>1 DEF NamesFor
      <4>3. QED BY <4>1, <4>2
    <3>2. CASE ~ \A v \in library : v.slug # x.slug
      <4>1. x.sha # None /\ x.sha \in {v.sha : v \in library} \cup {None}
        BY <3>2 DEF NamesFor
      <4>2. y.sha # None /\ y.sha \in {v.sha : v \in library} \cup {None}
        BY <2>2, <3>2 DEF NamesFor
      <4>3. QED BY <2>1, <4>1, <4>2
    <3>3. QED BY <3>1, <3>2
  <2>3. QED BY <2>2
<1>6. PutsInOrder(R, S)
  <2>1. \A x \in S : <<x, x>> \notin R
    BY <1>1
  <2>2. ASSUME NEW x \in S, NEW y \in S, NEW z \in S, <<x, y>> \in R, <<y, z>> \in R
        PROVE  <<x, z>> \in R
    <3>1. NameBefore(x, y) /\ NameBefore(y, z) /\ x # y /\ y # z
      BY <1>1, <2>2
    <3>2. x.nnn \in Int /\ y.nnn \in Int /\ z.nnn \in Int /\ x.slug \in Int /\ y.slug \in Int /\ z.slug \in Int
      BY <1>3
    <3>3. CASE x.nnn = y.nnn /\ x.slug = y.slug /\ y.nnn = z.nnn /\ y.slug = z.slug
      <4>1. x.sha \in Int /\ y.sha \in Int /\ z.sha \in Int
        BY <1>4, <1>5, <3>1, <3>3
      <4>2. x.sha < y.sha /\ y.sha < z.sha
        BY <3>1, <3>2, <3>3 DEF NameBefore
      <4>3. x.sha < z.sha /\ x # z
        BY <4>1, <4>2
      <4>4. QED BY <1>1, <3>3, <4>3 DEF NameBefore
    <3>4. CASE ~ (x.nnn = y.nnn /\ x.slug = y.slug /\ y.nnn = z.nnn /\ y.slug = z.slug)
      <4>1. \/ x.nnn < z.nnn
            \/ x.nnn = z.nnn /\ x.slug < z.slug
        BY <3>1, <3>2, <3>4 DEF NameBefore
      <4>2. x # z
        BY <3>2, <4>1
      <4>3. QED BY <1>1, <4>1, <4>2 DEF NameBefore
    <3>5. QED BY <3>3, <3>4
  <2>3. ASSUME NEW x \in S, NEW y \in S PROVE x = y \/ <<x, y>> \in R \/ <<y, x>> \in R
    <3>1. CASE x.nnn = y.nnn /\ x.slug = y.slug
      <4>1. x = y \/ x.sha < y.sha \/ y.sha < x.sha
        BY <1>4, <1>5, <3>1
      <4>2. QED BY <1>1, <3>1, <4>1 DEF NameBefore
    <3>2. CASE ~ (x.nnn = y.nnn /\ x.slug = y.slug)
      BY <1>1, <1>3, <3>2 DEF NameBefore
    <3>3. QED BY <3>1, <3>2
  <2>4. QED BY <2>1, <2>2, <2>3 DEF PutsInOrder
<1>7. QED BY <1>2, <1>6 DEF R

LEMMA WantsOrdered ==
  ASSUME NEW library, NEW W, W \subseteq WantsFor(library),
         \A u, w \in W : u.id = w.id => u = w
  PROVE  /\ InOrder(W) = Sorted(W, WantPairs(W)) /\ PutsInOrder(WantPairs(W), W)
         /\ InTime(W) = Sorted(W, TimePairs(W)) /\ PutsInOrder(TimePairs(W), W)
<1> DEFINE R == WantPairs(W)
           T == TimePairs(W)
<1>1. \A x, y \in W : /\ <<x, y>> \in R <=> OrderBefore(x, y)
                      /\ <<x, y>> \in T <=> UpcomingBefore(x, y)
  BY DEF WantPairs, TimePairs
<1>2. InOrder(W) = Sorted(W, R) /\ InTime(W) = Sorted(W, T)
  BY DEF InOrder, InTime, WantPairs, TimePairs
<1> HIDE DEF R, T
<1>3. \A x \in W : x.position \in Int /\ x.start \in Int /\ x.id \in Int
  BY DEF WantsFor
<1>4. PutsInOrder(R, W)
  BY <1>1, <1>3 DEF PutsInOrder, OrderBefore
<1>5. PutsInOrder(T, W)
  BY <1>1, <1>3 DEF PutsInOrder, UpcomingBefore, OrderBefore
<1>6. QED BY <1>2, <1>4, <1>5 DEF R, T

LEMMA ByNameEnumerates ==
  ASSUME NEW library, LibraryOK(library),
         NEW S, IsFiniteSet(S), S \subseteq NamesFor(library)
  PROVE  Enumerates(ByName(S), S)
BY NamesOrdered, SortedEnumerates

LEMMA InOrderEnumerates ==
  ASSUME NEW library, NEW W, W \subseteq WantsFor(library), IsFiniteSet(W),
         \A u, w \in W : u.id = w.id => u = w
  PROVE  Enumerates(InOrder(W), W) /\ Enumerates(InTime(W), W)
BY WantsOrdered, SortedEnumerates

(* ... and the lists are in that order.                                    *)
LEMMA NamesAscend ==
  ASSUME NEW library, LibraryOK(library),
         NEW S, IsFiniteSet(S), S \subseteq NamesFor(library)
  PROVE  \A i, j \in 1 .. Len(ByName(S)) : i < j => NameBefore(ByName(S)[i], ByName(S)[j])
<1> DEFINE n == Cardinality(S)
           s == ByName(S)
           R == NamePairs(S)
<1>1. s = Sorted(S, R) /\ PutsInOrder(R, S)
  BY NamesOrdered
<1>2. n \in Nat /\ s \in [1 .. n -> S] /\ \A i, j \in 1 .. n : i < j => <<s[i], s[j]>> \in R
  BY <1>1, SortedInOrder
<1> HIDE DEF n, s
<1>3. Len(s) = n
  BY <1>2
<1>4. \A x, y : <<x, y>> \in R => NameBefore(x, y)
  BY DEF NamePairs
<1> HIDE DEF R
<1>5. QED BY <1>2, <1>3, <1>4 DEF s

LEMMA WantsAscend ==
  ASSUME NEW library, NEW W, W \subseteq WantsFor(library), IsFiniteSet(W),
         \A u, w \in W : u.id = w.id => u = w
  PROVE  \A i, j \in 1 .. Len(InOrder(W)) : i < j => OrderBefore(InOrder(W)[i], InOrder(W)[j])
<1> DEFINE n == Cardinality(W)
           s == InOrder(W)
           R == WantPairs(W)
<1>1. s = Sorted(W, R) /\ PutsInOrder(R, W)
  BY WantsOrdered
<1>2. n \in Nat /\ s \in [1 .. n -> W] /\ \A i, j \in 1 .. n : i < j => <<s[i], s[j]>> \in R
  BY <1>1, SortedInOrder
<1> HIDE DEF n, s
<1>3. Len(s) = n
  BY <1>2
<1>4. \A x, y : <<x, y>> \in R => OrderBefore(x, y)
  BY DEF WantPairs
<1> HIDE DEF R
<1>5. QED BY <1>2, <1>3, <1>4 DEF s

-----------------------------------------------------------------------------
(* What should play, and what to keep ready                                *)

(* A list of wants, each content once.                                     *)
Schedule(s, W) ==
  /\ s \in Seq(W)
  /\ \A i, j \in 1 .. Len(s) : s[i].video.sha = s[j].video.sha => i = j

LEMMA DistinctContents ==
  ASSUME NEW W, NEW s \in Seq(W)
  PROVE  Schedule(DistinctContent(s), W)
<1> DEFINE I == {i \in DOMAIN s : \A j \in 1 .. i - 1 : s[j].video.sha # s[i].video.sha}
           d == DistinctContent(s)
<1>1. d = Picked(s, I)
  BY DEF DistinctContent
<1>2. I \subseteq DOMAIN s /\ DOMAIN s \subseteq Nat /\ \A i \in DOMAIN s : i >= 1
  OBVIOUS
<1>3. \A i, j \in I : j < i => s[j].video.sha # s[i].video.sha
  <2>1. ASSUME NEW i \in I, NEW j \in I, j < i PROVE s[j].video.sha # s[i].video.sha
    <3>1. j \in 1 .. i - 1
      BY <1>2, <2>1
    <3>2. QED BY <3>1
  <2>2. QED BY <2>1
<1> HIDE DEF I, d
<1> DEFINE m  == Cardinality(I)
           at == Ascending(I)
<1>4. I \subseteq DOMAIN s
  BY <1>2
<1>5. /\ m \in Nat /\ at \in [1 .. m -> I]
      /\ \A i, j \in 1 .. m : i < j => at[i] < at[j]
      /\ Picked(s, I) = [k \in 1 .. m |-> s[at[k]]]
      /\ Picked(s, I) \in Seq(W)
      /\ Len(Picked(s, I)) = m
  BY <1>4, PickedInOrder
<1> HIDE DEF m, at
<1>6. ASSUME NEW i \in 1 .. m, NEW j \in 1 .. m, d[i].video.sha = d[j].video.sha
      PROVE  i = j
  <2>1. d[i] = s[at[i]] /\ d[j] = s[at[j]]
    BY <1>1, <1>5
  <2>2. at[i] \in I /\ at[j] \in I
    BY <1>5
  <2>3. ~ (at[i] < at[j]) /\ ~ (at[j] < at[i])
    BY <1>3, <1>6, <2>1, <2>2
  <2>4. ~ (i < j) /\ ~ (j < i)
    BY <1>5, <2>3
  <2>5. QED BY <2>4
<1>7. Schedule(d, W)
  BY <1>1, <1>5, <1>6 DEF Schedule
<1>8. QED BY <1>7 DEF d

LEMMA DesiredIsASchedule ==
  ASSUME NEW inp, InputOK(inp), NEW now
  PROVE  Schedule(DesiredWants(inp.wants, now), inp.wants)
<1> DEFINE active  == {w \in inp.wants : ValidWant(w) /\ IsActive(w, now)}
           regular == {w \in active : ~ w.fallback}
           chosen  == IF regular # {} THEN regular ELSE active
<1>1. DesiredWants(inp.wants, now) = DistinctContent(InOrder(chosen))
  BY DEF DesiredWants
<1>2. chosen \in SUBSET inp.wants
  OBVIOUS
<1> HIDE DEF chosen
<1>3. IsFiniteSet(chosen)
  BY <1>2, FS_Subset DEF InputOK
<1>4. Enumerates(InOrder(chosen), chosen)
  BY <1>2, <1>3, InOrderEnumerates DEF InputOK
<1>5. InOrder(chosen) \in Seq(inp.wants)
  BY <1>2, <1>4 DEF Enumerates
<1>6. QED BY <1>1, <1>5, DistinctContents

LEMMA KeptIsASchedule ==
  ASSUME NEW inp, InputOK(inp), NEW now
  PROVE  Schedule(KeepStaged(inp.wants, now), inp.wants)
<1> DEFINE valid     == {w \in inp.wants : ValidWant(w)}
           fallbacks == {w \in valid : w.fallback /\ IsActive(w, now)}
           upcoming  == {w \in valid : now < w.start /\ w.start <= now + Lookahead}
           playing   == {w.video.sha : w \in ToSet(DesiredWants(inp.wants, now))}
           waiting   == InOrder(fallbacks) \o InTime(upcoming)
           I         == {i \in DOMAIN waiting : waiting[i].video.sha \notin playing}
<1>1. KeepStaged(inp.wants, now) = DistinctContent(Picked(waiting, I))
  BY DEF KeepStaged
<1>2. fallbacks \in SUBSET inp.wants /\ upcoming \in SUBSET inp.wants
  OBVIOUS
<1> HIDE DEF fallbacks, upcoming, playing
<1>3. IsFiniteSet(fallbacks) /\ IsFiniteSet(upcoming)
  BY <1>2, FS_Subset DEF InputOK
<1>4. Enumerates(InOrder(fallbacks), fallbacks) /\ Enumerates(InTime(upcoming), upcoming)
  BY <1>2, <1>3, InOrderEnumerates DEF InputOK
<1>5. InOrder(fallbacks) \in Seq(inp.wants) /\ InTime(upcoming) \in Seq(inp.wants)
  BY <1>2, <1>4 DEF Enumerates
<1>6. waiting \in Seq(inp.wants)
  BY <1>5
<1>7. I \subseteq DOMAIN waiting
  OBVIOUS
<1> HIDE DEF waiting, I
<1>8. Picked(waiting, I) \in Seq(inp.wants)
  BY <1>6, <1>7, PickedInOrder
<1>9. QED BY <1>1, <1>8, DistinctContents

(* A schedule is no longer than there are contents.                        *)
LEMMA ScheduleFits ==
  ASSUME NEW inp, InputOK(inp), NEW s, Schedule(s, inp.wants)
  PROVE  Len(s) \in Nat /\ Len(s) <= MaxPrefix
<1> DEFINE content == {w.video.sha : w \in inp.wants}
           n       == Len(s)
           f       == [i \in 1 .. n |-> s[i].video.sha]
<1>1. n \in Nat /\ \A i \in 1 .. n : s[i] \in inp.wants
  BY DEF Schedule
<1>2. IsFiniteSet(content) /\ Cardinality(content) <= MaxPrefix
  <2>1. IsFiniteSet(inp.wants) /\ Cardinality(content) <= MaxPrefix
    BY DEF InputOK
  <2> DEFINE W == inp.wants
             g == [w \in W |-> w.video.sha]
  <2>2. g \in [W -> content]
    OBVIOUS
  <2>3. \A x \in content : \E w \in W : g[w] = x
    OBVIOUS
  <2> HIDE DEF g, content
  <2>4. g \in Surjection(W, content)
    BY <2>2, <2>3 DEF Surjection
  <2>5. QED BY <2>1, <2>4, FS_Surjection
<1>3. f \in Injection(1 .. n, content)
  <2>1. f \in [1 .. n -> content]
    BY <1>1
  <2>2. \A i, j \in 1 .. n : f[i] = f[j] => i = j
    BY DEF Schedule
  <2> HIDE DEF f, n, content
  <2>3. QED BY <2>1, <2>2 DEF Injection, IsInjective
<1> HIDE DEF f, content
<1>4. Cardinality(1 .. n) <= Cardinality(content)
  BY <1>2, <1>3, FS_Injection
<1>5. Cardinality(1 .. n) = n
  <2> HIDE DEF n
  <2>1. n \in Nat /\ n \in Int /\ 1 \in Int
    BY <1>1
  <2>2. Cardinality(1 .. n) = IF 1 > n THEN 0 ELSE n - 1 + 1
    BY <2>1, FS_Interval
  <2>3. QED BY <2>1, <2>2
<1>6. Cardinality(content) \in Nat /\ MaxPrefix \in Nat
  BY <1>2, FS_CardinalityType, PrefixAssumption
<1>7. QED BY <1>1, <1>2, <1>4, <1>5, <1>6

-----------------------------------------------------------------------------
(* What the remote entries are                                             *)

(* A visible name that is a copy of a library video, by name and size.     *)
Matches(v, n, root) ==
  /\ v.slug = n.slug /\ v.sha = n.sha
  /\ ~ root[n].isDir /\ v.size = root[n].size

AppNames(inp) ==
  {n \in DOMAIN inp.remote.root : \E v \in inp.library : Matches(v, n, inp.remote.root)}

(* The copies of each video are a list, and a name is in one list once.    *)
CopiesApart(inp, managed) ==
  /\ \A id \in DOMAIN managed :
       /\ managed[id] \in Seq(AppNames(inp))
       /\ Len(managed[id]) >= 1
       /\ \E v \in inp.library :
            /\ v.id = id
            /\ \A k \in 1 .. Len(managed[id]) : Matches(v, managed[id][k], inp.remote.root)
  /\ \A id, jd \in DOMAIN managed :
       \A k \in 1 .. Len(managed[id]), l \in 1 .. Len(managed[jd]) :
         managed[id][k] = managed[jd][l] => id = jd /\ k = l

NumbersFinite(S) == S \subseteq Int /\ IsFiniteSet(S)

ClassOK(inp, c) ==
  /\ CopiesApart(inp, c.managed)
  /\ c.legacy = DOMAIN inp.remote.root \ AppNames(inp)
  /\ \A n \in c.playable : /\ n \in c.legacy
                           /\ ~ inp.remote.root[n].isDir
                           /\ inp.remote.root[n].size # 0
                           /\ n.slug \notin Unplayable
                           /\ \A v \in inp.library : v.slug # n.slug \/ v.sha # n.sha
  /\ NumbersFinite(c.staged) /\ NumbersFinite(c.corrupt) /\ NumbersFinite(c.orphan)
  /\ \A p \in c.parts : p \in DOMAIN inp.remote.staging

LEMMA ImageFinite ==
  ASSUME NEW S, IsFiniteSet(S), NEW f, DOMAIN f = S
  PROVE  IsFiniteSet({f[x] : x \in S})
<1> DEFINE T == {f[x] : x \in S}
           g == [x \in S |-> f[x]]
<1>1. g \in [S -> T]
  OBVIOUS
<1>2. \A y \in T : \E x \in S : g[x] = y
  OBVIOUS
<1> HIDE DEF g, T
<1>3. g \in Surjection(S, T)
  BY <1>1, <1>2 DEF Surjection
<1>4. IsFiniteSet(T)
  BY <1>3, FS_Surjection
<1>5. QED BY <1>4 DEF T

LEMMA StagedNumbers ==
  ASSUME NEW inp, InputOK(inp), NEW S, S \subseteq DOMAIN inp.remote.staging
  PROVE  NumbersFinite({s.sha : s \in S})
<1>1. IsFiniteSet(S)
  <2>1. S \in SUBSET DOMAIN inp.remote.staging
    OBVIOUS
  <2>2. QED BY <2>1, FS_Subset DEF InputOK
<1>2. \A s \in S : s.sha \in Int
  BY DEF InputOK
<1> DEFINE f == [s \in S |-> s.sha]
<1>3. {s.sha : s \in S} = {f[s] : s \in S} /\ DOMAIN f = S
  OBVIOUS
<1>4. IsFiniteSet({f[s] : s \in S})
  <2> HIDE DEF f
  <2>1. QED BY <1>1, <1>3, ImageFinite
<1>5. {s.sha : s \in S} \subseteq Int
  BY <1>2
<1>6. QED BY <1>3, <1>4, <1>5 DEF NumbersFinite

LEMMA ClassifyIsOK ==
  ASSUME NEW inp, InputOK(inp)
  PROVE  ClassOK(inp, Classify(inp.remote, inp.library))
<1> DEFINE remote      == inp.remote
           library     == inp.library
           owners(n)   == {v \in library : v.slug = n.slug /\ v.sha = n.sha}
           matching(n) == {v \in owners(n) : /\ ~ remote.root[n].isDir
                                             /\ v.size = remote.root[n].size}
           owner(n)    == CHOOSE v \in matching(n) : \A w \in matching(n) : v.id <= w.id
           app         == {n \in DOMAIN remote.root : matching(n) # {}}
           legacy      == DOMAIN remote.root \ app
           whole       == {s \in DOMAIN remote.staging : ~ s.part}
           known(s)    == {v \in library : v.sha = s.sha}
           complete(s) == \E v \in known(s) : v.size = remote.staging[s].size
           copies(id)  == {n \in app : owner(n).id = id}
           managed     == [id \in {owner(n).id : n \in app} |-> ByName(copies(id))]
           c           == Classify(remote, library)
<1>1. /\ c.managed = managed
      /\ c.legacy = legacy
      /\ c.playable = {n \in legacy : /\ ~ remote.root[n].isDir
                                      /\ remote.root[n].size # 0
                                      /\ n.slug \notin Unplayable
                                      /\ owners(n) = {}}
      /\ c.staged = {s.sha : s \in {t \in whole : complete(t)}}
      /\ c.corrupt = {s.sha : s \in {t \in whole : known(t) # {} /\ ~ complete(t)}}
      /\ c.orphan = {s.sha : s \in {t \in whole : known(t) = {}}}
      /\ c.parts = {s \in DOMAIN remote.staging : s.part}
  BY DEF Classify
<1>2. app = AppNames(inp)
  BY DEF AppNames, Matches
<1>3. \A n \in app : owner(n) \in matching(n)
  <2>1. ASSUME NEW n \in app PROVE owner(n) \in matching(n)
    <3> DEFINE ids == {v.id : v \in matching(n)}
    <3>1. matching(n) # {} /\ \A v \in matching(n) : v \in library
      OBVIOUS
    <3>2. \A v \in library : v.id \in Nat
      BY DEF InputOK, LibraryOK, Videos
    <3> HIDE DEF matching
    <3>3. ids \subseteq Nat /\ ids # {}
      BY <3>1, <3>2
    <3>4. Min(ids) \in ids /\ \A y \in ids : Min(ids) <= y
      <4> HIDE DEF ids
      <4>1. QED BY <3>3, LeastNumber
    <3>5. PICK v \in matching(n) : v.id = Min(ids)
      BY <3>4
    <3>6. \A w \in matching(n) : v.id <= w.id
      BY <3>4, <3>5
    <3>7. QED BY <3>6
  <2>2. QED BY <2>1
<1>4. \A n \in app : owner(n) \in library /\ Matches(owner(n), n, remote.root)
  BY <1>3 DEF Matches
<1> HIDE DEF owner
<1>5. \A n, m \in app : owner(n).id = owner(m).id => owner(n) = owner(m)
  BY <1>4 DEF InputOK, LibraryOK
<1>6. \A id \in DOMAIN managed :
        Enumerates(managed[id], copies(id)) /\ managed[id] \in Seq(app)
  <2>1. ASSUME NEW id \in DOMAIN managed
        PROVE  Enumerates(managed[id], copies(id)) /\ managed[id] \in Seq(app)
    <3>1. copies(id) \in SUBSET DOMAIN remote.root /\ copies(id) \subseteq app
      OBVIOUS
    <3>2. managed[id] = ByName(copies(id))
      OBVIOUS
    <3> HIDE DEF copies, managed
    <3>3. IsFiniteSet(copies(id)) /\ copies(id) \subseteq NamesFor(library)
      BY <3>1, FS_Subset DEF InputOK
    <3>4. Enumerates(managed[id], copies(id))
      BY <3>2, <3>3, ByNameEnumerates DEF InputOK
    <3> HIDE DEF app
    <3>5. managed[id] \in Seq(app)
      BY <3>1, <3>4, EnumeratedIn
    <3>6. QED BY <3>4, <3>5
  <2>2. QED BY <2>1
<1>7. DOMAIN managed = {owner(n).id : n \in app}
  OBVIOUS
<1>8. \A id \in DOMAIN managed : \A k \in 1 .. Len(managed[id]) :
        managed[id][k] \in app /\ owner(managed[id][k]).id = id
  <2>1. ASSUME NEW id \in DOMAIN managed, NEW k \in 1 .. Len(managed[id])
        PROVE  managed[id][k] \in copies(id)
    <3>1. Enumerates(managed[id], copies(id)) /\ copies(id) \subseteq app
      BY <1>6
    <3> HIDE DEF copies, managed, app
    <3>2. QED BY <3>1, EnumeratedIn
  <2>2. QED BY <2>1
<1>9. \A id \in DOMAIN managed : Len(managed[id]) \in Nat /\ Len(managed[id]) >= 1
  <2>1. ASSUME NEW id \in DOMAIN managed PROVE Len(managed[id]) \in Nat /\ Len(managed[id]) >= 1
    <3>1. PICK n \in app : owner(n).id = id
      BY <1>7
    <3>2. n \in copies(id)
      BY <3>1
    <3> HIDE DEF copies, managed
    <3>3. \E i \in 1 .. Len(managed[id]) : managed[id][i] = n
      BY <1>6, <3>2 DEF Enumerates
    <3>4. Len(managed[id]) \in Nat
      BY <1>6
    <3>5. QED BY <3>3, <3>4
  <2>2. QED BY <2>1
<1>10. CopiesApart(inp, managed)
  <2> HIDE DEF managed, copies, app
  <2>1. ASSUME NEW id \in DOMAIN managed
        PROVE  \E v \in inp.library :
            /\ v.id = id
            /\ \A k \in 1 .. Len(managed[id]) : Matches(v, managed[id][k], inp.remote.root)
    <3>1. 1 \in 1 .. Len(managed[id])
      BY <1>9
    <3>2. \A k \in 1 .. Len(managed[id]) : owner(managed[id][k]) = owner(managed[id][1])
      BY <1>5, <1>8, <3>1
    <3>3. QED BY <1>4, <1>8, <3>1, <3>2
  <2>2. ASSUME NEW id \in DOMAIN managed, NEW jd \in DOMAIN managed,
               NEW k \in 1 .. Len(managed[id]), NEW l \in 1 .. Len(managed[jd]),
               managed[id][k] = managed[jd][l]
        PROVE  id = jd /\ k = l
    <3>1. id = jd
      BY <1>8, <2>2
    <3>2. QED BY <1>6, <2>2, <3>1 DEF Enumerates
  <2>3. QED BY <1>2, <1>6, <1>9, <2>1, <2>2 DEF CopiesApart
<1>11. NumbersFinite(c.staged) /\ NumbersFinite(c.corrupt) /\ NumbersFinite(c.orphan)
  <2> DEFINE A == {t \in whole : complete(t)}
             B == {t \in whole : known(t) # {} /\ ~ complete(t)}
             C == {t \in whole : known(t) = {}}
  <2>1. A \subseteq DOMAIN remote.staging /\ B \subseteq DOMAIN remote.staging /\ C \subseteq DOMAIN remote.staging
    OBVIOUS
  <2>2. c.staged = {s.sha : s \in A} /\ c.corrupt = {s.sha : s \in B} /\ c.orphan = {s.sha : s \in C}
    BY <1>1
  <2> HIDE DEF A, B, C, c
  <2>3. QED BY <2>1, <2>2, StagedNumbers
<1>12. QED BY <1>1, <1>2, <1>10, <1>11 DEF ClassOK

-----------------------------------------------------------------------------
(* Target names                                                            *)

LEMMA ClosestIsOne ==
  ASSUME NEW S, S \subseteq Nat, S # {}, NEW wanted \in Nat
  PROVE  Closest(S, wanted) \in S
<1> DEFINE gaps == {Distance(x, wanted) : x \in S}
           near(c, d) == \/ Distance(c, wanted) < Distance(d, wanted)
                         \/ Distance(c, wanted) = Distance(d, wanted) /\ c > d
<1>1. \A x \in S : Distance(x, wanted) \in Nat
  BY DEF Distance
<1>2. gaps \subseteq Nat /\ gaps # {}
  BY <1>1
<1>3. PICK m \in gaps : \A y \in gaps : m <= y
  <2> HIDE DEF gaps
  <2>1. QED BY <1>2, LeastNumber
<1>4. PICK a \in S : Distance(a, wanted) = m
  BY <1>3
<1>5. \A x \in S : Distance(a, wanted) <= Distance(x, wanted)
  BY <1>3, <1>4
<1>6. \E c \in S : \A d \in S \ {c} : near(c, d)
  <2>1. CASE wanted + m \in S
    <3>1. Distance(wanted + m, wanted) = m /\ m \in Nat
      BY <1>2, <1>3 DEF Distance
    <3>2. ASSUME NEW d \in S \ {wanted + m} PROVE near(wanted + m, d)
      <4>1. Distance(d, wanted) >= m
        BY <1>4, <1>5
      <4>2. Distance(d, wanted) = m => d < wanted + m
        BY <3>1 DEF Distance
      <4>3. QED BY <1>1, <3>1, <4>1, <4>2
    <3>3. QED BY <2>1, <3>2
  <2>2. CASE wanted + m \notin S
    <3>1. ASSUME NEW d \in S \ {a} PROVE near(a, d)
      <4>1. Distance(d, wanted) >= m
        BY <1>4, <1>5
      <4>2. d # wanted + m /\ a # wanted + m /\ m \in Nat
        BY <1>2, <1>3, <2>2
      <4>3. Distance(d, wanted) = m => d = a
        BY <1>4, <4>2 DEF Distance
      <4>4. QED BY <1>1, <1>4, <4>1, <4>3
    <3>2. QED BY <3>1
  <2>3. QED BY <2>1, <2>2
<1>7. QED BY <1>6 DEF Closest

ItemsFor(inp) == [video : inp.library, name : NamesFor(inp.library)]

(* A name for a video: the one it has, or a prefix and its own name; and   *)
(* only its own name may be taken.                                         *)
WellNamed(item, c, occupied) ==
  /\ \/ item.name = CurrentName(item.video, c) /\ item.video.id \in DOMAIN c.managed
     \/ \E p \in 1 .. MaxPrefix : item.name = ActiveName(p, item.video)
  /\ item.name = CurrentName(item.video, c) \/ item.name \notin occupied

(* Names for the first k of the videos: one each at most, and one for each *)
(* that is on the screen already.                                          *)
PlacedUpTo(inp, c, wants, occupied, k, items) ==
  /\ items \in Seq(ItemsFor(inp))
  /\ \A m \in 1 .. Len(items) : \E i \in 1 .. k : items[m].video = wants[i].video
  /\ \A m \in 1 .. Len(items) : WellNamed(items[m], c, occupied)
  /\ \A m, l \in 1 .. Len(items) : items[m].video.id = items[l].video.id => m = l
  /\ \A i \in 1 .. k : wants[i].video.id \in DOMAIN c.managed =>
       \E m \in 1 .. Len(items) : items[m].video = wants[i].video

LEMMA NameOfVideo ==
  ASSUME NEW inp, InputOK(inp), NEW v \in inp.library, NEW p \in Nat
  PROVE  ActiveName(p, v) \in NamesFor(inp.library)
<1>1. v.slug \in Nat /\ v.sha \in {w.sha : w \in inp.library} /\ v.sha # None
  BY DEF InputOK, LibraryOK, Videos
<1>2. QED BY <1>1 DEF ActiveName, NamesFor

LEMMA CurrentIsAName ==
  ASSUME NEW inp, InputOK(inp), NEW c, ClassOK(inp, c), NEW v
  PROVE  /\ v.id \in DOMAIN c.managed =>
              /\ CurrentName(v, c) = c.managed[v.id][1]
              /\ CurrentName(v, c) \in NamesFor(inp.library)
              /\ CurrentName(v, c) \in AppNames(inp)
         /\ CurrentName(v, c) = None <=> v.id \notin DOMAIN c.managed
<1>1. ASSUME v.id \in DOMAIN c.managed
      PROVE  /\ CurrentName(v, c) = c.managed[v.id][1]
             /\ CurrentName(v, c) \in NamesFor(inp.library)
             /\ CurrentName(v, c) \in AppNames(inp)
  <2>1. c.managed[v.id] \in Seq(AppNames(inp)) /\ Len(c.managed[v.id]) >= 1
    BY <1>1 DEF ClassOK, CopiesApart
  <2>2. CurrentName(v, c) = c.managed[v.id][1]
    BY <1>1, <2>1 DEF CurrentName
  <2>3. c.managed[v.id][1] \in AppNames(inp)
    <3> HIDE DEF AppNames
    <3>1. QED BY <2>1
  <2>4. AppNames(inp) \subseteq NamesFor(inp.library)
    BY DEF AppNames, InputOK
  <2>5. QED BY <2>2, <2>3, <2>4
<1>2. QED BY <1>1 DEF CurrentName, InputOK

(* One more video placed, or left out, which happens to none on screen.    *)
NextTo(inp, c, occupied, v, items, next) ==
  \/ next = items /\ v.id \notin DOMAIN c.managed
  \/ \E name \in NamesFor(inp.library) :
       /\ next = Append(items, [video |-> v, name |-> name])
       /\ WellNamed([video |-> v, name |-> name], c, occupied)

LEMMA NextIsPlaced ==
  ASSUME NEW inp, InputOK(inp), NEW c, ClassOK(inp, c),
         NEW wants, NEW occupied, NEW busy, NEW prefixes,
         NEW i, wants[i].video \in inp.library,
         prefixes[wants[i].video.id] \in 1 .. MaxPrefix,
         NEW items
  PROVE  NextTo(inp, c, occupied, wants[i].video, items,
                PlaceNext(items, i, wants, c, prefixes, occupied, busy))
<1> DEFINE next     == PlaceNext(items, i, wants, c, prefixes, occupied, busy)
           v        == wants[i].video
           current  == CurrentName(v, c)
           wanted   == prefixes[v.id]
           clash(x) == \/ \E k \in DOMAIN items : items[k].name = x
                       \/ x \in occupied /\ x # current
           low      == IF items = <<>> THEN 0 ELSE Last(items).name.nnn
           high     == IF i = Len(wants) THEN MaxPrefix + 1 ELSE prefixes[wants[i + 1].video.id]
           free     == {p \in Nearby(wanted, low, high) : ~ clash(ActiveName(p, v))}
           name     == IF ~ clash(ActiveName(wanted, v)) THEN ActiveName(wanted, v)
                       ELSE IF free # {} THEN ActiveName(Closest(free, wanted), v)
                       ELSE current
           waits    == current = None /\ v.sha \in busy /\ Missing(v, c)
<1>1. next = IF waits \/ name = None THEN items ELSE Append(items, [video |-> v, name |-> name])
  BY DEF PlaceNext
<1>2. /\ v.id \in DOMAIN c.managed => current \in NamesFor(inp.library)
      /\ current = None <=> v.id \notin DOMAIN c.managed
  BY CurrentIsAName
<1>3. wanted \in 1 .. MaxPrefix /\ v \in inp.library /\ MaxPrefix \in Nat
  BY PrefixAssumption
<1>4. None \notin NamesFor(inp.library)
  BY DEF InputOK
<1>5. \A p \in 1 .. MaxPrefix : ActiveName(p, v) \in NamesFor(inp.library)
  <2> HIDE DEF v
  <2>1. QED BY <1>3, NameOfVideo
<1>6. free \subseteq 1 .. MaxPrefix /\ \A p \in free : ~ clash(ActiveName(p, v))
  BY DEF Nearby
<1>7. free # {} => Closest(free, wanted) \in free
  <2>1. free \subseteq Nat /\ wanted \in Nat
    BY <1>3, <1>6
  <2> HIDE DEF free, wanted
  <2>2. QED BY <2>1, ClosestIsOne
<1>8. \A x : ~ clash(x) => x = current \/ x \notin occupied
  OBVIOUS
<1> HIDE DEF clash, free, wanted, waits, current, v, next
<1>9. \/ name = current
      \/ \E p \in 1 .. MaxPrefix : /\ name = ActiveName(p, v)
                                   /\ name = current \/ name \notin occupied
  <2>1. CASE ~ clash(ActiveName(wanted, v))
    BY <1>3, <1>8, <2>1
  <2>2. CASE clash(ActiveName(wanted, v)) /\ free # {}
    <3>1. Closest(free, wanted) \in 1 .. MaxPrefix /\ ~ clash(ActiveName(Closest(free, wanted), v))
      BY <1>6, <1>7, <2>2
    <3>2. name = ActiveName(Closest(free, wanted), v)
      BY <2>2
    <3>3. QED BY <1>8, <3>1, <3>2
  <2>3. CASE clash(ActiveName(wanted, v)) /\ free = {}
    BY <2>3
  <2>4. QED BY <2>1, <2>2, <2>3
<1> HIDE DEF name
<1>10. CASE waits \/ name = None
  <2>1. waits => current = None
    BY DEF waits
  <2>2. current = None
    BY <1>4, <1>5, <1>9, <1>10, <2>1
  <2>3. QED BY <1>1, <1>2, <1>10, <2>2 DEF v, next, NextTo
<1>11. CASE ~ (waits \/ name = None)
  <2>1. name \in NamesFor(inp.library)
    BY <1>2, <1>5, <1>9, <1>11
  <2>2. WellNamed([video |-> v, name |-> name], c, occupied)
    BY <1>2, <1>9, <1>11 DEF WellNamed, current
  <2>3. QED BY <1>1, <1>11, <2>1, <2>2 DEF v, next, NextTo
<1>12. QED BY <1>10, <1>11

LEMMA NextStaysPlaced ==
  ASSUME NEW inp, InputOK(inp), NEW c, ClassOK(inp, c),
         NEW wants, Schedule(wants, inp.wants), NEW occupied, NEW busy, NEW prefixes,
         \A i \in 1 .. Len(wants) : prefixes[wants[i].video.id] \in 1 .. MaxPrefix,
         NEW i \in 1 .. Len(wants),
         NEW items, PlacedUpTo(inp, c, wants, occupied, i - 1, items)
  PROVE  PlacedUpTo(inp, c, wants, occupied, i,
                    PlaceNext(items, i, wants, c, prefixes, occupied, busy))
<1> DEFINE next == PlaceNext(items, i, wants, c, prefixes, occupied, busy)
           v    == wants[i].video
           n    == Len(wants)
<1>1. n \in Nat /\ i \in 1 .. n /\ \A j \in 1 .. n : wants[j] \in inp.wants
  BY DEF Schedule
<1>2. \A j \in 1 .. n : wants[j].video \in inp.library
  BY <1>1 DEF InputOK, WantsFor
<1>3. \A j \in 1 .. n : wants[j].video.id = v.id => j = i
  <2>1. ASSUME NEW j \in 1 .. n, wants[j].video.id = v.id PROVE j = i
    <3>1. wants[j].video = wants[i].video
      BY <1>2, <2>1 DEF InputOK, LibraryOK
    <3>2. QED BY <3>1 DEF Schedule
  <2>2. QED BY <2>1
<1>4. /\ items \in Seq(ItemsFor(inp)) /\ Len(items) \in Nat
      /\ \A m \in 1 .. Len(items) : \E j \in 1 .. i - 1 : items[m].video = wants[j].video
      /\ \A m \in 1 .. Len(items) : WellNamed(items[m], c, occupied)
      /\ \A m, l \in 1 .. Len(items) : items[m].video.id = items[l].video.id => m = l
      /\ \A j \in 1 .. i - 1 : wants[j].video.id \in DOMAIN c.managed =>
           \E m \in 1 .. Len(items) : items[m].video = wants[j].video
  BY DEF PlacedUpTo
<1>5. /\ \A j \in 1 .. i : j = i \/ j \in 1 .. i - 1
      /\ \A j \in 1 .. i - 1 : j \in 1 .. i /\ j \in 1 .. n /\ j # i
      /\ i \in 1 .. i
  BY <1>1
<1>6. \/ next = items /\ v.id \notin DOMAIN c.managed
      \/ \E name \in NamesFor(inp.library) :
           /\ next = Append(items, [video |-> v, name |-> name])
           /\ WellNamed([video |-> v, name |-> name], c, occupied)
  <2>1. NextTo(inp, c, occupied, v, items, next)
    BY <1>1, <1>2, NextIsPlaced
  <2> HIDE DEF next, v
  <2>2. QED BY <2>1 DEF NextTo
<1> HIDE DEF next, v
<1>7. CASE next = items /\ v.id \notin DOMAIN c.managed
  <2>1. \A m \in 1 .. Len(items) : \E j \in 1 .. i : items[m].video = wants[j].video
    BY <1>4, <1>5
  <2>2. \A j \in 1 .. i : wants[j].video.id \in DOMAIN c.managed =>
          \E m \in 1 .. Len(items) : items[m].video = wants[j].video
    BY <1>4, <1>5, <1>7 DEF v
  <2>3. PlacedUpTo(inp, c, wants, occupied, i, items)
    BY <1>4, <2>1, <2>2 DEF PlacedUpTo
  <2>4. QED BY <1>7, <2>3 DEF next
<1>8. ASSUME NEW name \in NamesFor(inp.library),
             next = Append(items, [video |-> v, name |-> name]),
             WellNamed([video |-> v, name |-> name], c, occupied)
      PROVE  PlacedUpTo(inp, c, wants, occupied, i, next)
  <2> DEFINE item == [video |-> v, name |-> name]
             L    == Len(items)
  <2>1. item \in ItemsFor(inp) /\ item.video = v
    BY <1>2 DEF ItemsFor, v
  <2>2. next = Append(items, item) /\ WellNamed(item, c, occupied)
    BY <1>8
  <2> HIDE DEF item
  <2>3. /\ next \in Seq(ItemsFor(inp)) /\ Len(next) = L + 1 /\ L \in Nat
        /\ next[L + 1] = item
        /\ \A m \in 1 .. L : next[m] = items[m]
    BY <1>4, <2>1, <2>2
  <2> HIDE DEF L
  <2>4. \A m \in 1 .. Len(next) : m = L + 1 \/ m \in 1 .. L
    BY <2>3
  <2>5. \A m \in 1 .. L : m \in 1 .. Len(next) /\ L + 1 \in 1 .. Len(next)
    BY <2>3
  <2>6. L + 1 \in 1 .. Len(next)
    BY <2>3
  <2>7. \A m \in 1 .. Len(next) : \E j \in 1 .. i : next[m].video = wants[j].video
    <3>1. item.video = wants[i].video
      BY <2>1 DEF v
    <3>2. \A m \in 1 .. L : \E j \in 1 .. i : items[m].video = wants[j].video
      BY <1>4, <1>5 DEF L
    <3>3. QED BY <1>5, <2>3, <2>4, <3>1, <3>2
  <2>8. \A m \in 1 .. Len(next) : WellNamed(next[m], c, occupied)
    BY <1>4, <2>2, <2>3, <2>4 DEF L
  <2>9. \A m \in 1 .. L : items[m].video.id # v.id
    <3>1. ASSUME NEW m \in 1 .. L, items[m].video.id = v.id PROVE FALSE
      <4>1. PICK j \in 1 .. i - 1 : items[m].video = wants[j].video
        BY <1>4 DEF L
      <4>2. j \in 1 .. n /\ wants[j].video.id = v.id /\ j # i
        BY <1>5, <3>1, <4>1
      <4>3. QED BY <1>3, <4>2
    <3>2. QED BY <3>1
  <2>10. \A m, l \in 1 .. Len(next) : next[m].video.id = next[l].video.id => m = l
    <3>1. \A m, l \in 1 .. L : items[m].video.id = items[l].video.id => m = l
      BY <1>4 DEF L
    <3>2. QED BY <2>1, <2>3, <2>4, <2>9, <3>1
  <2>11. \A j \in 1 .. i : wants[j].video.id \in DOMAIN c.managed =>
          \E m \in 1 .. Len(next) : next[m].video = wants[j].video
    <3>1. next[L + 1].video = wants[i].video
      BY <2>1, <2>3 DEF v
    <3>2. \A j \in 1 .. i - 1 : wants[j].video.id \in DOMAIN c.managed =>
            \E m \in 1 .. L : items[m].video = wants[j].video
      BY <1>4 DEF L
    <3>3. \A j \in 1 .. i - 1 : wants[j].video.id \in DOMAIN c.managed =>
            \E m \in 1 .. Len(next) : next[m].video = wants[j].video
      BY <2>3, <2>5, <3>2
    <3>4. QED BY <1>5, <2>6, <3>1, <3>3
  <2>12. QED BY <2>3, <2>7, <2>8, <2>10, <2>11 DEF PlacedUpTo
<1>9. PlacedUpTo(inp, c, wants, occupied, i, next)
  BY <1>6, <1>7, <1>8 DEF next
<1>10. QED BY <1>9 DEF next

(* placed[k] is what is placed after the first k wants.                    *)
PlacedBy(wants, c, prefixes, occupied, busy, placed) ==
  /\ placed[0] = <<>>
  /\ \A k \in 1 .. Len(wants) :
       placed[k] = PlaceNext(placed[k - 1], k, wants, c, prefixes, occupied, busy)
  /\ PlacedItems(wants, c, prefixes, occupied, busy) = placed[Len(wants)]

LEMMA PlacedStepByStep ==
  ASSUME NEW inp, InputOK(inp), NEW c, ClassOK(inp, c),
         NEW wants, Schedule(wants, inp.wants), NEW occupied, NEW busy, NEW prefixes,
         \A i \in 1 .. Len(wants) : prefixes[wants[i].video.id] \in 1 .. MaxPrefix
  PROVE  \E placed : PlacedBy(wants, c, prefixes, occupied, busy, placed)
<1> DEFINE n       == Len(wants)
           Acc     == Seq(ItemsFor(inp))
           step(items, i) == PlaceNext(items, i, wants, c, prefixes, occupied, busy)
           F       == [x \in (1 .. n) \X Acc |-> step(x[2], x[1])]
           Body(f) == [i \in 0 .. n |-> IF i = 0 THEN <<>> ELSE step(f[i - 1], i)]
           placed  == CHOOSE f : f = Body(f)
<1>1. n \in Nat /\ \A j \in 1 .. n : wants[j].video \in inp.library
  BY DEF Schedule, InputOK, WantsFor
<1>2. PlacedItems(wants, c, prefixes, occupied, busy) = placed[n]
  BY DEF PlacedItems
<1>3. \A k \in 1 .. n : \A a \in Acc : step(a, k) \in Acc
  <2>1. ASSUME NEW k \in 1 .. n, NEW a \in Acc PROVE step(a, k) \in Acc
    <3>1. wants[k].video \in inp.library /\ prefixes[wants[k].video.id] \in 1 .. MaxPrefix
      BY <1>1
    <3>2. NextTo(inp, c, occupied, wants[k].video, a, step(a, k))
      BY <1>1, <3>1, NextIsPlaced
    <3> HIDE DEF step
    <3>3. ASSUME NEW name \in NamesFor(inp.library)
          PROVE  Append(a, [video |-> wants[k].video, name |-> name]) \in Acc
      <4> DEFINE item == [video |-> wants[k].video, name |-> name]
      <4>1. item \in ItemsFor(inp)
        BY <3>1 DEF ItemsFor
      <4> HIDE DEF item
      <4>2. Append(a, item) \in Acc
        BY <4>1
      <4>3. QED BY <4>2 DEF item
    <3>4. QED BY <3>2, <3>3 DEF NextTo
  <2>2. QED BY <2>1
<1>4. \A k \in 1 .. n : \A a \in Acc : F[<<k, a>>] = step(a, k)
  OBVIOUS
<1>5. <<>> \in Acc
  OBVIOUS
<1> HIDE DEF step, F, n, Acc
<1>6. PICK g \in [0 .. n -> Acc] : g[0] = <<>> /\ \A k \in 1 .. n : g[k] = F[<<k, g[k - 1]>>]
  <2>1. StaysIn(Acc, n, F)
    BY <1>3, <1>4 DEF StaysIn
  <2>2. Stepwise(Acc, n, <<>>, F)
    BY <1>1, <1>5, <2>1, Stepped
  <2>3. QED BY <2>2 DEF Stepwise
<1>7. \A k \in 1 .. n : k - 1 \in 0 .. n
  BY <1>1
<1>8. g = Body(g)
  <2>1. \A k \in 1 .. n : g[k] = step(g[k - 1], k)
    BY <1>4, <1>6, <1>7
  <2> DEFINE h == [i \in 0 .. n |-> IF i = 0 THEN <<>> ELSE step(g[i - 1], i)]
  <2>2. \A i \in 0 .. n : g[i] = h[i]
    BY <1>1, <1>6, <2>1
  <2>3. g = [i \in 0 .. n |-> g[i]]
    BY <1>6
  <2>4. g = h
    BY <2>2, <2>3
  <2>5. QED BY <2>4
<1>9. placed = Body(placed)
  <2> HIDE DEF Body
  <2>1. QED BY <1>8
<1> HIDE DEF placed
<1>10. placed[0] = <<>> /\ \A k \in 1 .. n : placed[k] = step(placed[k - 1], k)
  BY <1>1, <1>9
<1>11. PlacedBy(wants, c, prefixes, occupied, busy, placed)
  BY <1>2, <1>10 DEF PlacedBy, n, step
<1>12. QED BY <1>11

LEMMA PlacedItemsOK ==
  ASSUME NEW inp, InputOK(inp), NEW c, ClassOK(inp, c),
         NEW wants, Schedule(wants, inp.wants), NEW occupied, NEW busy, NEW prefixes,
         \A i \in 1 .. Len(wants) : prefixes[wants[i].video.id] \in 1 .. MaxPrefix
  PROVE  PlacedUpTo(inp, c, wants, occupied, Len(wants),
                    PlacedItems(wants, c, prefixes, occupied, busy))
<1> DEFINE n == Len(wants)
           step(items, i) == PlaceNext(items, i, wants, c, prefixes, occupied, busy)
<1>1. n \in Nat
  BY DEF Schedule
<1>2. PICK placed : PlacedBy(wants, c, prefixes, occupied, busy, placed)
  BY PlacedStepByStep
<1>3. placed[0] = <<>> /\ \A k \in 1 .. n : placed[k] = step(placed[k - 1], k)
  BY <1>2 DEF PlacedBy
<1> HIDE DEF step, n
<1> DEFINE Good == {k \in 0 .. n : PlacedUpTo(inp, c, wants, occupied, k, placed[k])}
<1>4. 0 \in Good
  <2>1. PlacedUpTo(inp, c, wants, occupied, 0, <<>>)
    BY DEF PlacedUpTo
  <2>2. 0 \in 0 .. n
    BY <1>1
  <2>3. QED BY <1>3, <2>1, <2>2
<1>5. ASSUME NEW k \in 1 .. n, k - 1 \in Good PROVE k \in Good
  <2>1. PlacedUpTo(inp, c, wants, occupied, k - 1, placed[k - 1])
    BY <1>5
  <2>2. PlacedUpTo(inp, c, wants, occupied, k, step(placed[k - 1], k))
    BY <2>1, NextStaysPlaced DEF step, n
  <2>3. k \in 0 .. n
    BY <1>1
  <2>4. QED BY <1>3, <2>2, <2>3
<1>6. n \in Good
  <2> HIDE DEF Good
  <2>1. \A k \in 1 .. n : k - 1 \in Good => k \in Good
    BY <1>5
  <2>2. \A k \in 0 .. n : k \in Good
    BY <1>1, <1>4, <2>1, Climb
  <2>3. n \in 0 .. n
    BY <1>1
  <2>4. QED BY <2>2, <2>3
<1>7. QED BY <1>2, <1>6 DEF PlacedBy, n

-----------------------------------------------------------------------------
(* The draft of a plan                                                     *)

DraftIn(inp) ==
  LET c     == Classify(inp.remote, inp.library)
      wants == DesiredWants(inp.wants, inp.now)
  IN  DraftOf(inp, c, wants, FurtherCopies(c, {wants[i].video.id : i \in DOMAIN wants}))

(* Each extra name is a further copy of a video that should play, whose    *)
(* first copy is on the screen too.                                        *)
ExtraOK(d) ==
  /\ IsFiniteSet(d.extra)
  /\ \A n \in d.extra :
       \E i \in 1 .. Len(d.wants) :
         /\ d.wants[i].video.id \in DOMAIN d.c.managed
         /\ \E k \in 2 .. Len(d.c.managed[d.wants[i].video.id]) :
              n = d.c.managed[d.wants[i].video.id][k]

DraftOK(inp, d) ==
  /\ d.inp = inp
  /\ ClassOK(inp, d.c)
  /\ Schedule(d.wants, inp.wants)
  /\ Schedule(d.keep, inp.wants)
  /\ ExtraOK(d)
  /\ PlacedUpTo(inp, d.c, d.wants, DOMAIN inp.remote.root \ d.extra, Len(d.wants), d.items)

LEMMA TailsAre ==
  ASSUME NEW S, NEW s \in Seq(S), Len(s) >= 1, NEW x \in ToSet(Tail(s))
  PROVE  \E k \in 2 .. Len(s) : x = s[k]
<1>1. PICK j \in DOMAIN Tail(s) : Tail(s)[j] = x
  BY DEF ToSet
<1>2. Len(s) \in Nat /\ DOMAIN Tail(s) = 1 .. Len(s) - 1
  OBVIOUS
<1>3. j + 1 \in 2 .. Len(s) /\ Tail(s)[j] = s[j + 1]
  BY <1>2
<1>4. QED BY <1>1, <1>3

LEMMA ExtraIsOK ==
  ASSUME NEW inp, InputOK(inp), NEW c, ClassOK(inp, c), NEW wants, Schedule(wants, inp.wants),
         NEW n \in FurtherCopies(c, {wants[i].video.id : i \in DOMAIN wants})
  PROVE  /\ n \in AppNames(inp)
         /\ \E i \in 1 .. Len(wants) :
              /\ wants[i].video.id \in DOMAIN c.managed
              /\ \E k \in 2 .. Len(c.managed[wants[i].video.id]) :
                   n = c.managed[wants[i].video.id][k]
<1>1. PICK id \in {wants[i].video.id : i \in DOMAIN wants} \cap DOMAIN c.managed :
        n \in ToSet(Tail(c.managed[id]))
  BY DEF FurtherCopies
<1>2. DOMAIN wants = 1 .. Len(wants)
  BY DEF Schedule
<1>3. PICK i \in 1 .. Len(wants) : id = wants[i].video.id
  BY <1>1, <1>2
<1>4. c.managed[id] \in Seq(AppNames(inp)) /\ Len(c.managed[id]) >= 1
  BY <1>1 DEF ClassOK, CopiesApart
<1>5. PICK k \in 2 .. Len(c.managed[id]) : n = c.managed[id][k]
  BY <1>1, <1>4, TailsAre
<1>6. k \in 1 .. Len(c.managed[id])
  BY <1>4
<1>7. n \in AppNames(inp)
  <2> HIDE DEF AppNames
  <2>1. QED BY <1>4, <1>5, <1>6
<1>8. QED BY <1>1, <1>3, <1>5, <1>7

LEMMA AppNamesFinite ==
  ASSUME NEW inp, InputOK(inp)
  PROVE  IsFiniteSet(AppNames(inp)) /\ AppNames(inp) \subseteq NamesFor(inp.library)
<1>1. AppNames(inp) \in SUBSET DOMAIN inp.remote.root
  BY DEF AppNames
<1>2. QED BY <1>1, FS_Subset DEF InputOK

(* The numbers the videos get.                                             *)
LEMMA PrefixesGiven ==
  ASSUME NEW inp, InputOK(inp), NEW c, ClassOK(inp, c), NEW wants, Schedule(wants, inp.wants)
  PROVE  LET ids     == [i \in DOMAIN wants |-> wants[i].video.id]
             current == [id \in ToSet(ids) \cap DOMAIN c.managed |-> Head(c.managed[id]).nnn]
             numbers == AssignPrefixes(ids, current)
         IN  \A i \in 1 .. Len(wants) :
               /\ numbers[wants[i].video.id] \in 1 .. MaxPrefix
               /\ \A j \in 1 .. Len(wants) : i < j =>
                    numbers[wants[i].video.id] < numbers[wants[j].video.id]
<1> DEFINE n       == Len(wants)
           ids     == [i \in DOMAIN wants |-> wants[i].video.id]
           current == [id \in ToSet(ids) \cap DOMAIN c.managed |-> Head(c.managed[id]).nnn]
<1>1. n \in Nat /\ n <= MaxPrefix /\ DOMAIN wants = 1 .. n
  BY ScheduleFits DEF Schedule
<1>2. \A i \in 1 .. n : wants[i] \in inp.wants
  BY DEF Schedule
<1>3. \A i \in 1 .. n : wants[i].video \in inp.library
  BY <1>2 DEF InputOK, WantsFor
<1>4. \A i \in 1 .. n : ids[i] = wants[i].video.id /\ ids[i] \in Nat
  BY <1>1, <1>3 DEF InputOK, LibraryOK, Videos
<1>5. ids \in Seq(Nat) /\ Len(ids) = n
  BY <1>1, <1>4
<1>6. \A i, j \in 1 .. n : ids[i] = ids[j] => i = j
  <2>1. ASSUME NEW i \in 1 .. n, NEW j \in 1 .. n, ids[i] = ids[j] PROVE i = j
    <3>1. wants[i].video = wants[j].video
      BY <1>3, <1>4, <2>1 DEF InputOK, LibraryOK
    <3>2. QED BY <3>1 DEF Schedule
  <2>2. QED BY <2>1
<1>7. \A id \in DOMAIN current : current[id] \in Int
  <2>1. ASSUME NEW id \in DOMAIN c.managed PROVE Head(c.managed[id]).nnn \in Int
    <3>1. c.managed[id] \in Seq(AppNames(inp)) /\ Len(c.managed[id]) >= 1
      BY <2>1 DEF ClassOK, CopiesApart
    <3>2. Head(c.managed[id]) \in AppNames(inp)
      <4> HIDE DEF AppNames
      <4>1. QED BY <3>1
    <3>3. Head(c.managed[id]) \in NamesFor(inp.library)
      BY <3>2, AppNamesFinite
    <3>4. QED BY <3>3 DEF NamesFor
  <2>2. QED BY <2>1
<1> HIDE DEF ids, current
<1> DEFINE numbers == AssignPrefixes(ids, current)
<1>8. \A i \in 1 .. n : /\ numbers[ids[i]] \in 1 .. MaxPrefix
                        /\ \A j \in 1 .. n : i < j => numbers[ids[i]] < numbers[ids[j]]
  BY <1>1, <1>5, <1>6, <1>7, NumbersRise
<1> HIDE DEF numbers
<1>9. \A i \in 1 .. n :
        /\ numbers[wants[i].video.id] \in 1 .. MaxPrefix
        /\ \A j \in 1 .. n : i < j => numbers[wants[i].video.id] < numbers[wants[j].video.id]
  BY <1>4, <1>8
<1>10. QED BY <1>9 DEF n, ids, current, numbers

LEMMA DraftIsOK ==
  ASSUME NEW inp, InputOK(inp)
  PROVE  DraftOK(inp, DraftIn(inp))
<1> DEFINE d       == DraftIn(inp)
           c       == Classify(inp.remote, inp.library)
           wants   == DesiredWants(inp.wants, inp.now)
           extra   == FurtherCopies(c, {wants[i].video.id : i \in DOMAIN wants})
           ids     == [i \in DOMAIN wants |-> wants[i].video.id]
           current == [id \in ToSet(ids) \cap DOMAIN c.managed |-> Head(c.managed[id]).nnn]
           prefixes == AssignPrefixes(ids, current)
           occupied == DOMAIN inp.remote.root \ extra
           busy     == BusyContents(inp.remote, inp.now)
<1>1. /\ d.inp = inp /\ d.c = c /\ d.wants = wants /\ d.extra = extra
      /\ d.keep = KeepStaged(inp.wants, inp.now)
      /\ d.items = DesiredItems(wants, inp.remote, c, inp.now, extra)
  BY DEF DraftIn, DraftOf
<1>2. ClassOK(inp, c)
  BY ClassifyIsOK
<1>3. Schedule(wants, inp.wants) /\ Schedule(d.keep, inp.wants)
  BY <1>1, DesiredIsASchedule, KeptIsASchedule
<1>4. DesiredItems(wants, inp.remote, c, inp.now, extra) = PlacedItems(wants, c, prefixes, occupied, busy)
  BY DEF DesiredItems
<1>5. \A i \in 1 .. Len(wants) : prefixes[wants[i].video.id] \in 1 .. MaxPrefix
  <2> HIDE DEF c, wants
  <2>1. QED BY <1>2, <1>3, PrefixesGiven
<1> HIDE DEF d, c, wants, prefixes, busy
<1>6. PlacedUpTo(inp, c, wants, occupied, Len(wants), d.items)
  BY <1>1, <1>2, <1>3, <1>4, <1>5, PlacedItemsOK
<1>7. \A n \in extra :
        /\ n \in AppNames(inp)
        /\ \E i \in 1 .. Len(wants) :
              /\ wants[i].video.id \in DOMAIN c.managed
              /\ \E k \in 2 .. Len(c.managed[wants[i].video.id]) :
                   n = c.managed[wants[i].video.id][k]
  BY SMTT(40), <1>2, <1>3, ExtraIsOK
<1> HIDE DEF extra
<1>8. IsFiniteSet(extra)
  <2>1. extra \in SUBSET AppNames(inp)
    BY <1>7
  <2>2. QED BY <2>1, AppNamesFinite, FS_Subset
<1>9. ExtraOK(d)
  BY <1>1, <1>7, <1>8 DEF ExtraOK
<1>10. DraftOK(inp, d)
  BY <1>1, <1>2, <1>3, <1>6, <1>9 DEF DraftOK
<1>11. QED BY <1>10 DEF d

-----------------------------------------------------------------------------
(* The actions of a plan                                                   *)

(* Actions that take a file from the video folder.                         *)
Takes == {"reorder", "deactivate", "delete_active", "delete_legacy"}

WellFormed(inp, a) ==
  \/ a.kind = "mkdir_staging"
  \/ /\ a.kind = "upload"
     /\ a.video \in inp.library /\ a.dst = Staged(a.video.sha)
  \/ /\ a.kind = "activate"
     /\ a.video \in inp.library /\ a.src = Staged(a.video.sha)
     /\ \E p \in 1 .. MaxPrefix : a.dst = ActiveName(p, a.video)
  \/ /\ a.kind = "reorder"
     /\ a.src \in AppNames(inp)
     /\ \E v \in inp.library : /\ Matches(v, a.src, inp.remote.root)
                              /\ \E p \in 1 .. MaxPrefix : a.dst = ActiveName(p, v)
  \/ /\ a.kind = "deactivate"
     /\ a.src \in AppNames(inp) /\ a.dst = Staged(a.src.sha)
  \/ /\ a.kind = "delete_active"
     /\ a.src \in AppNames(inp)
  \/ /\ a.kind = "delete_legacy"
     /\ a.src \in (DOMAIN inp.remote.root \ AppNames(inp)) \cap inp.requests
  \/ a.kind \in StagingDeletes

PlacesOf(inp) == NamesFor(inp.library) \cup [sha : Int, part : BOOLEAN] \cup {None}

SubjectsOf(inp) == inp.library \cup {None}

Kinds == Takes \cup StagingDeletes \cup {"mkdir_staging", "upload", "activate"}

ActionsOf(inp) ==
  {a \in [kind : Kinds, video : SubjectsOf(inp), src : PlacesOf(inp), dst : PlacesOf(inp)] :
     WellFormed(inp, a)}

Quiet(inp) == {a \in ActionsOf(inp) : a.kind \notin Takes}

LEMMA ShaIsInt ==
  ASSUME NEW inp, InputOK(inp), NEW v \in inp.library
  PROVE  /\ Staged(v.sha) \in [sha : Int, part : BOOLEAN]
         /\ Part(v.sha) \in [sha : Int, part : BOOLEAN]
<1>1. v.sha \in Int
  BY DEF InputOK, LibraryOK, Videos
<1>2. QED BY <1>1 DEF Staged, Part

(* An action is one of the plan's if it is of the right form.              *)
LEMMA Formed ==
  ASSUME NEW inp, NEW kind, NEW video, NEW src, NEW dst, NEW a, a = Act(kind, video, src, dst)
  PROVE  /\ a.kind = kind /\ a.video = video /\ a.src = src /\ a.dst = dst
         /\ /\ kind \in Kinds /\ video \in SubjectsOf(inp)
            /\ src \in PlacesOf(inp) /\ dst \in PlacesOf(inp)
            /\ WellFormed(inp, a)
            => a \in ActionsOf(inp)
<1>1. a = [kind |-> kind, video |-> video, src |-> src, dst |-> dst]
  BY DEF Act
<1> DEFINE places == PlacesOf(inp)
<1>2. kind \in Kinds /\ video \in SubjectsOf(inp) /\ src \in places /\ dst \in places =>
        a \in [kind : Kinds, video : SubjectsOf(inp), src : places, dst : places]
  <2> DEFINE subjects == SubjectsOf(inp)
  <2> HIDE DEF places, subjects
  <2>1. QED BY <1>1 DEF places, subjects
<1>3. QED BY <1>1, <1>2 DEF ActionsOf

LEMMA KindsOfActions ==
  /\ "mkdir_staging" \in Kinds /\ "upload" \in Kinds /\ "activate" \in Kinds
  /\ "reorder" \in Kinds /\ "deactivate" \in Kinds /\ "delete_active" \in Kinds
  /\ "delete_legacy" \in Kinds /\ "delete_staged" \in Kinds /\ "delete_part" \in Kinds
BY DEF Kinds, Takes, StagingDeletes

LEMMA QuietActions ==
  ASSUME NEW inp, InputOK(inp)
  PROVE  /\ MkdirStaging \in Quiet(inp)
         /\ \A v \in inp.library : Upload(v) \in Quiet(inp)
         /\ \A v \in inp.library : \A p \in 1 .. MaxPrefix :
              Activate([video |-> v, name |-> ActiveName(p, v)]) \in Quiet(inp)
         /\ \A s \in Int : DeleteStaged(s) \in Quiet(inp) /\ DeletePart(s) \in Quiet(inp)
<1>1. None \in PlacesOf(inp)
  BY DEF PlacesOf
<1>2. None \in SubjectsOf(inp) /\ \A v \in inp.library : v \in SubjectsOf(inp)
  BY DEF SubjectsOf
<1>3. \A v \in inp.library : Staged(v.sha) \in PlacesOf(inp)
  BY ShaIsInt DEF PlacesOf
<1>4. \A s \in Int : Staged(s) \in PlacesOf(inp) /\ Part(s) \in PlacesOf(inp)
  BY DEF Staged, Part, PlacesOf
<1>5. \A v \in inp.library : \A p \in 1 .. MaxPrefix : ActiveName(p, v) \in PlacesOf(inp)
  BY NameOfVideo, PrefixAssumption DEF PlacesOf
<1>6. MkdirStaging \in Quiet(inp)
  <2> DEFINE a == MkdirStaging
  <2>1. a = Act("mkdir_staging", None, None, None)
    BY DEF MkdirStaging
  <2> HIDE DEF a
  <2>2. a.kind = "mkdir_staging" /\ (WellFormed(inp, a) => a \in ActionsOf(inp))
    BY <1>2, <1>1, <2>1, KindsOfActions, Formed
  <2>3. QED BY <2>2 DEF WellFormed, Quiet, Takes, a
<1>7. ASSUME NEW v \in inp.library PROVE Upload(v) \in Quiet(inp)
  <2> DEFINE a == Upload(v)
             d == Staged(v.sha)
  <2>1. a = Act("upload", v, None, d) /\ d \in PlacesOf(inp) /\ v \in SubjectsOf(inp)
    BY <1>2, <1>3 DEF Upload
  <2> HIDE DEF a, d
  <2>2. /\ a.kind = "upload" /\ a.video = v /\ a.dst = d
        /\ WellFormed(inp, a) => a \in ActionsOf(inp)
    BY <1>2, <1>1, <2>1, KindsOfActions, Formed
  <2>3. QED BY <2>2 DEF WellFormed, Quiet, Takes, a, d
<1>8. ASSUME NEW v \in inp.library, NEW p \in 1 .. MaxPrefix
      PROVE  Activate([video |-> v, name |-> ActiveName(p, v)]) \in Quiet(inp)
  <2> DEFINE a == Activate([video |-> v, name |-> ActiveName(p, v)])
             s == Staged(v.sha)
             d == ActiveName(p, v)
  <2>1. a = Act("activate", v, s, d)
    BY DEF Activate
  <2>2. s \in PlacesOf(inp) /\ d \in PlacesOf(inp) /\ v \in SubjectsOf(inp)
    BY <1>2, <1>3, <1>5
  <2> HIDE DEF a, d, s
  <2>3. /\ a.kind = "activate" /\ a.video = v /\ a.src = s /\ a.dst = d
        /\ WellFormed(inp, a) => a \in ActionsOf(inp)
    BY <2>1, <2>2, KindsOfActions, Formed
  <2>4. QED BY <2>3 DEF WellFormed, Quiet, Takes, a, d, s
<1>9. ASSUME NEW s \in Int PROVE DeleteStaged(s) \in Quiet(inp) /\ DeletePart(s) \in Quiet(inp)
  <2> DEFINE a == DeleteStaged(s)
             b == DeletePart(s)
  <2>1. a = Act("delete_staged", None, Staged(s), None) /\ b = Act("delete_part", None, Part(s), None)
    BY DEF DeleteStaged, DeletePart
  <2> HIDE DEF a, b
  <2>2. a.kind = "delete_staged" /\ (WellFormed(inp, a) => a \in ActionsOf(inp))
    BY <1>2, <1>1, <1>4, <2>1, KindsOfActions, Formed
  <2>3. b.kind = "delete_part" /\ (WellFormed(inp, b) => b \in ActionsOf(inp))
    BY <1>2, <1>1, <1>4, <2>1, KindsOfActions, Formed
  <2>4. QED BY <2>2, <2>3 DEF WellFormed, Quiet, Takes, StagingDeletes, a, b
<1>10. QED BY <1>6, <1>7, <1>8, <1>9
 
LEMMA TakingActions ==
  ASSUME NEW inp, InputOK(inp)
  PROVE  /\ \A n \in AppNames(inp) : DeleteActive(n) \in ActionsOf(inp)
         /\ \A n \in (DOMAIN inp.remote.root \ AppNames(inp)) \cap inp.requests :
              DeleteLegacy(n) \in ActionsOf(inp)
         /\ \A v \in inp.library : \A n \in AppNames(inp) : Matches(v, n, inp.remote.root) =>
              /\ Deactivate(v, n) \in ActionsOf(inp)
              /\ \A p \in 1 .. MaxPrefix : Reorder(v, n, ActiveName(p, v)) \in ActionsOf(inp)
<1>1. None \in PlacesOf(inp) /\ \A n \in DOMAIN inp.remote.root : n \in PlacesOf(inp)
  BY DEF InputOK, PlacesOf
<1>2. None \in SubjectsOf(inp) /\ \A v \in inp.library : v \in SubjectsOf(inp)
  BY DEF SubjectsOf
<1>3. \A v \in inp.library : Staged(v.sha) \in PlacesOf(inp)
  BY ShaIsInt DEF PlacesOf
<1>4. \A v \in inp.library : \A p \in 1 .. MaxPrefix : ActiveName(p, v) \in PlacesOf(inp)
  BY NameOfVideo, PrefixAssumption DEF PlacesOf
<1>5. AppNames(inp) \subseteq PlacesOf(inp)
  BY <1>1 DEF AppNames
<1>6. ASSUME NEW n \in AppNames(inp) PROVE DeleteActive(n) \in ActionsOf(inp)
  <2> DEFINE a == DeleteActive(n)
  <2>1. a = Act("delete_active", None, n, None)
    BY DEF DeleteActive
  <2> HIDE DEF a
  <2>2. a.kind = "delete_active" /\ a.src = n /\ (WellFormed(inp, a) => a \in ActionsOf(inp))
    BY <1>2, <1>1, <1>5, <2>1, KindsOfActions, Formed
  <2>3. QED BY <2>2 DEF WellFormed, a
<1>7. ASSUME NEW n \in (DOMAIN inp.remote.root \ AppNames(inp)) \cap inp.requests
      PROVE  DeleteLegacy(n) \in ActionsOf(inp)
  <2> DEFINE a == DeleteLegacy(n)
  <2>1. a = Act("delete_legacy", None, n, None) /\ n \in PlacesOf(inp)
    BY <1>1 DEF DeleteLegacy
  <2> HIDE DEF a
  <2>2. a.kind = "delete_legacy" /\ a.src = n /\ (WellFormed(inp, a) => a \in ActionsOf(inp))
    BY <1>2, <1>1, <2>1, KindsOfActions, Formed
  <2>3. QED BY <2>2 DEF WellFormed, a
<1>8. ASSUME NEW v \in inp.library, NEW n \in AppNames(inp), Matches(v, n, inp.remote.root)
      PROVE  Deactivate(v, n) \in ActionsOf(inp)
  <2> DEFINE a == Deactivate(v, n)
             d == Staged(v.sha)
  <2>1. a = Act("deactivate", v, n, d)
    BY DEF Deactivate
  <2>2. /\ v.sha = n.sha /\ n \in PlacesOf(inp) /\ d \in PlacesOf(inp)
        /\ v \in SubjectsOf(inp)
    BY <1>2, <1>3, <1>5, <1>8 DEF Matches
  <2>3. d = Staged(n.sha)
    BY <2>2
  <2> HIDE DEF a, d
  <2>4. /\ a.kind = "deactivate" /\ a.src = n /\ a.dst = d
        /\ WellFormed(inp, a) => a \in ActionsOf(inp)
    BY <2>1, <2>2, KindsOfActions, Formed
  <2>5. QED BY <2>3, <2>4 DEF WellFormed, a
<1>9. ASSUME NEW v \in inp.library, NEW n \in AppNames(inp), Matches(v, n, inp.remote.root),
             NEW p \in 1 .. MaxPrefix
      PROVE  Reorder(v, n, ActiveName(p, v)) \in ActionsOf(inp)
  <2> DEFINE d == ActiveName(p, v)
             a == Reorder(v, n, d)
  <2>1. a = Act("reorder", v, n, d)
    BY DEF Reorder
  <2>2. n \in PlacesOf(inp) /\ d \in PlacesOf(inp) /\ v \in SubjectsOf(inp)
    BY <1>2, <1>4, <1>5
  <2> HIDE DEF a, d
  <2>3. a.kind = "reorder" /\ a.src = n /\ a.dst = d
    BY <2>1 DEF Act
  <2>4. "reorder" \in Kinds
    BY KindsOfActions
  <2>5. WellFormed(inp, a) => a \in ActionsOf(inp)
    BY <2>1, <2>2, <2>4, Formed
  <2>6. QED BY <1>9, <2>3, <2>5 DEF WellFormed, a, d
<1>10. QED BY <1>6, <1>7, <1>8, <1>9
 -----------------------------------------------------------------------------
 (* What follows the removals                                               *)
 
 (* t begins with s, and takes nothing after it.                            *)
 Continues(inp, s, t) ==
   /\ t \in Seq(ActionsOf(inp))
   /\ Len(t) >= Len(s)
   /\ \A i \in 1 .. Len(s) : t[i] = s[i]
   /\ \A i \in Len(s) + 1 .. Len(t) : t[i] \in Quiet(inp)
 
LEMMA ContinuesOn ==
  ASSUME NEW inp, NEW s \in Seq(ActionsOf(inp)), NEW t, Continues(inp, s, t), NEW q \in Quiet(inp)
  PROVE  Continues(inp, s, Append(t, q))
<1>1. q \in ActionsOf(inp)
  BY DEF Quiet
<1> DEFINE T == ActionsOf(inp)
           Q == Quiet(inp)
<1>2. /\ t \in Seq(T) /\ Len(t) >= Len(s)
      /\ \A i \in 1 .. Len(s) : t[i] = s[i]
      /\ \A i \in Len(s) + 1 .. Len(t) : t[i] \in Q
  BY DEF Continues
<1> HIDE DEF T, Q
<1>3. Append(t, q) \in Seq(T) /\ Len(Append(t, q)) = Len(t) + 1
  BY <1>1, <1>2 DEF T
<1>4. \A i \in 1 .. Len(s) : Append(t, q)[i] = s[i]
  BY <1>2
<1>5. ASSUME NEW i \in Len(s) + 1 .. Len(t) + 1 PROVE Append(t, q)[i] \in Q
  <2>1. CASE i = Len(t) + 1
    BY <1>2, <2>1 DEF Q
  <2>2. CASE i # Len(t) + 1
    <3>1. i \in Len(s) + 1 .. Len(t) /\ i \in 1 .. Len(t)
      BY <1>2, <2>2
    <3>2. QED BY <1>2, <3>1
  <2>3. QED BY <2>1, <2>2
<1>6. QED BY <1>2, <1>3, <1>4, <1>5 DEF Continues, T, Q

(* One more video to stage ahead, and the actions after the first k.       *)
Ahead(d, kept, acts, k) ==
  IF /\ Missing(d.keep[k].video, d.c)
     /\ d.keep[k].video.sha \notin kept \cup BusyContents(d.inp.remote, d.inp.now)
     /\ Fits(d, acts, d.keep[k].video)
    THEN Append(acts, Upload(d.keep[k].video)) ELSE acts

StagedBy(d, kept, actions, after) ==
  /\ after[0] = actions
  /\ \A k \in 1 .. Len(d.keep) : after[k] = Ahead(d, kept, after[k - 1], k)
  /\ WithStagedAhead(d, kept, actions) = after[Len(d.keep)]

LEMMA StagedStepByStep ==
  ASSUME NEW inp, InputOK(inp), NEW d, NEW kept, NEW s \in Seq(ActionsOf(inp)),
         Schedule(d.keep, inp.wants),
         NEW actions, Continues(inp, s, actions)
  PROVE  \E after : /\ StagedBy(d, kept, actions, after)
                    /\ \A k \in 0 .. Len(d.keep) : Continues(inp, s, after[k])
<1> DEFINE n       == Len(d.keep)
           Acc     == {t \in Seq(ActionsOf(inp)) : Continues(inp, s, t)}
           step(acts, k) == Ahead(d, kept, acts, k)
           F       == [x \in (1 .. n) \X Acc |-> step(x[2], x[1])]
           Body(f) == [k \in 0 .. n |-> IF k = 0 THEN actions ELSE step(f[k - 1], k)]
           after   == CHOOSE f : f = Body(f)
<1>1. WithStagedAhead(d, kept, actions) = after[n]
  BY DEF WithStagedAhead, Ahead
<1>2. n \in Nat /\ \A k \in 1 .. n : Upload(d.keep[k].video) \in Quiet(inp)
  <2>1. \A k \in 1 .. n : d.keep[k].video \in inp.library
    BY DEF Schedule, InputOK, WantsFor
  <2>2. QED BY <2>1, QuietActions DEF Schedule
<1>3. actions \in Acc /\ actions \in Seq(ActionsOf(inp))
  BY DEF Continues
<1>4. \A k \in 1 .. n : \A a \in Acc : step(a, k) \in Acc
  <2>1. ASSUME NEW k \in 1 .. n, NEW a \in Acc PROVE step(a, k) \in Acc
    <3>1. Continues(inp, s, Append(a, Upload(d.keep[k].video)))
      BY <1>2, ContinuesOn
    <3>2. Append(a, Upload(d.keep[k].video)) \in Seq(ActionsOf(inp))
      BY <3>1 DEF Continues
    <3>3. QED BY <3>1, <3>2 DEF Ahead
  <2>2. QED BY <2>1
<1>5. \A k \in 1 .. n : \A a \in Acc : F[<<k, a>>] = step(a, k)
  OBVIOUS
<1> HIDE DEF step, F, n, Acc
<1>6. PICK g \in [0 .. n -> Acc] : g[0] = actions /\ \A k \in 1 .. n : g[k] = F[<<k, g[k - 1]>>]
  <2>1. StaysIn(Acc, n, F)
    BY <1>4, <1>5 DEF StaysIn
  <2>2. Stepwise(Acc, n, actions, F)
    BY <1>2, <1>3, <2>1, Stepped
  <2>3. QED BY <2>2 DEF Stepwise
<1>7. \A k \in 1 .. n : k - 1 \in 0 .. n
  BY <1>2
<1>8. g = Body(g)
  <2>1. \A k \in 1 .. n : g[k] = step(g[k - 1], k)
    BY <1>5, <1>6, <1>7
  <2> DEFINE h == [k \in 0 .. n |-> IF k = 0 THEN actions ELSE step(g[k - 1], k)]
  <2>2. \A k \in 0 .. n : g[k] = h[k]
    BY <1>2, <1>6, <2>1
  <2>3. g = [k \in 0 .. n |-> g[k]]
    BY <1>6
  <2>4. g = h
    BY <2>2, <2>3
  <2>5. QED BY <2>4
<1>9. after = Body(after)
  <2> HIDE DEF Body
  <2>1. QED BY <1>8
<1> HIDE DEF after
<1>10. after[0] = actions /\ \A k \in 1 .. n : after[k] = step(after[k - 1], k)
  BY <1>2, <1>9
<1> DEFINE Good == {k \in 0 .. n : after[k] \in Acc}
<1>11. 0 \in Good
  BY <1>2, <1>3, <1>10
<1>12. \A k \in 1 .. n : k - 1 \in Good => k \in Good
  BY <1>2, <1>4, <1>10
<1>13. \A k \in 0 .. n : k \in Good
  <2> HIDE DEF Good
  <2>1. QED BY <1>2, <1>11, <1>12, Climb
<1>14. StagedBy(d, kept, actions, after)
  BY <1>1, <1>10 DEF StagedBy, n, step
<1>15. QED BY <1>13, <1>14 DEF Acc, n

LEMMA StagedAheadContinues ==
  ASSUME NEW inp, InputOK(inp), NEW d, NEW kept, NEW s \in Seq(ActionsOf(inp)),
         Schedule(d.keep, inp.wants),
         NEW actions, Continues(inp, s, actions)
  PROVE  Continues(inp, s, WithStagedAhead(d, kept, actions))
<1>1. PICK after : /\ StagedBy(d, kept, actions, after)
                   /\ \A k \in 0 .. Len(d.keep) : Continues(inp, s, after[k])
  BY StagedStepByStep
<1>2. Len(d.keep) \in 0 .. Len(d.keep)
  BY DEF Schedule
<1>3. QED BY <1>1, <1>2 DEF StagedBy

(* An item that is not on the screen enters it under a name of its own.    *)
Enters(inp, item) ==
  item.video \in inp.library /\ \E p \in 1 .. MaxPrefix : item.name = ActiveName(p, item.video)

LEMMA EntersQuietly ==
  ASSUME NEW inp, InputOK(inp), NEW item, Enters(inp, item)
  PROVE  Activate(item) \in Quiet(inp) /\ Upload(item.video) \in Quiet(inp)
<1>1. PICK p \in 1 .. MaxPrefix : item.name = ActiveName(p, item.video)
  BY DEF Enters
<1>2. item.video \in inp.library
  BY DEF Enters
<1>3. Activate(item) = Activate([video |-> item.video, name |-> ActiveName(p, item.video)])
  BY <1>1 DEF Activate
<1>4. QED BY <1>2, <1>3, QuietActions

(* One more item that had to wait, and the actions after the first k.      *)
Entered(d, remains, acts, item) ==
  IF remains > 0 /\ Fits(d, acts, item.video)
    THEN acts \o <<Upload(item.video), Activate(item)>> ELSE acts

EnteredBy(d, later, remains, actions, after) ==
  /\ after[0] = actions
  /\ \A k \in 1 .. Len(later) : after[k] = Entered(d, remains, after[k - 1], later[k])
  /\ WithLate(d, later, remains, actions) = after[Len(later)]

LEMMA TwoMore ==
  ASSUME NEW T, NEW a \in Seq(T), NEW x \in T, NEW y \in T
  PROVE  a \o <<x, y>> = Append(Append(a, x), y) /\ Append(a, x) \in Seq(T)
OBVIOUS

LEMMA LateStepByStep ==
  ASSUME NEW inp, InputOK(inp), NEW d, NEW remains, NEW actions \in Seq(ActionsOf(inp)),
         NEW later, Len(later) \in Nat, \A k \in 1 .. Len(later) : Enters(inp, later[k])
  PROVE  \E after : /\ EnteredBy(d, later, remains, actions, after)
                    /\ \A k \in 0 .. Len(later) : Continues(inp, actions, after[k])
<1> DEFINE n       == Len(later)
           Acc     == {t \in Seq(ActionsOf(inp)) : Continues(inp, actions, t)}
           step(acts, k) == Entered(d, remains, acts, later[k])
           F       == [x \in (1 .. n) \X Acc |-> step(x[2], x[1])]
           Body(f) == [k \in 0 .. n |-> IF k = 0 THEN actions ELSE step(f[k - 1], k)]
           after   == CHOOSE f : f = Body(f)
<1>1. WithLate(d, later, remains, actions) = after[n]
  BY DEF WithLate, Entered
<1>2. n \in Nat /\ \A k \in 1 .. n : Upload(later[k].video) \in Quiet(inp) /\ Activate(later[k]) \in Quiet(inp)
  BY EntersQuietly
<1>3. actions \in Acc
  <2>1. Len(actions) \in Nat
    OBVIOUS
  <2>2. QED BY <2>1 DEF Continues
<1>4. \A k \in 1 .. n : \A a \in Acc : step(a, k) \in Acc
  <2>1. ASSUME NEW k \in 1 .. n, NEW a \in Acc PROVE step(a, k) \in Acc
    <3> DEFINE u == Upload(later[k].video)
               v == Activate(later[k])
    <3>1. u \in Quiet(inp) /\ v \in Quiet(inp)
      BY <1>2
    <3> HIDE DEF u, v
    <3>2. Continues(inp, actions, Append(a, u))
      BY <3>1, ContinuesOn
    <3>3. Continues(inp, actions, Append(Append(a, u), v))
      BY <3>1, <3>2, ContinuesOn
    <3>4. Append(Append(a, u), v) \in Seq(ActionsOf(inp))
      BY <3>3 DEF Continues
    <3>5. a \o <<u, v>> = Append(Append(a, u), v)
      <4>1. a \in Seq(ActionsOf(inp)) /\ u \in ActionsOf(inp) /\ v \in ActionsOf(inp)
        BY <3>1 DEF Quiet
      <4>2. QED BY <4>1, TwoMore
    <3>6. QED BY <3>3, <3>4, <3>5 DEF u, v, Entered
  <2>2. QED BY <2>1
<1>5. \A k \in 1 .. n : \A a \in Acc : F[<<k, a>>] = step(a, k)
  OBVIOUS
<1> HIDE DEF step, F, n, Acc
<1>6. PICK g \in [0 .. n -> Acc] : g[0] = actions /\ \A k \in 1 .. n : g[k] = F[<<k, g[k - 1]>>]
  <2>1. StaysIn(Acc, n, F)
    BY <1>4, <1>5 DEF StaysIn
  <2>2. Stepwise(Acc, n, actions, F)
    BY <1>2, <1>3, <2>1, Stepped
  <2>3. QED BY <2>2 DEF Stepwise
<1>7. \A k \in 1 .. n : k - 1 \in 0 .. n
  BY <1>2
<1>8. g = Body(g)
  <2>1. \A k \in 1 .. n : g[k] = step(g[k - 1], k)
    BY <1>5, <1>6, <1>7
  <2> DEFINE h == [k \in 0 .. n |-> IF k = 0 THEN actions ELSE step(g[k - 1], k)]
  <2>2. \A k \in 0 .. n : g[k] = h[k]
    BY <1>2, <1>6, <2>1
  <2>3. g = [k \in 0 .. n |-> g[k]]
    BY <1>6
  <2>4. g = h
    BY <2>2, <2>3
  <2>5. QED BY <2>4
<1>9. after = Body(after)
  <2> HIDE DEF Body
  <2>1. QED BY <1>8
<1> HIDE DEF after
<1>10. after[0] = actions /\ \A k \in 1 .. n : after[k] = step(after[k - 1], k)
  BY <1>2, <1>9
<1> DEFINE Good == {k \in 0 .. n : after[k] \in Acc}
<1>11. 0 \in Good
  BY <1>2, <1>3, <1>10
<1>12. \A k \in 1 .. n : k - 1 \in Good => k \in Good
  BY <1>2, <1>4, <1>10
<1>13. \A k \in 0 .. n : k \in Good
  <2> HIDE DEF Good
  <2>1. QED BY <1>2, <1>11, <1>12, Climb
<1>14. EnteredBy(d, later, remains, actions, after)
  BY <1>1, <1>10 DEF EnteredBy, n, step
<1>15. QED BY <1>13, <1>14 DEF Acc, n

LEMMA LateContinues ==
  ASSUME NEW inp, InputOK(inp), NEW d, NEW remains, NEW actions \in Seq(ActionsOf(inp)),
         NEW later, Len(later) \in Nat, \A k \in 1 .. Len(later) : Enters(inp, later[k])
  PROVE  Continues(inp, actions, WithLate(d, later, remains, actions))
<1>1. PICK after : /\ EnteredBy(d, later, remains, actions, after)
                   /\ \A k \in 0 .. Len(later) : Continues(inp, actions, after[k])
  BY LateStepByStep
<1>2. Len(later) \in 0 .. Len(later)
  OBVIOUS
<1>3. QED BY <1>1, <1>2 DEF EnteredBy

-----------------------------------------------------------------------------
(* Some of the items                                                       *)

(* t is those of the items that are at the positions I, in their order.    *)
Some(t, items, I) ==
  /\ Len(t) \in Nat /\ DOMAIN t = 1 .. Len(t)
  /\ \A k \in 1 .. Len(t) : \E m \in I : t[k] = items[m]
  /\ \A m \in I : \E k \in 1 .. Len(t) : t[k] = items[m]

(* ... with one item of a video at most.                                   *)
OncePerVideo(t) == \A k, l \in 1 .. Len(t) : t[k].video.id = t[l].video.id => k = l

LEMMA ItemsPicked ==
  ASSUME NEW X, NEW items \in Seq(X), OncePerVideo(items), NEW I, I \subseteq DOMAIN items
  PROVE  Some(Picked(items, I), items, I) /\ OncePerVideo(Picked(items, I))
<1> DEFINE m  == Cardinality(I)
           at == Ascending(I)
           t  == Picked(items, I)
<1>1. /\ m \in Nat /\ at \in [1 .. m -> I]
      /\ \A i, j \in 1 .. m : i < j => at[i] < at[j]
      /\ \A x \in I : \E i \in 1 .. m : at[i] = x
      /\ t = [k \in 1 .. m |-> items[at[k]]]
      /\ Len(t) = m
  BY PickedInOrder
<1> HIDE DEF m, at, t
<1>2. Some(t, items, I)
  BY <1>1 DEF Some
<1>3. ASSUME NEW k \in 1 .. m, NEW l \in 1 .. m, t[k].video.id = t[l].video.id PROVE k = l
  <2>1. at[k] \in I /\ at[l] \in I /\ t[k] = items[at[k]] /\ t[l] = items[at[l]]
    BY <1>1
  <2>2. at[k] \in 1 .. Len(items) /\ at[l] \in 1 .. Len(items)
    BY <2>1
  <2>3. at[k] = at[l]
    BY <1>3, <2>1, <2>2 DEF OncePerVideo
  <2>4. ~ (at[k] < at[l]) /\ ~ (at[l] < at[k])
    BY <2>2, <2>3
  <2>5. QED BY <1>1, <2>4
<1>4. OncePerVideo(t)
  BY <1>1, <1>3 DEF OncePerVideo
<1>5. QED BY <1>2, <1>4 DEF t

LEMMA DraftItems ==
  ASSUME NEW inp, InputOK(inp), NEW d, DraftOK(inp, d)
  PROVE  /\ d.items \in Seq(ItemsFor(inp)) /\ OncePerVideo(d.items)
         /\ \A m \in 1 .. Len(d.items) : d.items[m].video \in inp.library
         /\ \A m \in 1 .. Len(d.items) :
              d.items[m].video.id \notin DOMAIN d.c.managed => Enters(inp, d.items[m])
         /\ \A m \in 1 .. Len(d.items) :
              CurrentName(d.items[m].video, d.c) = None <=> d.items[m].video.id \notin DOMAIN d.c.managed
<1>1. d.items \in Seq(ItemsFor(inp)) /\ OncePerVideo(d.items)
  BY DEF DraftOK, PlacedUpTo, OncePerVideo
<1>2. \A m \in 1 .. Len(d.items) : d.items[m].video \in inp.library
  <2> DEFINE S == ItemsFor(inp)
  <2>1. \A m \in 1 .. Len(d.items) : d.items[m] \in S
    <3> HIDE DEF S
    <3>1. QED BY <1>1 DEF S
  <2>2. QED BY <2>1 DEF ItemsFor
<1>3. ASSUME NEW m \in 1 .. Len(d.items), d.items[m].video.id \notin DOMAIN d.c.managed
      PROVE  Enters(inp, d.items[m])
  BY <1>2, <1>3 DEF Enters, DraftOK, PlacedUpTo, WellNamed
<1>4. ClassOK(inp, d.c)
  BY DEF DraftOK
<1>5. \A m \in 1 .. Len(d.items) :
        CurrentName(d.items[m].video, d.c) = None <=> d.items[m].video.id \notin DOMAIN d.c.managed
  BY <1>4, CurrentIsAName
<1>6. QED BY <1>1, <1>2, <1>3, <1>5

(* What a plan has to send, and how much of it fits.                       *)
LEMMA RequiredIsMissing ==
  ASSUME NEW inp, InputOK(inp), NEW d, DraftOK(inp, d)
  PROVE  /\ Required(d) \in Seq(inp.library)
         /\ \A k \in 1 .. Len(Required(d)) : Required(d)[k].id \notin DOMAIN d.c.managed
<1> DEFINE I == {m \in DOMAIN d.items : Missing(d.items[m].video, d.c)}
           t == Picked(d.items, I)
           r == Required(d)
<1>1. r = [k \in DOMAIN t |-> t[k].video]
  BY DEF Required, Mapped, ItemsWith
<1>2. d.items \in Seq(ItemsFor(inp)) /\ OncePerVideo(d.items) /\ I \subseteq DOMAIN d.items
  BY DraftItems
<1> HIDE DEF t
<1>3. Some(t, d.items, I)
  <2> HIDE DEF I
  <2>1. QED BY <1>2, ItemsPicked DEF t
<1>4. \A m \in I : d.items[m].video \in inp.library /\ d.items[m].video.id \notin DOMAIN d.c.managed
  BY <1>2, DraftItems DEF Missing
<1> HIDE DEF I, r
<1>5. \A k \in 1 .. Len(t) : t[k].video \in inp.library /\ t[k].video.id \notin DOMAIN d.c.managed
  BY <1>3, <1>4 DEF Some
<1>6. DOMAIN t = 1 .. Len(t) /\ Len(t) \in Nat
  BY <1>3 DEF Some
<1>7. r \in Seq(inp.library) /\ Len(r) = Len(t)
  <2> DEFINE n == Len(t)
  <2>1. r = [k \in 1 .. n |-> t[k].video] /\ n \in Nat
    BY <1>1, <1>6
  <2> HIDE DEF n
  <2>2. r \in [1 .. n -> inp.library]
    BY <1>5, <2>1 DEF n
  <2>3. QED BY <2>1, <2>2 DEF n
<1>8. QED BY <1>1, <1>5, <1>6, <1>7 DEF r

LEMMA FittingIsSome ==
  ASSUME NEW V, NEW videos \in Seq(V), NEW base, NEW maxBytes
  PROVE  Fitting(videos, base, maxBytes) \in Seq(V)
<1> DEFINE S == {0} \cup {k \in DOMAIN videos : base + SizeOf(SubSeq(videos, 1, k)) <= maxBytes}
           n == Len(videos)
<1>1. CASE maxBytes = None
  BY <1>1 DEF Fitting
<1>2. CASE maxBytes # None
  <2>1. Fitting(videos, base, maxBytes) = SubSeq(videos, 1, Max(S))
    BY <1>2 DEF Fitting
  <2>2. n \in Nat /\ S \subseteq 0 .. n /\ S # {}
    OBVIOUS
  <2> HIDE DEF S, n
  <2>3. Max(S) \in 0 .. n
    BY <2>2, GreatestNumber
  <2> DEFINE m == Max(S)
  <2> HIDE DEF m
  <2>4. m \in 0 .. n /\ SubSeq(videos, 1, m) \in Seq(V)
    BY <2>2, <2>3 DEF m, n
  <2>5. QED BY <2>1, <2>4 DEF m
<1>3. QED BY <1>1, <1>2

LEMMA CleanupIsQuiet ==
  ASSUME NEW inp, InputOK(inp), NEW d, DraftOK(inp, d), NEW required
  PROVE  Cleanup(d, required) \in Seq(Quiet(inp))
<1> DEFINE staging == d.inp.remote.staging
           overdue == {p \in d.c.parts : /\ d.inp.now - staging[p].mtime > PartMaxAge
                                         /\ \A i \in DOMAIN required : required[i].sha # p.sha}
           P       == {p.sha : p \in overdue}
           whole   == Ascending(d.c.corrupt) \o Ascending(d.c.staged \ Needed(d)) \o Ascending(d.c.orphan)
           parts   == Ascending(P)
           Q       == Quiet(inp)
<1>1. Cleanup(d, required) = [i \in DOMAIN whole |-> DeleteStaged(whole[i])]
                               \o [i \in DOMAIN parts |-> DeletePart(parts[i])]
  BY DEF Cleanup, Mapped
<1>2. NumbersFinite(P)
  <2>1. overdue \subseteq DOMAIN inp.remote.staging
    BY DEF DraftOK, ClassOK
  <2> HIDE DEF overdue
  <2>2. QED BY <2>1, StagedNumbers
<1>3. NumbersFinite(d.c.corrupt) /\ NumbersFinite(d.c.staged \ Needed(d)) /\ NumbersFinite(d.c.orphan)
  <2>1. d.c.staged \ Needed(d) \in SUBSET d.c.staged
    OBVIOUS
  <2>2. NumbersFinite(d.c.staged) /\ NumbersFinite(d.c.corrupt) /\ NumbersFinite(d.c.orphan)
    BY DEF DraftOK, ClassOK
  <2>3. QED BY <2>1, <2>2, FS_Subset DEF NumbersFinite
<1>4. ASSUME NEW S, NumbersFinite(S) PROVE Ascending(S) \in Seq(Int)
  <2>1. Enumerates(Ascending(S), S) /\ S \subseteq Int
    BY <1>4, AscendingEnumerates DEF NumbersFinite
  <2>2. QED BY <2>1, EnumeratedIn
<1> HIDE DEF P
<1>5. whole \in Seq(Int) /\ parts \in Seq(Int)
  BY <1>2, <1>3, <1>4, SMTT(30)
<1>6. \A s \in Int : DeleteStaged(s) \in Q /\ DeletePart(s) \in Q
  BY QuietActions
<1> HIDE DEF whole, parts, Q
<1>7. [i \in DOMAIN whole |-> DeleteStaged(whole[i])] \in Seq(Q)
  BY SMTT(40), <1>5, <1>6
<1>8. [i \in DOMAIN parts |-> DeletePart(parts[i])] \in Seq(Q)
  BY <1>5, <1>6, SMTT(30)
<1>9. QED BY <1>1, <1>7, <1>8 DEF Q

-----------------------------------------------------------------------------
(* What a plan takes from the video folder                                 *)

(* Further copies of what plays; the names of what plays; and all copies   *)
(* of what does not play, with the legacy files.                           *)
Extra(d)  == d.extra
Moving(d) == {d.c.managed[d.items[m].video.id][1] :
                m \in {k \in 1 .. Len(d.items) : d.items[k].video.id \in DOMAIN d.c.managed}}
Retired(d) == UNION {{d.c.managed[id][k] : k \in 1 .. Len(d.c.managed[id])} :
                       id \in DOMAIN d.c.managed \ Placed(d)}
Leaving(d) == Retired(d) \cup d.c.legacy

(* t takes files of S only, and each once.                                 *)
TakesOf(inp, t, S) ==
  /\ t \in Seq(ActionsOf(inp))
  /\ \A i \in 1 .. Len(t) : t[i].kind \in Takes /\ t[i].src \in S
  /\ \A i, j \in 1 .. Len(t) : t[i].src = t[j].src => i = j

LEMMA DesiredArePlaced ==
  ASSUME NEW inp, InputOK(inp), NEW d, DraftOK(inp, d),
         NEW i \in 1 .. Len(d.wants), d.wants[i].video.id \in DOMAIN d.c.managed
  PROVE  d.wants[i].video.id \in Placed(d)
<1>1. PICK m \in 1 .. Len(d.items) : d.items[m].video = d.wants[i].video
  BY DEF DraftOK, PlacedUpTo
<1>2. m \in DOMAIN d.items
  BY DraftItems
<1>3. QED BY <1>1, <1>2 DEF Placed

LEMMA TakenApart ==
  ASSUME NEW inp, InputOK(inp), NEW d, DraftOK(inp, d)
  PROVE  /\ Extra(d) \cap Moving(d) = {}
         /\ Extra(d) \cap Leaving(d) = {}
         /\ Moving(d) \cap Leaving(d) = {}
         /\ Extra(d) \subseteq AppNames(inp)
         /\ Moving(d) \subseteq AppNames(inp)
         /\ Retired(d) \subseteq AppNames(inp)
         /\ Leaving(d) \subseteq DOMAIN inp.remote.root
<1> DEFINE managed == d.c.managed
           A == AppNames(inp)
<1>1. /\ \A id \in DOMAIN managed : managed[id] \in Seq(A) /\ Len(managed[id]) >= 1
      /\ \A id, jd \in DOMAIN managed :
           \A k \in 1 .. Len(managed[id]), l \in 1 .. Len(managed[jd]) :
             managed[id][k] = managed[jd][l] => id = jd /\ k = l
      /\ d.c.legacy = DOMAIN inp.remote.root \ A
  BY DEF DraftOK, ClassOK, CopiesApart
<1>2. A \subseteq DOMAIN inp.remote.root
  BY DEF AppNames
<1>3. \A n \in d.extra : \E id \in DOMAIN managed \cap Placed(d) :
        \E k \in 2 .. Len(managed[id]) : n = managed[id][k]
  <2>1. ASSUME NEW n \in d.extra
        PROVE  \E id \in DOMAIN managed \cap Placed(d) :
                 \E k \in 2 .. Len(managed[id]) : n = managed[id][k]
    <3>1. PICK i \in 1 .. Len(d.wants) :
            /\ d.wants[i].video.id \in DOMAIN d.c.managed
            /\ \E k \in 2 .. Len(d.c.managed[d.wants[i].video.id]) :
                 n = d.c.managed[d.wants[i].video.id][k]
      BY <2>1 DEF DraftOK, ExtraOK
    <3>2. d.wants[i].video.id \in Placed(d)
      BY <3>1, DesiredArePlaced
    <3>3. QED BY <3>1, <3>2
  <2>2. QED BY <2>1
<1>4. \A n \in Moving(d) : \E id \in DOMAIN managed \cap Placed(d) : n = managed[id][1]
  <2>1. DOMAIN d.items = 1 .. Len(d.items)
    BY DraftItems
  <2>2. QED BY <2>1 DEF Moving, Placed
<1>5. \A n \in Retired(d) : \E id \in DOMAIN managed \ Placed(d) :
        \E k \in 1 .. Len(managed[id]) : n = managed[id][k]
  BY DEF Retired
<1> HIDE DEF managed, A
<1>6. \A id \in DOMAIN managed : \A k \in 1 .. Len(managed[id]) : managed[id][k] \in A
  BY <1>1
<1>7. \A id \in DOMAIN managed : /\ 1 \in 1 .. Len(managed[id])
                                /\ 2 .. Len(managed[id]) \subseteq 1 .. Len(managed[id])
                                /\ 1 \notin 2 .. Len(managed[id])
  BY <1>1
<1>8. d.extra \subseteq A /\ Moving(d) \subseteq A /\ Retired(d) \subseteq A
  BY <1>3, <1>4, <1>5, <1>6, <1>7
<1>9. d.extra \cap Moving(d) = {}
  <2>1. ASSUME NEW n \in d.extra, n \in Moving(d) PROVE FALSE
    <3>1. PICK id \in DOMAIN managed \cap Placed(d) : \E k \in 2 .. Len(managed[id]) : n = managed[id][k]
      BY <1>3
    <3>2. PICK k \in 2 .. Len(managed[id]) : n = managed[id][k]
      BY <3>1
    <3>3. PICK jd \in DOMAIN managed \cap Placed(d) : n = managed[jd][1]
      BY <1>4, <2>1
    <3>4. k \in 1 .. Len(managed[id]) /\ 1 \in 1 .. Len(managed[jd]) /\ k # 1
      BY <1>7
    <3>5. \A l \in 1 .. Len(managed[jd]) : managed[id][k] = managed[jd][l] => k = l
      BY <1>1, <3>4
    <3>6. QED BY <3>2, <3>3, <3>4, <3>5
  <2>2. QED BY <2>1
<1>10. d.extra \cap Retired(d) = {}
  <2>1. ASSUME NEW n \in d.extra, n \in Retired(d) PROVE FALSE
    <3>1. PICK id \in DOMAIN managed \cap Placed(d) : \E k \in 2 .. Len(managed[id]) : n = managed[id][k]
      BY <1>3
    <3>2. PICK k \in 2 .. Len(managed[id]) : n = managed[id][k]
      BY <3>1
    <3>3. PICK jd \in DOMAIN managed \ Placed(d) : \E l \in 1 .. Len(managed[jd]) : n = managed[jd][l]
      BY <1>5, <2>1
    <3>4. k \in 1 .. Len(managed[id])
      BY <1>7
    <3>5. QED BY <1>1, <3>2, <3>3, <3>4
  <2>2. QED BY <2>1
<1>11. Moving(d) \cap Retired(d) = {}
  <2>1. ASSUME NEW n \in Moving(d), n \in Retired(d) PROVE FALSE
    <3>1. PICK id \in DOMAIN managed \cap Placed(d) : n = managed[id][1]
      BY <1>4
    <3>2. PICK jd \in DOMAIN managed \ Placed(d) : \E l \in 1 .. Len(managed[jd]) : n = managed[jd][l]
      BY <1>5, <2>1
    <3>3. 1 \in 1 .. Len(managed[id])
      BY <1>7
    <3>4. QED BY <1>1, <3>1, <3>2, <3>3
  <2>2. QED BY <2>1
<1>12. Leaving(d) \subseteq DOMAIN inp.remote.root
  BY <1>1, <1>2, <1>8 DEF Leaving
<1>13. Extra(d) \cap Leaving(d) = {} /\ Moving(d) \cap Leaving(d) = {}
  BY <1>1, <1>8, <1>10, <1>11 DEF Leaving, Extra
<1>14. QED BY <1>8, <1>9, <1>12, <1>13 DEF Extra, A

(* The further copies of what plays are deleted.                           *)
LEMMA ExtraTaken ==
  ASSUME NEW inp, InputOK(inp), NEW d, DraftOK(inp, d)
  PROVE  TakesOf(inp, Mapped(DeleteActive, ByName(d.extra)), Extra(d))
<1> DEFINE s == ByName(d.extra)
           t == Mapped(DeleteActive, s)
           T == ActionsOf(inp)
<1>1. t = [i \in DOMAIN s |-> DeleteActive(s[i])]
  BY DEF Mapped
<1>2. d.extra \subseteq AppNames(inp)
  BY TakenApart DEF Extra
<1>3. d.extra \subseteq NamesFor(inp.library) /\ IsFiniteSet(d.extra) /\ LibraryOK(inp.library)
  BY <1>2, AppNamesFinite DEF DraftOK, ExtraOK, InputOK
<1>4. Enumerates(s, d.extra)
  BY <1>3, ByNameEnumerates
<1> HIDE DEF s, t
<1>5. /\ s \in Seq(d.extra) /\ Len(s) \in Nat /\ DOMAIN s = 1 .. Len(s)
      /\ \A i \in 1 .. Len(s) : s[i] \in d.extra
      /\ \A i, j \in 1 .. Len(s) : s[i] = s[j] => i = j
  BY <1>4 DEF Enumerates
<1>6. \A n \in d.extra : DeleteActive(n) \in T
  BY <1>2, TakingActions
<1>7. \A n : DeleteActive(n).kind = "delete_active" /\ DeleteActive(n).src = n
  BY DEF DeleteActive, Act
<1> HIDE DEF T
<1> DEFINE m == Len(s)
<1>8. t = [i \in 1 .. m |-> DeleteActive(s[i])] /\ m \in Nat
  BY <1>1, <1>5
<1>9. \A i \in 1 .. m : DeleteActive(s[i]) \in T
  BY <1>5, <1>6
<1> HIDE DEF m
<1>10. t \in Seq(T) /\ Len(t) = m
  BY <1>8, <1>9
<1>11. \A i \in 1 .. m : t[i].kind \in Takes /\ t[i].src = s[i]
  BY <1>7, <1>8 DEF Takes
<1>12. TakesOf(inp, t, d.extra)
  BY <1>5, <1>10, <1>11 DEF TakesOf, T, m
<1>13. QED BY <1>12 DEF t, s, Extra

(* A video on the screen moves from its first copy to its new name.        *)
MovesTo(d, t, i, m) ==
  /\ t[i].kind = "reorder"
  /\ t[i].src = CurrentName(d.items[m].video, d.c)
  /\ t[i].dst = d.items[m].name

Move(d, item) == Reorder(item.video, CurrentName(item.video, d.c), item.name)

Moves(d, m) == CurrentName(d.items[m].video, d.c) \notin {None, d.items[m].name}

LEMMA MoveIsTaken ==
  ASSUME NEW inp, InputOK(inp), NEW d, DraftOK(inp, d), NEW m \in 1 .. Len(d.items), Moves(d, m)
  PROVE  /\ CurrentName(d.items[m].video, d.c) \in Moving(d)
         /\ d.items[m].video.id \in DOMAIN d.c.managed
         /\ CurrentName(d.items[m].video, d.c) = d.c.managed[d.items[m].video.id][1]
         /\ Reorder(d.items[m].video, CurrentName(d.items[m].video, d.c), d.items[m].name) \in ActionsOf(inp)
<1> DEFINE v == d.items[m].video
           n == CurrentName(v, d.c)
<1>1. v \in inp.library /\ ClassOK(inp, d.c)
  BY DraftItems DEF DraftOK
<1>2. v.id \in DOMAIN d.c.managed /\ n = d.c.managed[v.id][1] /\ n \in AppNames(inp)
  BY <1>1, CurrentIsAName DEF Moves
<1>3. n \in Moving(d)
  BY <1>2 DEF Moving
<1>4. Matches(v, n, inp.remote.root)
  <2>1. PICK w \in inp.library :
          /\ w.id = v.id
          /\ \A k \in 1 .. Len(d.c.managed[v.id]) : Matches(w, d.c.managed[v.id][k], inp.remote.root)
    BY <1>1, <1>2 DEF ClassOK, CopiesApart
  <2>2. w = v
    BY <1>1, <2>1 DEF InputOK, LibraryOK
  <2>3. 1 \in 1 .. Len(d.c.managed[v.id])
    <3>1. d.c.managed[v.id] \in Seq(AppNames(inp)) /\ Len(d.c.managed[v.id]) >= 1
      BY <1>1, <1>2 DEF ClassOK, CopiesApart
    <3>2. QED BY <3>1
  <2>4. QED BY <1>2, <2>1, <2>2, <2>3
<1>5. PICK p \in 1 .. MaxPrefix : d.items[m].name = ActiveName(p, v)
  BY DEF Moves, DraftOK, PlacedUpTo, WellNamed
<1>6. Reorder(v, n, ActiveName(p, v)) \in ActionsOf(inp)
  <2> HIDE DEF v, n
  <2>1. QED BY <1>1, <1>2, <1>4, TakingActions
<1>7. QED BY <1>2, <1>3, <1>5, <1>6

(* The moves, as MainPart lists them.                                      *)
Reorders(d) ==
  LET s == Picked(d.items, {m \in DOMAIN d.items : Moves(d, m)})
  IN  [k \in DOMAIN s |-> Move(d, s[k])]

LEMMA ReordersTaken ==
  ASSUME NEW inp, InputOK(inp), NEW d, DraftOK(inp, d)
  PROVE  /\ TakesOf(inp, Reorders(d), Moving(d))
         /\ \A i \in 1 .. Len(Reorders(d)) :
              /\ Reorders(d)[i].kind = "reorder"
              /\ \E m \in 1 .. Len(d.items) : Moves(d, m) /\ MovesTo(d, Reorders(d), i, m)
         /\ \A m \in 1 .. Len(d.items) : Moves(d, m) =>
              \E i \in 1 .. Len(Reorders(d)) : MovesTo(d, Reorders(d), i, m)
<1> DEFINE I == {m \in DOMAIN d.items : Moves(d, m)}
           s == Picked(d.items, I)
           t == Reorders(d)
           T == ActionsOf(inp)
<1>1. d.items \in Seq(ItemsFor(inp)) /\ OncePerVideo(d.items) /\ I \subseteq 1 .. Len(d.items)
      /\ DOMAIN d.items = 1 .. Len(d.items)
  BY DraftItems
<1>2. Some(s, d.items, I) /\ OncePerVideo(s)
  <2> HIDE DEF I
  <2>1. QED BY <1>1, ItemsPicked
<1>3. t = [k \in DOMAIN s |-> Move(d, s[k])]
  BY DEF Reorders
<1>4. \A m \in I : /\ CurrentName(d.items[m].video, d.c) \in Moving(d)
                  /\ d.items[m].video.id \in DOMAIN d.c.managed
                  /\ CurrentName(d.items[m].video, d.c) = d.c.managed[d.items[m].video.id][1]
                  /\ Move(d, d.items[m]) \in T
  BY <1>1, MoveIsTaken DEF Move
<1>5. \A item : /\ Move(d, item).kind = "reorder"
                /\ Move(d, item).src = CurrentName(item.video, d.c)
                /\ Move(d, item).dst = item.name
  BY DEF Move, Reorder, Act
<1>6. \A m \in 1 .. Len(d.items) : Moves(d, m) => m \in I
  BY <1>1
<1>7. \A m \in I : Moves(d, m)
  OBVIOUS
<1> HIDE DEF I, s, t, T
<1> DEFINE n == Len(s)
<1>8. /\ n \in Nat /\ t = [k \in 1 .. n |-> Move(d, s[k])]
      /\ \A k \in 1 .. n : \E m \in I : s[k] = d.items[m]
      /\ \A m \in I : \E k \in 1 .. n : s[k] = d.items[m]
  BY <1>2, <1>3 DEF Some
<1>9. \A k \in 1 .. n : Move(d, s[k]) \in T
  BY <1>4, <1>8
<1> HIDE DEF n
<1>10. t \in Seq(T) /\ Len(t) = n
  BY <1>8, <1>9
<1>11. \A i \in 1 .. n : t[i].kind = "reorder" /\ t[i].src \in Moving(d) /\ t[i].kind \in Takes
  BY <1>4, <1>5, <1>8 DEF Takes
<1>12. ASSUME NEW i \in 1 .. n, NEW j \in 1 .. n, t[i].src = t[j].src PROVE i = j
  <2>1. PICK m \in I : s[i] = d.items[m]
    BY <1>8
  <2>2. PICK l \in I : s[j] = d.items[l]
    BY <1>8
  <2> DEFINE id == d.items[m].video.id
             jd == d.items[l].video.id
  <2>3. /\ id \in DOMAIN d.c.managed /\ jd \in DOMAIN d.c.managed
        /\ t[i].src = d.c.managed[id][1] /\ t[j].src = d.c.managed[jd][1]
    BY <1>4, <1>5, <1>8, <2>1, <2>2, SMTT(30)
  <2> HIDE DEF id, jd
  <2>4. 1 \in 1 .. Len(d.c.managed[id]) /\ 1 \in 1 .. Len(d.c.managed[jd])
    BY <2>3 DEF DraftOK, ClassOK, CopiesApart
  <2>5. \A k \in 1 .. Len(d.c.managed[id]), h \in 1 .. Len(d.c.managed[jd]) :
          d.c.managed[id][k] = d.c.managed[jd][h] => id = jd
    BY <2>3 DEF DraftOK, ClassOK, CopiesApart
  <2>6. id = jd
    BY <1>12, <2>3, <2>4, <2>5
  <2>7. s[i].video.id = s[j].video.id
    BY <2>1, <2>2, <2>6 DEF id, jd
  <2>8. QED BY <1>2, <2>7 DEF OncePerVideo, n
<1>13. TakesOf(inp, t, Moving(d))
  BY <1>10, <1>11, <1>12 DEF TakesOf, T
<1>14. ASSUME NEW m \in 1 .. Len(d.items), Moves(d, m) PROVE \E i \in 1 .. Len(t) : MovesTo(d, t, i, m)
  <2>1. PICK k \in 1 .. n : s[k] = d.items[m]
    BY <1>6, <1>8, <1>14
  <2>2. MovesTo(d, t, k, m)
    BY <1>5, <1>8, <2>1 DEF MovesTo
  <2>3. QED BY <1>10, <2>2
<1>15. ASSUME NEW i \in 1 .. Len(t) PROVE \E m \in 1 .. Len(d.items) : Moves(d, m) /\ MovesTo(d, t, i, m)
  <2>1. PICK m \in I : s[i] = d.items[m]
    BY <1>8, <1>10
  <2>2. m \in 1 .. Len(d.items) /\ Moves(d, m)
    BY <1>1, <1>7
  <2>3. MovesTo(d, t, i, m)
    BY <1>5, <1>8, <1>10, <2>1 DEF MovesTo
  <2>4. QED BY <2>2, <2>3
<1>16. QED BY <1>10, <1>11, <1>13, <1>14, <1>15 DEF t

-----------------------------------------------------------------------------
(* The removals                                                            *)

CopiesOf(c, ids) == UNION {{[id |-> id, k |-> k] : k \in DOMAIN c.managed[id]} : id \in ids}

CopyAt(c, ids, x) == x.id \in ids /\ x.k \in 1 .. Len(c.managed[x.id])

LEMMA CopiesEnumerate ==
  ASSUME NEW inp, InputOK(inp), NEW c, ClassOK(inp, c), NEW ids, ids \subseteq DOMAIN c.managed
  PROVE  /\ Enumerates(Copies(c, ids), CopiesOf(c, ids))
         /\ \A x \in CopiesOf(c, ids) : CopyAt(c, ids, x)
<1> DEFINE of == CopiesOf(c, ids)
           R  == {p \in of \X of : \/ p[1].id < p[2].id
                                   \/ p[1].id = p[2].id /\ p[1].k < p[2].k}
           A  == AppNames(inp)
           g  == [x \in of |-> c.managed[x.id][x.k]]
<1>1. Copies(c, ids) = Sorted(of, R)
  BY DEF Copies, CopiesOf
<1>2. \A id \in DOMAIN c.managed :
        /\ c.managed[id] \in Seq(A) /\ DOMAIN c.managed[id] = 1 .. Len(c.managed[id]) /\ id \in Nat
  <2>1. \A id \in DOMAIN c.managed : c.managed[id] \in Seq(A) /\ id \in Nat
    BY DEF ClassOK, CopiesApart, InputOK, LibraryOK, Videos
  <2> HIDE DEF A
  <2>2. QED BY <2>1
<1>3. \A x \in of : /\ x.id \in ids /\ x.k \in 1 .. Len(c.managed[x.id])
                   /\ x = [id |-> x.id, k |-> x.k] /\ x.id \in Nat /\ x.k \in Nat
  <2>1. ASSUME NEW x \in of
        PROVE  /\ x.id \in ids /\ x.k \in 1 .. Len(c.managed[x.id])
               /\ x = [id |-> x.id, k |-> x.k] /\ x.id \in Nat /\ x.k \in Nat
    <3>1. PICK id \in ids : \E k \in DOMAIN c.managed[id] : x = [id |-> id, k |-> k]
      BY DEF CopiesOf
    <3>2. PICK k \in DOMAIN c.managed[id] : x = [id |-> id, k |-> k]
      BY <3>1
    <3>3. x.id = id /\ x.k = k
      BY <3>2
    <3>4. id \in Nat /\ k \in 1 .. Len(c.managed[id]) /\ k \in Nat
      BY <1>2
    <3>5. QED BY <3>2, <3>3, <3>4
  <2>2. QED BY <2>1
<1>4. \A x, y \in of : <<x, y>> \in R <=> (x.id < y.id \/ (x.id = y.id /\ x.k < y.k))
  OBVIOUS
<1> HIDE DEF of, R
<1>5. IsFiniteSet(of)
  <2>1. g \in [of -> A]
    <3>1. \A x \in of : c.managed[x.id][x.k] \in A
      <4> HIDE DEF A
      <4>1. QED BY <1>2, <1>3
    <3>2. QED BY <3>1
  <2>2. ASSUME NEW x \in of, NEW y \in of, g[x] = g[y] PROVE x = y
    <3>1. x.id \in DOMAIN c.managed /\ y.id \in DOMAIN c.managed
      BY <1>3
    <3>2. c.managed[x.id][x.k] = c.managed[y.id][y.k]
      BY <2>2
    <3>3. x.id = y.id /\ x.k = y.k
      BY <1>3, <3>1, <3>2 DEF ClassOK, CopiesApart
    <3>4. QED BY <1>3, <3>3
  <2> HIDE DEF g
  <2>3. g \in Injection(of, A)
    BY <2>1, <2>2 DEF Injection, IsInjective
  <2>4. QED BY <2>3, AppNamesFinite, FS_Injection
<1>6. PutsInOrder(R, of)
  <2>1. \A x, y \in of : x.id = y.id /\ x.k = y.k => x = y
    BY <1>3
  <2>2. QED BY <1>3, <1>4, <2>1 DEF PutsInOrder
<1>7. Enumerates(Copies(c, ids), of)
  BY <1>1, <1>5, <1>6, SortedEnumerates
<1>8. QED BY <1>3, <1>7 DEF CopyAt, of

(* How a copy of a video that does not play leaves the screen.             *)
Retirement(d, staged, x) ==
  LET video == CHOOSE v \in d.inp.library : v.id = x.id
      n     == d.c.managed[x.id][x.k]
  IN  IF x.k = 1 /\ (\E i \in DOMAIN d.keep : d.keep[i].video = video) /\ video.sha \notin staged
        THEN Deactivate(video, n) ELSE DeleteActive(n)

(* The removals, one retirement for each copy that does not play.           *)
LEMMA RemovalsAre ==
  ASSUME NEW inp, NEW d, DraftOK(inp, d), NEW staged
  PROVE  LET s == Copies(d.c, DOMAIN d.c.managed \ Placed(d))
         IN  Removals(inp.remote, inp.library, d.c, inp.requests, Placed(d), d.keep, staged)
               = [i \in DOMAIN s |-> Retirement(d, staged, s[i])]
                   \o AskedFor(inp.remote, d.c, inp.requests)
  BY DEF Removals, Mapped, Retirement, DraftOK

LEMMA RetirementTakes ==
  ASSUME NEW inp, InputOK(inp), NEW d, DraftOK(inp, d), NEW staged,
         NEW x, CopyAt(d.c, DOMAIN d.c.managed \ Placed(d), x)
  PROVE  /\ Retirement(d, staged, x) \in ActionsOf(inp)
         /\ Retirement(d, staged, x).kind \in Takes
         /\ Retirement(d, staged, x).src = d.c.managed[x.id][x.k]
         /\ d.c.managed[x.id][x.k] \in Retired(d)
<1> DEFINE video == CHOOSE v \in d.inp.library : v.id = x.id
           n     == d.c.managed[x.id][x.k]
<1>1. x.id \in DOMAIN d.c.managed \ Placed(d) /\ x.k \in 1 .. Len(d.c.managed[x.id]) /\ d.inp = inp
  BY DEF CopyAt, DraftOK
<1>2. n \in Retired(d)
  BY <1>1 DEF Retired
<1>3. n \in AppNames(inp)
  BY <1>2, TakenApart
<1>4. PICK v \in inp.library :
        v.id = x.id /\ \A k \in 1 .. Len(d.c.managed[x.id]) : Matches(v, d.c.managed[x.id][k], inp.remote.root)
  BY <1>1 DEF DraftOK, ClassOK, CopiesApart
<1>5. video \in inp.library /\ video = v
  BY <1>1, <1>4 DEF InputOK, LibraryOK
<1>6. Matches(video, n, inp.remote.root)
  BY <1>1, <1>4, <1>5
<1>7. \/ Retirement(d, staged, x) = Deactivate(video, n)
      \/ Retirement(d, staged, x) = DeleteActive(n)
  BY DEF Retirement
<1> HIDE DEF video, n
<1>8. Deactivate(video, n) \in ActionsOf(inp) /\ DeleteActive(n) \in ActionsOf(inp)
  BY <1>3, <1>5, <1>6, TakingActions
<1>9. /\ Deactivate(video, n).kind \in Takes /\ Deactivate(video, n).src = n
      /\ DeleteActive(n).kind \in Takes /\ DeleteActive(n).src = n
  BY DEF Deactivate, DeleteActive, Act, Takes
<1>10. QED BY <1>2, <1>7, <1>8, <1>9 DEF n

LEMMA AskedForTaken ==
  ASSUME NEW inp, InputOK(inp), NEW d, DraftOK(inp, d)
  PROVE  TakesOf(inp, AskedFor(inp.remote, d.c, inp.requests), d.c.legacy)
<1> DEFINE S == {n \in d.c.legacy \cap inp.requests : ~ inp.remote.root[n].isDir}
           s == ByName(S)
           t == AskedFor(inp.remote, d.c, inp.requests)
           T == ActionsOf(inp)
<1>1. t = [i \in DOMAIN s |-> DeleteLegacy(s[i])]
  BY DEF AskedFor, Mapped
<1>2. d.c.legacy = DOMAIN inp.remote.root \ AppNames(inp)
  BY DEF DraftOK, ClassOK
<1>3. S \in SUBSET DOMAIN inp.remote.root
  BY <1>2
<1>4. \A n \in S : n \in d.c.legacy /\ DeleteLegacy(n) \in T
  BY <1>2, TakingActions
<1> HIDE DEF S
<1>5. S \subseteq NamesFor(inp.library) /\ IsFiniteSet(S) /\ LibraryOK(inp.library)
  BY <1>3, FS_Subset DEF InputOK
<1>6. Enumerates(s, S)
  BY <1>5, ByNameEnumerates
<1> HIDE DEF s, t
<1>7. /\ s \in Seq(S) /\ Len(s) \in Nat /\ DOMAIN s = 1 .. Len(s)
      /\ \A i \in 1 .. Len(s) : s[i] \in S
      /\ \A i, j \in 1 .. Len(s) : s[i] = s[j] => i = j
  BY <1>6 DEF Enumerates
<1>8. \A n : DeleteLegacy(n).kind \in Takes /\ DeleteLegacy(n).src = n
  BY DEF DeleteLegacy, Act, Takes
<1> HIDE DEF T
<1> DEFINE m == Len(s)
<1>9. t = [i \in 1 .. m |-> DeleteLegacy(s[i])] /\ m \in Nat
  BY <1>1, <1>7
<1>10. \A i \in 1 .. m : DeleteLegacy(s[i]) \in T
  BY <1>4, <1>7
<1> HIDE DEF m
<1>11. t \in Seq(T) /\ Len(t) = m
  BY <1>9, <1>10
<1>12. \A i \in 1 .. m : t[i].kind \in Takes /\ t[i].src = s[i] /\ t[i].src \in d.c.legacy
  BY <1>4, <1>7, <1>8, <1>9 DEF m
<1>13. TakesOf(inp, t, d.c.legacy)
  BY <1>7, <1>11, <1>12 DEF TakesOf, T, m
<1>14. QED BY <1>13 DEF t

LEMMA TakesJoined ==
  ASSUME NEW inp, NEW S, NEW U, S \cap U = {},
         NEW s, TakesOf(inp, s, S), NEW t, TakesOf(inp, t, U)
  PROVE  TakesOf(inp, s \o t, S \cup U)
<1> DEFINE T == ActionsOf(inp)
           u == s \o t
<1>1. s \in Seq(T) /\ t \in Seq(T)
  BY DEF TakesOf
<1> HIDE DEF T
<1>2. /\ u \in Seq(T) /\ Len(u) = Len(s) + Len(t) /\ Len(s) \in Nat /\ Len(t) \in Nat
      /\ \A i \in 1 .. Len(s) : u[i] = s[i]
      /\ \A i \in 1 .. Len(u) : i > Len(s) => i - Len(s) \in 1 .. Len(t) /\ u[i] = t[i - Len(s)]
  BY <1>1
<1> HIDE DEF u
<1>3. /\ \A i \in 1 .. Len(s) : s[i].kind \in Takes /\ s[i].src \in S
      /\ \A i \in 1 .. Len(t) : t[i].kind \in Takes /\ t[i].src \in U
      /\ \A i, j \in 1 .. Len(s) : s[i].src = s[j].src => i = j
      /\ \A i, j \in 1 .. Len(t) : t[i].src = t[j].src => i = j
  BY DEF TakesOf
<1>4. \A i \in 1 .. Len(u) : i <= Len(s) => i \in 1 .. Len(s)
  BY <1>2
<1>5. \A i \in 1 .. Len(u) : /\ u[i].kind \in Takes
                             /\ i <= Len(s) => u[i].src \in S
                             /\ i > Len(s) => u[i].src \in U
  BY <1>2, <1>3, <1>4, SMTT(30)
<1>6. ASSUME NEW i \in 1 .. Len(u), NEW j \in 1 .. Len(u), u[i].src = u[j].src PROVE i = j
  <2>1. CASE i <= Len(s) /\ j <= Len(s)
    BY <1>2, <1>3, <1>4, <1>6, <2>1
  <2>2. CASE i > Len(s) /\ j > Len(s)
    <3>1. i - Len(s) = j - Len(s)
      BY <1>2, <1>3, <1>6, <2>2
    <3>2. QED BY <1>2, <3>1
  <2>3. QED BY <1>2, <1>5, <1>6, <2>1, <2>2
<1>7. \A i \in 1 .. Len(u) : u[i].src \in S \cup U
  BY <1>2, <1>5
<1>8. QED BY <1>2, <1>5, <1>6, <1>7 DEF TakesOf, T, u

LEMMA RemovalsTaken ==
  ASSUME NEW inp, InputOK(inp), NEW d, DraftOK(inp, d), NEW staged
  PROVE  TakesOf(inp, Removals(inp.remote, inp.library, d.c, inp.requests, Placed(d), d.keep, staged),
                 Leaving(d))
<1> DEFINE ids == DOMAIN d.c.managed \ Placed(d)
           s   == Copies(d.c, ids)
           t   == [i \in DOMAIN s |-> Retirement(d, staged, s[i])]
           T   == ActionsOf(inp)
<1>1. Removals(inp.remote, inp.library, d.c, inp.requests, Placed(d), d.keep, staged)
        = t \o AskedFor(inp.remote, d.c, inp.requests)
  BY RemovalsAre
<1>2. Enumerates(s, CopiesOf(d.c, ids)) /\ \A x \in CopiesOf(d.c, ids) : CopyAt(d.c, ids, x)
  BY CopiesEnumerate DEF DraftOK
<1> HIDE DEF s, t
<1>3. /\ Len(s) \in Nat /\ DOMAIN s = 1 .. Len(s)
      /\ \A i \in 1 .. Len(s) : CopyAt(d.c, ids, s[i])
      /\ \A i, j \in 1 .. Len(s) : s[i] = s[j] => i = j
      /\ \A i \in 1 .. Len(s) : s[i] = [id |-> s[i].id, k |-> s[i].k]
  <2>1. /\ s \in Seq(CopiesOf(d.c, ids))
        /\ \A i, j \in 1 .. Len(s) : s[i] = s[j] => i = j
    BY <1>2 DEF Enumerates
  <2>2. \A i \in 1 .. Len(s) : s[i] \in CopiesOf(d.c, ids)
    BY <2>1
  <2>3. \A x \in CopiesOf(d.c, ids) : x = [id |-> x.id, k |-> x.k]
    BY DEF CopiesOf
  <2> DEFINE C == CopiesOf(d.c, ids)
  <2> HIDE DEF C
  <2>4. s \in Seq(C)
    BY <2>1 DEF C
  <2>5. Len(s) \in Nat /\ DOMAIN s = 1 .. Len(s)
    BY <2>4
  <2>6. \A i \in 1 .. Len(s) : CopyAt(d.c, ids, s[i])
    BY <1>2, <2>2
  <2>7. \A i \in 1 .. Len(s) : s[i] = [id |-> s[i].id, k |-> s[i].k]
    BY <2>2, <2>3
  <2>8. QED BY <2>1, <2>5, <2>6, <2>7
<1>4. \A i \in 1 .. Len(s) :
        /\ Retirement(d, staged, s[i]) \in T
        /\ Retirement(d, staged, s[i]).kind \in Takes
        /\ Retirement(d, staged, s[i]).src = d.c.managed[s[i].id][s[i].k]
        /\ d.c.managed[s[i].id][s[i].k] \in Retired(d)
  BY <1>3, RetirementTakes
<1> DEFINE m == Len(s)
<1> HIDE DEF T
<1>5. t = [i \in 1 .. m |-> Retirement(d, staged, s[i])] /\ m \in Nat
  BY <1>3 DEF t
<1>6. \A i \in 1 .. m : Retirement(d, staged, s[i]) \in T
  BY <1>4
<1> HIDE DEF m
<1>7. t \in Seq(T) /\ Len(t) = m
  BY <1>5, <1>6
<1>8. \A i \in 1 .. m : /\ t[i].kind \in Takes /\ t[i].src \in Retired(d)
                        /\ t[i].src = d.c.managed[s[i].id][s[i].k]
  BY <1>4, <1>5 DEF m
<1>9. ASSUME NEW i \in 1 .. m, NEW j \in 1 .. m, t[i].src = t[j].src PROVE i = j
  <2>1. CopyAt(d.c, ids, s[i]) /\ CopyAt(d.c, ids, s[j])
    BY <1>3 DEF m
  <2>2. d.c.managed[s[i].id][s[i].k] = d.c.managed[s[j].id][s[j].k]
    BY <1>8, <1>9
  <2>3. s[i].id = s[j].id /\ s[i].k = s[j].k
    <3>1. \A id, jd \in DOMAIN d.c.managed :
            \A k \in 1 .. Len(d.c.managed[id]), l \in 1 .. Len(d.c.managed[jd]) :
              d.c.managed[id][k] = d.c.managed[jd][l] => id = jd /\ k = l
      BY DEF DraftOK, ClassOK, CopiesApart
    <3> DEFINE id == s[i].id
               jd == s[j].id
               k  == s[i].k
               l  == s[j].k
    <3>2. /\ id \in DOMAIN d.c.managed /\ k \in 1 .. Len(d.c.managed[id])
          /\ jd \in DOMAIN d.c.managed /\ l \in 1 .. Len(d.c.managed[jd])
          /\ d.c.managed[id][k] = d.c.managed[jd][l]
      BY <2>1, <2>2 DEF CopyAt
    <3> HIDE DEF id, jd, k, l
    <3>3. id = jd /\ k = l
      BY <3>1, <3>2
    <3>4. QED BY <3>3 DEF id, jd, k, l
  <2>4. s[i] = s[j]
    BY <1>3, <2>3 DEF m
  <2>5. QED BY <1>3, <2>4 DEF m
<1>10. TakesOf(inp, t, Retired(d))
  BY <1>7, <1>8, <1>9 DEF TakesOf, T
<1>11. Retired(d) \cap d.c.legacy = {}
  <2>1. Retired(d) \subseteq AppNames(inp)
    BY TakenApart
  <2>2. d.c.legacy = DOMAIN inp.remote.root \ AppNames(inp)
    BY DEF DraftOK, ClassOK
  <2>3. QED BY <2>1, <2>2
<1>12. QED BY <1>1, <1>10, <1>11, AskedForTaken, TakesJoined DEF Leaving

-----------------------------------------------------------------------------
(* The parts of a plan                                                     *)

(* Actions that put a file into the video folder, and actions that take    *)
(* one away for good.                                                      *)
Puts  == {"activate", "reorder"}
Drops == {"deactivate", "delete_active", "delete_legacy"}

(* No two actions take the same file.                                      *)
TakesApart(s) ==
  \A i, j \in 1 .. Len(s) :
    s[i].kind \in Takes /\ s[j].kind \in Takes /\ s[i].src = s[j].src => i = j

(* When an action takes a file away, a file that could be played before    *)
(* the plan, or one that the plan put into the folder, is still there.     *)
LeftAlone(s, n, j, i) == \A l \in j .. i : s[l].kind \in Takes => s[l].src # n

StillThere(s, i, playable) ==
  \/ \E n \in playable : LeftAlone(s, n, 1, i)
  \/ \E j \in 1 .. i - 1 : s[j].kind \in Puts /\ LeftAlone(s, s[j].dst, j + 1, i)

Guarded(s, playable) ==
  \A i \in 1 .. Len(s) : s[i].kind \in Drops => StillThere(s, i, playable)

(* Up to a: what is cleared, sent and shown.  Up to e: further copies are  *)
(* deleted.  Up to r: names move.  Up to w: the removals.  Then what had   *)
(* to wait, and what is staged ahead.                                      *)
Blocks(inp, d, s, a, e, r, w) ==
  /\ s \in Seq(ActionsOf(inp))
  /\ a \in Nat /\ e \in Nat /\ r \in Nat /\ w \in Nat
  /\ a <= e /\ e <= r /\ r <= w /\ w <= Len(s)
  /\ \A i \in 1 .. Len(s) : i <= a \/ i > w => s[i].kind \notin Takes
  /\ \A i \in a + 1 .. e : s[i].src \in Extra(d)
  /\ \A i \in e + 1 .. r : s[i].kind = "reorder" /\ s[i].src \in Moving(d)
  /\ \A i \in r + 1 .. w : s[i].src \in Leaving(d)
  /\ \A i, j \in a + 1 .. e : s[i].src = s[j].src => i = j
  /\ \A i, j \in e + 1 .. r : s[i].src = s[j].src => i = j
  /\ \A i, j \in r + 1 .. w : s[i].src = s[j].src => i = j

(* z is x, then y.                                                         *)
Joins(x, y, z) ==
  /\ Len(x) \in Nat /\ Len(y) \in Nat /\ Len(z) = Len(x) + Len(y)
  /\ \A i \in 1 .. Len(x) : z[i] = x[i]
  /\ \A i \in Len(x) + 1 .. Len(z) : i - Len(x) \in 1 .. Len(y) /\ z[i] = y[i - Len(x)]

LEMMA Joined ==
  ASSUME NEW T, NEW x \in Seq(T), NEW y \in Seq(T)
  PROVE  x \o y \in Seq(T) /\ Joins(x, y, x \o y)
<1> DEFINE m == Len(x)
           n == Len(y)
           z == x \o y
<1>1. m \in Nat /\ n \in Nat /\ z \in Seq(T) /\ Len(z) = m + n
  OBVIOUS
<1>2. /\ \A i \in 1 .. m : z[i] = x[i]
      /\ \A i \in m + 1 .. m + n : z[i] = y[i - m]
  OBVIOUS
<1> HIDE DEF m, n, z
<1>3. \A i \in m + 1 .. m + n : i - m \in 1 .. n
  BY <1>1
<1>4. QED BY <1>1, <1>2, <1>3 DEF Joins, m, n, z

(* s is A, E, R and W, which end at a, e, r and w.                         *)
FourParts(A, E, R, W, s, a, e, r, w) ==
  /\ a \in Nat /\ e \in Nat /\ r \in Nat /\ w \in Nat
  /\ a <= e /\ e <= r /\ r <= w /\ Len(s) = w
  /\ a = Len(A) /\ e = a + Len(E) /\ r = e + Len(R) /\ w = r + Len(W)
  /\ \A i \in 1 .. a : s[i] = A[i]
  /\ \A i \in a + 1 .. e : i - a \in 1 .. Len(E) /\ s[i] = E[i - a]
  /\ \A i \in e + 1 .. r : i - e \in 1 .. Len(R) /\ s[i] = R[i - e]
  /\ \A i \in r + 1 .. w : i - r \in 1 .. Len(W) /\ s[i] = W[i - r]

LEMMA FourLists ==
  ASSUME NEW T, NEW A \in Seq(T), NEW E \in Seq(T), NEW R \in Seq(T), NEW W \in Seq(T),
         NEW s, s = A \o E \o R \o W
  PROVE  s \in Seq(T) /\ \E a, e, r, w : FourParts(A, E, R, W, s, a, e, r, w)
<1> DEFINE x == A \o E
           y == x \o R
           a == Len(A)
           e == Len(x)
           r == Len(y)
           w == Len(s)
<1>1. x \in Seq(T) /\ Joins(A, E, x)
  BY Joined
<1> HIDE DEF x
<1>2. y \in Seq(T) /\ Joins(x, R, y)
  BY <1>1, Joined
<1>3. s = y \o W
  BY DEF y, x
<1> HIDE DEF y
<1>4. s \in Seq(T) /\ Joins(y, W, s)
  BY <1>2, <1>3, Joined
<1>5. /\ a \in Nat /\ e \in Nat /\ r \in Nat /\ w \in Nat
      /\ Len(E) \in Nat /\ Len(R) \in Nat /\ Len(W) \in Nat
      /\ e = a + Len(E) /\ r = e + Len(R) /\ w = r + Len(W)
      /\ \A i \in 1 .. a : x[i] = A[i]
      /\ \A i \in a + 1 .. e : i - a \in 1 .. Len(E) /\ x[i] = E[i - a]
      /\ \A i \in 1 .. e : y[i] = x[i]
      /\ \A i \in e + 1 .. r : i - e \in 1 .. Len(R) /\ y[i] = R[i - e]
      /\ \A i \in 1 .. r : s[i] = y[i]
      /\ \A i \in r + 1 .. w : i - r \in 1 .. Len(W) /\ s[i] = W[i - r]
  <2>1. /\ a \in Nat /\ Len(E) \in Nat /\ e = a + Len(E)
        /\ \A i \in 1 .. a : x[i] = A[i]
        /\ \A i \in a + 1 .. e : i - a \in 1 .. Len(E) /\ x[i] = E[i - a]
    BY <1>1 DEF Joins
  <2>2. /\ e \in Nat /\ Len(R) \in Nat /\ r = e + Len(R)
        /\ \A i \in 1 .. e : y[i] = x[i]
        /\ \A i \in e + 1 .. r : i - e \in 1 .. Len(R) /\ y[i] = R[i - e]
    BY <1>2 DEF Joins
  <2>3. /\ r \in Nat /\ Len(W) \in Nat /\ w = r + Len(W)
        /\ \A i \in 1 .. r : s[i] = y[i]
        /\ \A i \in r + 1 .. w : i - r \in 1 .. Len(W) /\ s[i] = W[i - r]
    BY <1>4 DEF Joins
  <2> HIDE DEF a, e, r, w
  <2>4. w \in Nat
    BY <2>3
  <2>5. QED BY <2>1, <2>2, <2>3, <2>4
<1> HIDE DEF a, e, r, w
<1>6. a <= e /\ e <= r /\ r <= w
  BY <1>5
<1>7. /\ \A i \in 1 .. a : i \in 1 .. e /\ i \in 1 .. r
      /\ \A i \in a + 1 .. e : i \in 1 .. e /\ i \in 1 .. r
      /\ \A i \in e + 1 .. r : i \in 1 .. r
  BY SMTT(40), <1>5, <1>6
<1>8. FourParts(A, E, R, W, s, a, e, r, w)
  BY <1>5, <1>6, <1>7 DEF FourParts, a, w
<1>9. QED BY <1>4, <1>8

(* The plan's four parts, and what continues them.                         *)
InParts(inp, d, A, R, W, t, a, e, r, w) ==
  /\ Blocks(inp, d, t, a, e, r, w)
  /\ a = Len(A)
  /\ \A i \in 1 .. a : t[i] = A[i]
  /\ \A i \in 1 .. Len(R) : e + i \in e + 1 .. r /\ t[e + i] = R[i]
  /\ \A i \in e + 1 .. r : i - e \in 1 .. Len(R) /\ t[i] = R[i - e]
  /\ \A i \in r + 1 .. w : i - r \in 1 .. Len(W) /\ t[i] = W[i - r]

LEMMA InBlocks ==
  ASSUME NEW inp, NEW d, NEW A \in Seq(Quiet(inp)),
         NEW E, TakesOf(inp, E, Extra(d)),
         NEW R, TakesOf(inp, R, Moving(d)), \A i \in 1 .. Len(R) : R[i].kind = "reorder",
         NEW W, TakesOf(inp, W, Leaving(d)),
         NEW t, Continues(inp, A \o E \o R \o W, t)
  PROVE  \E a, e, r, w : InParts(inp, d, A, R, W, t, a, e, r, w)
<1> DEFINE T == ActionsOf(inp)
           s == A \o E \o R \o W
<1>1. A \in Seq(T) /\ \A i \in 1 .. Len(A) : A[i].kind \notin Takes
  <2> DEFINE Q == Quiet(inp)
  <2>1. Q \subseteq T /\ \A q \in Q : q.kind \notin Takes
    BY DEF Quiet
  <2> HIDE DEF Q, T
  <2>2. A \in Seq(Q)
    BY DEF Q
  <2>3. QED BY <2>1, <2>2
<1>2. E \in Seq(T) /\ R \in Seq(T) /\ W \in Seq(T)
  BY DEF TakesOf
<1>3. Continues(inp, s, t)
  OBVIOUS
<1> HIDE DEF T, s
<1>4. PICK a, e, r, w : FourParts(A, E, R, W, s, a, e, r, w)
  BY <1>1, <1>2, FourLists DEF s
<1>5. /\ a \in Nat /\ e \in Nat /\ r \in Nat /\ w \in Nat
      /\ a <= e /\ e <= r /\ r <= w /\ Len(s) = w
      /\ a = Len(A) /\ e = a + Len(E) /\ r = e + Len(R) /\ w = r + Len(W)
      /\ \A i \in 1 .. a : s[i] = A[i]
      /\ \A i \in a + 1 .. e : i - a \in 1 .. Len(E) /\ s[i] = E[i - a]
      /\ \A i \in e + 1 .. r : i - e \in 1 .. Len(R) /\ s[i] = R[i - e]
      /\ \A i \in r + 1 .. w : i - r \in 1 .. Len(W) /\ s[i] = W[i - r]
  BY <1>4 DEF FourParts
<1>6. /\ t \in Seq(T) /\ Len(t) >= w
      /\ \A i \in 1 .. w : t[i] = s[i]
      /\ \A i \in w + 1 .. Len(t) : t[i] \in Quiet(inp)
  BY <1>3, <1>5 DEF Continues, T
<1>7. Len(E) \in Nat /\ Len(R) \in Nat /\ Len(W) \in Nat /\ Len(t) \in Nat
  BY <1>2, <1>6
<1>8. /\ \A i \in 1 .. a : i \in 1 .. w
      /\ \A i \in a + 1 .. e : i \in 1 .. w
      /\ \A i \in e + 1 .. r : i \in 1 .. w
      /\ \A i \in r + 1 .. w : i \in 1 .. w
      /\ \A i \in 1 .. Len(R) : e + i \in e + 1 .. r /\ (e + i) - e = i
  BY SMTT(40), <1>5, <1>7
<1>9. /\ \A i \in 1 .. a : t[i] = A[i]
      /\ \A i \in a + 1 .. e : i - a \in 1 .. Len(E) /\ t[i] = E[i - a]
      /\ \A i \in e + 1 .. r : i - e \in 1 .. Len(R) /\ t[i] = R[i - e]
      /\ \A i \in r + 1 .. w : i - r \in 1 .. Len(W) /\ t[i] = W[i - r]
  BY <1>5, <1>6, <1>8
<1>10. \A i \in 1 .. Len(R) : e + i \in e + 1 .. r /\ t[e + i] = R[i]
  <2>1. ASSUME NEW i \in 1 .. Len(R) PROVE e + i \in e + 1 .. r /\ t[e + i] = R[i]
    <3>1. e + i \in e + 1 .. r /\ (e + i) - e = i
      BY <1>8
    <3>2. t[e + i] = R[(e + i) - e]
      BY <1>9, <3>1
    <3>3. QED BY <3>1, <3>2
  <2>2. QED BY <2>1
<1>11. \A i \in 1 .. Len(t) : i <= a \/ i > w => t[i].kind \notin Takes
  <2>1. ASSUME NEW i \in 1 .. Len(t), i <= a PROVE t[i].kind \notin Takes
    <3>1. i \in 1 .. a
      BY <1>5, <2>1
    <3>2. QED BY <1>1, <1>5, <1>9, <3>1
  <2>2. ASSUME NEW i \in 1 .. Len(t), i > w PROVE t[i].kind \notin Takes
    <3>1. i \in w + 1 .. Len(t)
      BY <1>5, <1>7, <2>2
    <3>2. QED BY <1>6, <3>1 DEF Quiet
  <2>3. QED BY <2>1, <2>2
<1>12. /\ \A i \in 1 .. Len(E) : E[i].src \in Extra(d)
       /\ \A i \in 1 .. Len(R) : R[i].src \in Moving(d)
       /\ \A i \in 1 .. Len(W) : W[i].src \in Leaving(d)
       /\ \A i, j \in 1 .. Len(E) : E[i].src = E[j].src => i = j
       /\ \A i, j \in 1 .. Len(R) : R[i].src = R[j].src => i = j
       /\ \A i, j \in 1 .. Len(W) : W[i].src = W[j].src => i = j
  BY DEF TakesOf
<1>13. \A i \in a + 1 .. e : t[i].src \in Extra(d)
  BY <1>9, <1>12
<1>14. \A i \in e + 1 .. r : t[i].kind = "reorder" /\ t[i].src \in Moving(d)
  BY <1>9, <1>12
<1>15. \A i \in r + 1 .. w : t[i].src \in Leaving(d)
  BY <1>9, <1>12
<1>16. ASSUME NEW i \in a + 1 .. e, NEW j \in a + 1 .. e, t[i].src = t[j].src PROVE i = j
  <2>1. i - a = j - a
    BY <1>9, <1>12, <1>16
  <2>2. QED BY <1>5, <2>1
<1>17. ASSUME NEW i \in e + 1 .. r, NEW j \in e + 1 .. r, t[i].src = t[j].src PROVE i = j
  <2>1. i - e = j - e
    BY <1>9, <1>12, <1>17
  <2>2. QED BY <1>5, <2>1
<1>18. ASSUME NEW i \in r + 1 .. w, NEW j \in r + 1 .. w, t[i].src = t[j].src PROVE i = j
  <2>1. i - r = j - r
    BY <1>9, <1>12, <1>18
  <2>2. QED BY <1>5, <2>1
<1>19. Blocks(inp, d, t, a, e, r, w)
  BY <1>5, <1>6, <1>11, <1>13, <1>14, <1>15, <1>16, <1>17, <1>18 DEF Blocks, T
<1>20. InParts(inp, d, A, R, W, t, a, e, r, w)
  BY <1>5, <1>9, <1>10, <1>19 DEF InParts
<1>21. QED BY <1>20

-----------------------------------------------------------------------------
(* What a plan leaves                                                      *)

(* The parts show what is on time and move what has a new name.            *)
Parts(inp, d, s, a, e, r, w, late) ==
  /\ Blocks(inp, d, s, a, e, r, w)
  /\ \A m \in 1 .. Len(d.items) :
       d.items[m].video \notin late /\ d.items[m].video.id \notin DOMAIN d.c.managed =>
         \E j \in 1 .. a : s[j].kind = "activate" /\ s[j].dst = d.items[m].name
  /\ \A m \in 1 .. Len(d.items) : Moves(d, m) => \E j \in e + 1 .. r : MovesTo(d, s, j, m)
  /\ \A j \in e + 1 .. r : \E m \in 1 .. Len(d.items) : Moves(d, m) /\ MovesTo(d, s, j, m)

(* Something playable is there when the removals come: a legacy film that  *)
(* they do not take, or an item that is on time.                           *)
Remains(d, s, r, w, late) ==
  \/ \E n \in d.c.playable : \A i \in r + 1 .. w : s[i].src # n
  \/ \E m \in 1 .. Len(d.items) : d.items[m].video \notin late

LEMMA BlocksApart ==
  ASSUME NEW inp, InputOK(inp), NEW d, DraftOK(inp, d), NEW s, NEW a, NEW e, NEW r, NEW w,
         Blocks(inp, d, s, a, e, r, w)
  PROVE  TakesApart(s)
<1>1. /\ Extra(d) \cap Moving(d) = {} /\ Extra(d) \cap Leaving(d) = {} /\ Moving(d) \cap Leaving(d) = {}
  BY TakenApart
<1>2. /\ a \in Nat /\ e \in Nat /\ r \in Nat /\ w \in Nat
      /\ \A i \in 1 .. Len(s) : i <= a \/ i > w => s[i].kind \notin Takes
      /\ \A i \in a + 1 .. e : s[i].src \in Extra(d)
      /\ \A i \in e + 1 .. r : s[i].src \in Moving(d)
      /\ \A i \in r + 1 .. w : s[i].src \in Leaving(d)
      /\ \A i, j \in a + 1 .. e : s[i].src = s[j].src => i = j
      /\ \A i, j \in e + 1 .. r : s[i].src = s[j].src => i = j
      /\ \A i, j \in r + 1 .. w : s[i].src = s[j].src => i = j
      /\ Len(s) \in Nat
  BY DEF Blocks
<1>3. ASSUME NEW i \in 1 .. Len(s), s[i].kind \in Takes
      PROVE  i \in a + 1 .. e \/ i \in e + 1 .. r \/ i \in r + 1 .. w
  <2>1. ~ (i <= a) /\ ~ (i > w)
    BY <1>2, <1>3
  <2>2. QED BY <1>2, <2>1
<1>4. ASSUME NEW i \in 1 .. Len(s), NEW j \in 1 .. Len(s),
             s[i].kind \in Takes, s[j].kind \in Takes, s[i].src = s[j].src
      PROVE  i = j
  <2>1. i \in a + 1 .. e \/ i \in e + 1 .. r \/ i \in r + 1 .. w
    BY <1>3, <1>4
  <2>2. j \in a + 1 .. e \/ j \in e + 1 .. r \/ j \in r + 1 .. w
    BY <1>3, <1>4
  <2>3. CASE i \in a + 1 .. e
    BY <1>1, <1>2, <1>4, <2>2, <2>3
  <2>4. CASE i \in e + 1 .. r
    BY <1>1, <1>2, <1>4, <2>2, <2>4
  <2>5. CASE i \in r + 1 .. w
    BY <1>1, <1>2, <1>4, <2>2, <2>5
  <2>6. QED BY <2>1, <2>3, <2>4, <2>5
<1>5. QED BY <1>4 DEF TakesApart

(* Where the takes up to a removal, or up to a further copy, are.          *)
LEMMA TakesBefore ==
  ASSUME NEW inp, NEW d, NEW s, NEW a, NEW e, NEW r, NEW w, Blocks(inp, d, s, a, e, r, w),
         NEW i \in 1 .. w, NEW l \in 1 .. i, s[l].kind \in Takes
  PROVE  /\ l \in 1 .. Len(s) /\ l > a
         /\ l <= e => s[l].src \in Extra(d)
         /\ l > e /\ l <= r => l \in e + 1 .. r /\ s[l].src \in Moving(d)
         /\ l > r => l \in r + 1 .. w /\ s[l].src \in Leaving(d)
<1>1. /\ a \in Nat /\ e \in Nat /\ r \in Nat /\ w \in Nat /\ w <= Len(s) /\ Len(s) \in Nat
      /\ \A k \in 1 .. Len(s) : k <= a \/ k > w => s[k].kind \notin Takes
      /\ \A k \in a + 1 .. e : s[k].src \in Extra(d)
      /\ \A k \in e + 1 .. r : s[k].src \in Moving(d)
      /\ \A k \in r + 1 .. w : s[k].src \in Leaving(d)
  BY DEF Blocks
<1>2. l \in 1 .. Len(s) /\ l \in 1 .. w
  BY <1>1
<1>3. l > a
  BY <1>1, <1>2
<1>4. /\ l <= e => l \in a + 1 .. e
      /\ l > e /\ l <= r => l \in e + 1 .. r
      /\ l > r => l \in r + 1 .. w
  BY <1>1, <1>2, <1>3
<1>5. QED BY <1>1, <1>2, <1>3, <1>4

LEMMA FirstCopyStays ==
  ASSUME NEW inp, InputOK(inp), NEW d, DraftOK(inp, d), NEW s, NEW a, NEW e, NEW r, NEW w,
         Blocks(inp, d, s, a, e, r, w), NEW i \in a + 1 .. e
  PROVE  \E n \in AppNames(inp) \cup d.c.playable : LeftAlone(s, n, 1, i)
<1>1. a \in Nat /\ e \in Nat /\ r \in Nat /\ w \in Nat /\ e <= r /\ r <= w /\ s[i].src \in Extra(d)
  BY DEF Blocks
<1>2. PICK k \in 1 .. Len(d.wants) : d.wants[k].video.id \in DOMAIN d.c.managed
  BY <1>1 DEF Extra, DraftOK, ExtraOK
<1>3. PICK m \in 1 .. Len(d.items) : d.items[m].video.id = d.wants[k].video.id
  BY <1>2 DEF DraftOK, PlacedUpTo
<1> DEFINE n == d.c.managed[d.items[m].video.id][1]
<1>4. n \in Moving(d)
  BY <1>2, <1>3 DEF Moving
<1>5. n \in AppNames(inp) /\ n \notin Extra(d)
  BY <1>4, TakenApart
<1> HIDE DEF n
<1>6. ASSUME NEW l \in 1 .. i, s[l].kind \in Takes PROVE s[l].src # n
  <2>1. i \in 1 .. w /\ l <= e
    BY <1>1
  <2>2. s[l].src \in Extra(d)
    BY <1>6, <2>1, TakesBefore
  <2>3. QED BY <1>5, <2>2
<1>7. QED BY <1>5, <1>6 DEF LeftAlone

(* The target name of a video is free, or a copy that is deleted before it *)
(* is needed; that of a video that is not on the screen is free.           *)
LEMMA TargetIsFree ==
  ASSUME NEW inp, InputOK(inp), NEW d, DraftOK(inp, d), NEW m \in 1 .. Len(d.items)
  PROVE  LET item == d.items[m]
         IN  /\ item.name # CurrentName(item.video, d.c) =>
                  item.name \notin DOMAIN inp.remote.root \/ item.name \in Extra(d)
             /\ item.video.id \notin DOMAIN d.c.managed => item.name \notin DOMAIN inp.remote.root
<1> DEFINE item == d.items[m]
           v    == item.video
<1>1. v \in inp.library /\ item \in ItemsFor(inp)
  <2> DEFINE S == ItemsFor(inp)
  <2>1. d.items \in Seq(S)
    BY DraftItems
  <2> HIDE DEF S
  <2>2. d.items[m] \in S
    BY <2>1
  <2>3. QED BY <2>2, DraftItems DEF S
<1>2. WellNamed(item, d.c, DOMAIN inp.remote.root \ d.extra)
  BY DEF DraftOK, PlacedUpTo
<1>3. item.name # CurrentName(v, d.c) =>
        item.name \notin DOMAIN inp.remote.root \/ item.name \in Extra(d)
  BY <1>2 DEF WellNamed, Extra
<1>4. ASSUME v.id \notin DOMAIN d.c.managed PROVE item.name \notin DOMAIN inp.remote.root
  <2>1. CurrentName(v, d.c) = None
    BY <1>4, DraftItems
  <2>2. item.name # None
    BY <1>1 DEF ItemsFor, InputOK
  <2>3. PICK p \in 1 .. MaxPrefix : item.name = ActiveName(p, v)
    BY <1>2, <1>4 DEF WellNamed
  <2>4. item.name \notin Extra(d)
    <3>1. ASSUME item.name \in Extra(d) PROVE FALSE
      <4>1. PICK i \in 1 .. Len(d.wants) :
              /\ d.wants[i].video.id \in DOMAIN d.c.managed
              /\ \E k \in 2 .. Len(d.c.managed[d.wants[i].video.id]) :
                   item.name = d.c.managed[d.wants[i].video.id][k]
        BY <3>1 DEF Extra, DraftOK, ExtraOK
      <4> DEFINE u == d.wants[i].video
                 s == d.c.managed[u.id]
      <4>2. PICK k \in 2 .. Len(s) : item.name = s[k]
        BY <4>1
      <4>3. PICK x \in inp.library : x.id = u.id /\ \A l \in 1 .. Len(s) : Matches(x, s[l], inp.remote.root)
        BY <4>1 DEF DraftOK, ClassOK, CopiesApart
      <4>4. u \in inp.library
        BY DEF DraftOK, Schedule, InputOK, WantsFor
      <4>5. x = u
        BY <4>3, <4>4 DEF InputOK, LibraryOK
      <4> HIDE DEF s, u
      <4>6. k \in 1 .. Len(s)
        OBVIOUS
      <4>7. u.sha = item.name.sha
        BY <4>2, <4>3, <4>5, <4>6 DEF Matches
      <4>8. u.sha = v.sha
        BY <2>3, <4>7 DEF ActiveName
      <4>9. PICK j \in 1 .. Len(d.wants) : v = d.wants[j].video
        BY DEF DraftOK, PlacedUpTo
      <4>10. i = j
        BY <4>8, <4>9 DEF DraftOK, Schedule, u
      <4>11. QED BY <1>4, <4>1, <4>9, <4>10
    <3>2. QED BY <3>1
  <2>5. QED BY <1>3, <2>1, <2>2, <2>4
<1>5. QED BY <1>3, <1>4

(* An item that is on time is on the screen when the removals come.        *)
LEMMA OnTimeStays ==
  ASSUME NEW inp, InputOK(inp), NEW d, DraftOK(inp, d), NEW s, NEW a, NEW e, NEW r, NEW w, NEW late,
         Parts(inp, d, s, a, e, r, w, late), NEW i \in r + 1 .. w,
         NEW m \in 1 .. Len(d.items), d.items[m].video \notin late
  PROVE  StillThere(s, i, AppNames(inp) \cup d.c.playable)
<1> DEFINE item == d.items[m]
           v    == item.video
           n    == item.name
<1>1. /\ Blocks(inp, d, s, a, e, r, w)
      /\ a \in Nat /\ e \in Nat /\ r \in Nat /\ w \in Nat /\ a <= e /\ e <= r /\ r <= w
  BY DEF Parts, Blocks
<1>2. i \in 1 .. w /\ i \in Nat
  BY <1>1
<1>3. /\ Extra(d) \cap Moving(d) = {} /\ Extra(d) \cap Leaving(d) = {} /\ Moving(d) \cap Leaving(d) = {}
      /\ Extra(d) \subseteq AppNames(inp) /\ Moving(d) \subseteq AppNames(inp)
      /\ Leaving(d) \subseteq DOMAIN inp.remote.root /\ AppNames(inp) \subseteq DOMAIN inp.remote.root
  BY TakenApart DEF AppNames
<1>4. /\ n # CurrentName(v, d.c) => n \notin DOMAIN inp.remote.root \/ n \in Extra(d)
      /\ v.id \notin DOMAIN d.c.managed => n \notin DOMAIN inp.remote.root
  BY TargetIsFree
<1>5. CASE v.id \notin DOMAIN d.c.managed
  <2>1. PICK j \in 1 .. a : s[j].kind = "activate" /\ s[j].dst = n
    BY <1>5 DEF Parts
  <2>2. ASSUME NEW l \in j + 1 .. i, s[l].kind \in Takes PROVE s[l].src # n
    <3>1. l \in 1 .. i /\ l \in Nat
      BY <1>1, <1>2
    <3>2. \/ s[l].src \in Extra(d)
          \/ s[l].src \in Moving(d)
          \/ s[l].src \in Leaving(d)
      <4>1. l <= e \/ (l > e /\ l <= r) \/ l > r
        BY <1>1, <3>1
      <4>2. QED BY <1>1, <1>2, <2>2, <3>1, <4>1, TakesBefore
    <3>3. s[l].src \in DOMAIN inp.remote.root
      BY <1>3, <3>2
    <3>4. QED BY <1>4, <1>5, <3>3
  <2>3. j \in 1 .. i - 1
    BY <1>1, <1>2
  <2>4. s[j].kind \in Puts /\ LeftAlone(s, s[j].dst, j + 1, i)
    BY <2>1, <2>2 DEF LeftAlone, Puts
  <2>5. QED BY <2>3, <2>4 DEF StillThere
<1>6. CASE v.id \in DOMAIN d.c.managed /\ Moves(d, m)
  <2>1. PICK j \in e + 1 .. r : MovesTo(d, s, j, m)
    BY <1>6 DEF Parts
  <2>2. n \notin DOMAIN inp.remote.root \/ n \in Extra(d)
    BY <1>4, <1>6 DEF Moves
  <2>3. ASSUME NEW l \in j + 1 .. i, s[l].kind \in Takes PROVE s[l].src # n
    <3>1. l \in 1 .. i /\ l > e /\ l \in Nat
      BY <1>1, <1>2
    <3>2. \/ s[l].src \in Moving(d)
          \/ s[l].src \in Leaving(d)
      <4>1. (l > e /\ l <= r) \/ l > r
        BY <1>1, <3>1
      <4>2. QED BY <1>1, <1>2, <2>3, <3>1, <4>1, TakesBefore
    <3>3. s[l].src \in DOMAIN inp.remote.root /\ s[l].src \notin Extra(d)
      BY <1>3, <3>2
    <3>4. QED BY <2>2, <3>3
  <2>4. j \in 1 .. i - 1
    BY <1>1, <1>2
  <2>5. s[j].kind = "reorder" /\ s[j].dst = n
    BY <2>1 DEF MovesTo
  <2>6. s[j].kind \in Puts /\ LeftAlone(s, s[j].dst, j + 1, i)
    BY <2>3, <2>5 DEF LeftAlone, Puts
  <2>7. QED BY <2>4, <2>6 DEF StillThere
<1>7. CASE v.id \in DOMAIN d.c.managed /\ ~ Moves(d, m)
  <2>1. v \in inp.library /\ ClassOK(inp, d.c)
    BY DraftItems DEF DraftOK
  <2> DEFINE first == d.c.managed[v.id][1]
  <2>2. CurrentName(v, d.c) = first /\ CurrentName(v, d.c) # None
    BY <1>7, <2>1, CurrentIsAName
  <2>3. first \in Moving(d)
    BY <1>7 DEF Moving
  <2>4. first \in AppNames(inp)
    BY <1>3, <2>3
  <2>5. ASSUME NEW l \in 1 .. i, s[l].kind \in Takes PROVE s[l].src # first
    <3>1. CASE l <= e
      BY <1>1, <1>2, <1>3, <2>3, <2>5, <3>1, TakesBefore
    <3>2. CASE l > r
      BY <1>1, <1>2, <1>3, <2>3, <2>5, <3>2, TakesBefore
    <3>3. CASE l > e /\ l <= r
      <4>1. l \in e + 1 .. r
        BY <1>1, <3>3
      <4>2. PICK k \in 1 .. Len(d.items) : Moves(d, k) /\ MovesTo(d, s, l, k)
        BY <4>1 DEF Parts
      <4> DEFINE id == v.id
                 jd == d.items[k].video.id
      <4>3. jd \in DOMAIN d.c.managed /\ s[l].src = d.c.managed[jd][1]
        BY <4>2, MoveIsTaken DEF MovesTo
      <4>4. jd # id
        <5>1. k # m
          BY <1>7, <4>2
        <5>2. QED BY <5>1, DraftItems DEF OncePerVideo
      <4>5. id \in DOMAIN d.c.managed
        BY <1>7
      <4> HIDE DEF id, jd
      <4>6. 1 \in 1 .. Len(d.c.managed[id]) /\ 1 \in 1 .. Len(d.c.managed[jd])
        BY <4>3, <4>5 DEF DraftOK, ClassOK, CopiesApart
      <4>7. \A x \in 1 .. Len(d.c.managed[id]), y \in 1 .. Len(d.c.managed[jd]) :
              d.c.managed[id][x] # d.c.managed[jd][y]
        BY <4>3, <4>4, <4>5 DEF DraftOK, ClassOK, CopiesApart
      <4>8. QED BY <4>3, <4>6, <4>7 DEF id
    <3>4. l \in Nat
      BY <1>2
    <3>5. QED BY SMTT(40), <1>1, <3>1, <3>2, <3>3, <3>4
  <2> HIDE DEF first
  <2>6. QED BY <2>4, <2>5 DEF LeftAlone, StillThere
<1>8. QED BY <1>5, <1>6, <1>7

LEMMA PartsGuarded ==
  ASSUME NEW inp, InputOK(inp), NEW d, DraftOK(inp, d), NEW s, NEW a, NEW e, NEW r, NEW w, NEW late,
         Parts(inp, d, s, a, e, r, w, late),
         r < w => Remains(d, s, r, w, late)
  PROVE  Guarded(s, AppNames(inp) \cup d.c.playable)
<1>1. Blocks(inp, d, s, a, e, r, w)
  BY DEF Parts
<1>2. /\ a \in Nat /\ e \in Nat /\ r \in Nat /\ w \in Nat /\ a <= e /\ e <= r /\ r <= w
      /\ \A i \in 1 .. Len(s) : i <= a \/ i > w => s[i].kind \notin Takes
      /\ \A i \in e + 1 .. r : s[i].kind = "reorder"
  BY <1>1 DEF Blocks
<1>3. ASSUME NEW i \in 1 .. Len(s), s[i].kind \in Drops
      PROVE  StillThere(s, i, AppNames(inp) \cup d.c.playable)
  <2>1. s[i].kind \in Takes /\ s[i].kind # "reorder"
    BY <1>3 DEF Drops, Takes
  <2>2. i \in Nat /\ ~ (i <= a) /\ ~ (i > w) /\ ~ (i \in e + 1 .. r)
    BY <1>2, <2>1
  <2>3. CASE i <= e
    <3>1. i \in a + 1 .. e
      BY <1>2, <2>2, <2>3
    <3>2. QED BY <1>1, <3>1, FirstCopyStays DEF StillThere
  <2>4. CASE i > e
    <3>1. i \in r + 1 .. w /\ r < w
      BY <1>2, <2>2, <2>4
    <3>2. CASE \E n \in d.c.playable : \A k \in r + 1 .. w : s[k].src # n
      <4>1. PICK n \in d.c.playable : \A k \in r + 1 .. w : s[k].src # n
        BY <3>2
      <4>2. n \in DOMAIN inp.remote.root \ AppNames(inp)
        BY DEF DraftOK, ClassOK
      <4>3. n \notin Extra(d) /\ n \notin Moving(d)
        BY <4>2, TakenApart
      <4>4. ASSUME NEW l \in 1 .. i, s[l].kind \in Takes PROVE s[l].src # n
        <5>1. i \in 1 .. w /\ l \in Nat
          BY <1>2, <3>1
        <5>2. CASE l <= e
          BY <1>1, <4>3, <4>4, <5>1, <5>2, TakesBefore
        <5>3. CASE l > e /\ l <= r
          BY <1>1, <4>3, <4>4, <5>1, <5>3, TakesBefore
        <5>4. CASE l > r
          <6>1. l \in r + 1 .. w
            BY <1>1, <4>4, <5>1, <5>4, TakesBefore
          <6>2. QED BY <4>1, <6>1
        <5>5. QED BY <1>2, <5>1, <5>2, <5>3, <5>4
      <4>5. QED BY <4>4 DEF LeftAlone, StillThere
    <3>3. CASE \E m \in 1 .. Len(d.items) : d.items[m].video \notin late
      BY <3>1, <3>3, OnTimeStays
    <3>4. QED BY <3>1, <3>2, <3>3 DEF Remains
  <2>5. QED BY <1>2, <2>2, <2>3, <2>4
<1>4. QED BY <1>3 DEF Guarded

-----------------------------------------------------------------------------
(* The staging folder                                                      *)

Staging == {"upload", "deactivate"}

(* The staging folder is there when an action needs it.                    *)
StagingFirst(s, exists) ==
  exists \/ \A i \in 1 .. Len(s) : s[i].kind \in Staging =>
              \E j \in 1 .. i - 1 : s[j].kind = "mkdir_staging"

(* t is s with x before its kth element; O tells where an element was.     *)
Inserted(s, k, x, t, O) ==
  /\ Len(t) = Len(s) + 1 /\ t[k] = x
  /\ \A i \in 1 .. Len(t) : i < k => t[i] = s[i]
  /\ \A i \in k + 1 .. Len(t) : t[i] = s[i - 1]
  /\ \A i \in 1 .. Len(t) : i # k => O[i] \in 1 .. Len(s) /\ t[i] = s[O[i]]
  /\ \A i, j \in 1 .. Len(t) : i # k /\ j # k /\ i < j => O[i] < O[j]
  /\ \A l \in 1 .. Len(s) : \E i \in 1 .. Len(t) : i # k /\ O[i] = l

LEMMA InsertedAt ==
  ASSUME NEW T, NEW s \in Seq(T), NEW k \in 1 .. Len(s), NEW x \in T
  PROVE  /\ InsertAt(s, k, x) \in Seq(T)
         /\ \E O : Inserted(s, k, x, InsertAt(s, k, x), O)
<1> DEFINE n == Len(s)
           h == SubSeq(s, 1, k - 1)
           u == SubSeq(s, k, n)
           g == h \o <<x>>
           t == g \o u
           O == [i \in 1 .. n + 1 |-> IF i < k THEN i ELSE i - 1]
<1>1. InsertAt(s, k, x) = t
  BY DEF InsertAt
<1>2. n \in Nat /\ k \in Nat /\ k >= 1 /\ k <= n
  OBVIOUS
<1>3. h \in Seq(T) /\ Len(h) = k - 1 /\ \A i \in 1 .. k - 1 : h[i] = s[i]
  BY <1>2
<1>4. u \in Seq(T) /\ Len(u) = n - k + 1 /\ \A i \in 1 .. n - k + 1 : u[i] = s[k + i - 1]
  BY <1>2
<1> HIDE DEF h, u, n
<1>5. g \in Seq(T) /\ Len(g) = k /\ g[k] = x /\ \A i \in 1 .. k - 1 : g[i] = s[i]
  BY <1>2, <1>3
<1> HIDE DEF g
<1>6. t \in Seq(T) /\ Joins(g, u, t)
  BY <1>4, <1>5, Joined
<1> HIDE DEF t
<1>7. /\ Len(t) = n + 1 /\ \A i \in 1 .. k : t[i] = g[i]
      /\ \A i \in k + 1 .. n + 1 : i - k \in 1 .. n - k + 1 /\ t[i] = u[i - k]
  BY <1>2, <1>4, <1>5, <1>6 DEF Joins
<1>8. t[k] = x /\ \A i \in 1 .. n + 1 : i < k => t[i] = s[i]
  <2>1. k \in 1 .. k /\ \A i \in 1 .. n + 1 : i < k => i \in 1 .. k /\ i \in 1 .. k - 1
    BY <1>2
  <2>2. t[k] = x
    BY <1>5, <1>7, <2>1
  <2>3. QED BY <1>5, <1>7, <2>1, <2>2
<1>9. \A i \in k + 1 .. n + 1 : t[i] = s[i - 1]
  <2>1. ASSUME NEW i \in k + 1 .. n + 1 PROVE t[i] = s[i - 1]
    <3>1. t[i] = u[i - k] /\ i - k \in 1 .. n - k + 1
      BY <1>7
    <3>2. k + (i - k) - 1 = i - 1
      BY <1>2
    <3>3. QED BY <1>4, <3>1, <3>2
  <2>2. QED BY <2>1
<1>10. \A i \in 1 .. n + 1 : i # k => O[i] \in 1 .. n /\ t[i] = s[O[i]]
  BY <1>2, <1>8, <1>9
<1>11. \A i, j \in 1 .. n + 1 : i # k /\ j # k /\ i < j => O[i] < O[j]
  BY <1>2
<1>12. ASSUME NEW l \in 1 .. n PROVE \E i \in 1 .. n + 1 : i # k /\ O[i] = l
  <2>1. CASE l < k
    <3>1. l \in 1 .. n + 1 /\ l # k /\ O[l] = l
      BY <1>2, <2>1
    <3>2. QED BY <3>1
  <2>2. CASE ~ (l < k)
    <3>1. l + 1 \in 1 .. n + 1 /\ l + 1 # k /\ O[l + 1] = l
      BY <1>2, <2>2
    <3>2. QED BY <3>1
  <2>3. QED BY <2>1, <2>2
<1> HIDE DEF O
<1>13. Inserted(s, k, x, t, O)
  BY <1>7, <1>8, <1>9, <1>10, <1>11, <1>12 DEF Inserted, n
<1>14. QED BY <1>1, <1>6, <1>13

LEMMA InsertionKeeps ==
  ASSUME NEW s, Len(s) \in Nat, NEW k \in 1 .. Len(s), NEW x, x.kind \notin Takes,
         NEW t, NEW O, Inserted(s, k, x, t, O)
  PROVE  /\ TakesApart(s) => TakesApart(t)
         /\ \A playable : Guarded(s, playable) => Guarded(t, playable)
<1> USE DEF Inserted
<1> DEFINE n == Len(s)
<1>1. n \in Nat /\ Len(t) = n + 1 /\ k \in 1 .. n
  OBVIOUS
<1>2. ASSUME TakesApart(s), NEW i \in 1 .. Len(t), NEW j \in 1 .. Len(t),
             t[i].kind \in Takes, t[j].kind \in Takes, t[i].src = t[j].src
      PROVE  i = j
  <2>1. i # k /\ j # k
    BY <1>2
  <2> DEFINE p == O[i]
             q == O[j]
  <2>2. p \in 1 .. Len(s) /\ q \in 1 .. Len(s) /\ t[i] = s[p] /\ t[j] = s[q]
    BY <2>1
  <2> HIDE DEF p, q, Inserted
  <2>3. p = q
    BY <1>2, <2>2 DEF TakesApart
  <2> USE DEF p, q, Inserted
  <2>4. ~ (i < j) /\ ~ (j < i)
    BY <1>1, <2>1, <2>2, <2>3
  <2>5. QED BY <1>1, <2>4
<1>3. ASSUME NEW y, NEW i \in 1 .. Len(t), i # k, NEW b \in 1 .. i, NEW c \in 1 .. O[i],
             \A l \in 1 .. i : l # k /\ l >= b => O[l] >= c,
             LeftAlone(s, y, c, O[i])
      PROVE  LeftAlone(t, y, b, i)
  <2>1. ASSUME NEW l \in b .. i, t[l].kind \in Takes PROVE t[l].src # y
    <3>1. l \in 1 .. Len(t) /\ l \in 1 .. i /\ l # k /\ l >= b
      BY <1>1, <2>1
    <3>2. O[l] \in 1 .. n /\ O[i] \in 1 .. n /\ t[l] = s[O[l]]
      BY <1>3, <3>1
    <3>3. O[l] <= O[i]
      <4>1. CASE l = i
        BY <3>2, <4>1
      <4>2. CASE l # i
        <5>1. l < i
          BY <1>1, <3>1, <4>2
        <5>2. O[l] < O[i]
          BY <1>3, <3>1, <5>1
        <5>3. QED BY <3>2, <5>2
      <4>3. QED BY <4>1, <4>2
    <3>4. O[l] >= c
      BY <1>3, <3>1
    <3>5. O[l] \in c .. O[i]
      BY <1>3, <3>2, <3>3, <3>4
    <3>6. QED BY <1>3, <2>1, <3>2, <3>5 DEF LeftAlone
  <2>2. QED BY <2>1 DEF LeftAlone
<1>4. ASSUME NEW playable, Guarded(s, playable), NEW i \in 1 .. Len(t), t[i].kind \in Drops
      PROVE  StillThere(t, i, playable)
  <2>1. i # k
    BY <1>4 DEF Drops, Takes
  <2>2. O[i] \in 1 .. n /\ t[i] = s[O[i]] /\ O[i] \in Nat
    BY <2>1
  <2>3. StillThere(s, O[i], playable)
    BY <1>4, <2>2 DEF Guarded
  <2>4. CASE \E y \in playable : LeftAlone(s, y, 1, O[i])
    <3>1. PICK y \in playable : LeftAlone(s, y, 1, O[i])
      BY <2>4
    <3>2. 1 \in 1 .. i /\ 1 \in 1 .. O[i]
      BY <1>1, <2>2
    <3>3. \A l \in 1 .. i : l # k /\ l >= 1 => O[l] >= 1
      BY <1>1
    <3>4. LeftAlone(t, y, 1, i)
      BY <1>3, <2>1, <3>1, <3>2, <3>3
    <3>5. QED BY <3>4 DEF StillThere
  <2>5. CASE \E h \in 1 .. O[i] - 1 : s[h].kind \in Puts /\ LeftAlone(s, s[h].dst, h + 1, O[i])
    <3>1. PICK h \in 1 .. O[i] - 1 : s[h].kind \in Puts /\ LeftAlone(s, s[h].dst, h + 1, O[i])
      BY <2>5
    <3>2. h \in 1 .. n
      BY <2>2
    <3>3. PICK j \in 1 .. Len(t) : j # k /\ O[j] = h
      BY <3>2
    <3>4. t[j] = s[h]
      BY <3>3
    <3>5. j < i
      <4>1. O[j] < O[i]
        BY <2>2, <3>3
      <4>2. j # i /\ ~ (i < j)
        BY <2>1, <2>2, <3>2, <3>3, <4>1
      <4>3. QED BY <1>1, <4>2
    <3>6. j \in 1 .. i - 1 /\ j + 1 \in 1 .. i /\ h + 1 \in 1 .. O[i]
      BY <1>1, <2>2, <3>5
    <3>7. \A l \in 1 .. i : l # k /\ l >= j + 1 => O[l] >= h + 1
      <4>1. ASSUME NEW l \in 1 .. i, l # k, l >= j + 1 PROVE O[l] >= h + 1
        <5>1. l \in 1 .. Len(t) /\ j < l
          BY <1>1, <4>1
        <5>2. O[j] < O[l] /\ O[l] \in 1 .. n
          BY <3>3, <4>1, <5>1
        <5>3. QED BY <3>2, <3>3, <5>2
      <4>2. QED BY <4>1
    <3>8. LeftAlone(t, s[h].dst, j + 1, i)
      BY <1>3, <2>1, <3>1, <3>6, <3>7
    <3>9. QED BY <3>1, <3>4, <3>6, <3>8 DEF StillThere
  <2>6. QED BY <2>3, <2>4, <2>5 DEF StillThere
<1>5. QED BY <1>2, <1>4 DEF TakesApart, Guarded

LEMMA StagingDirMade ==
  ASSUME NEW inp, InputOK(inp), NEW s \in Seq(ActionsOf(inp)), NEW exists \in BOOLEAN, NEW playable,
         TakesApart(s), Guarded(s, playable)
  PROVE  LET t == WithStagingDir(s, exists)
         IN  /\ t \in Seq(ActionsOf(inp))
             /\ TakesApart(t)
             /\ Guarded(t, playable)
             /\ StagingFirst(t, exists)
<1> DEFINE needing == {i \in DOMAIN s : s[i].kind \in {"upload", "deactivate"}}
           k == Min(needing)
           x == MkdirStaging
           T == ActionsOf(inp)
<1>1. Len(s) \in Nat /\ DOMAIN s = 1 .. Len(s)
  OBVIOUS
<1>2. CASE exists \/ needing = {}
  <2>1. WithStagingDir(s, exists) = s
    BY <1>2 DEF WithStagingDir
  <2>2. StagingFirst(s, exists)
    BY <1>1, <1>2 DEF StagingFirst, Staging
  <2>3. QED BY <2>1, <2>2
<1>3. CASE ~ (exists \/ needing = {})
  <2> DEFINE t == InsertAt(s, k, x)
  <2>1. WithStagingDir(s, exists) = t
    BY <1>3 DEF WithStagingDir
  <2>2. needing \subseteq Nat /\ needing \subseteq 1 .. Len(s)
    BY <1>1
  <2>3. \A i \in 1 .. Len(s) : s[i].kind \in Staging => i \in needing
    BY <1>1 DEF Staging
  <2> HIDE DEF needing
  <2>4. k \in needing /\ \A y \in needing : k <= y
    BY <1>3, <2>2, LeastNumber
  <2> HIDE DEF k
  <2>5. k \in 1 .. Len(s)
    BY <2>2, <2>4
  <2>6. x \in T /\ x.kind = "mkdir_staging"
    BY QuietActions DEF Quiet, MkdirStaging, Act
  <2> HIDE DEF x, t, T
  <2>7. t \in Seq(T) /\ \E O : Inserted(s, k, x, t, O)
    BY <2>5, <2>6, InsertedAt DEF t, T
  <2>8. PICK O : Inserted(s, k, x, t, O)
    BY <2>7
  <2>9. x.kind \notin Takes
    BY <2>6 DEF Takes
  <2>10. TakesApart(t) /\ Guarded(t, playable)
    BY <1>1, <2>5, <2>8, <2>9, InsertionKeeps
  <2>11. ASSUME NEW i \in 1 .. Len(t), t[i].kind \in Staging
         PROVE  \E j \in 1 .. i - 1 : t[j].kind = "mkdir_staging"
    <3>1. i # k /\ t[k] = x /\ Len(t) = Len(s) + 1
      BY <2>6, <2>8, <2>11 DEF Inserted, Staging
    <3>2. ~ (i < k)
      <4>1. ASSUME i < k PROVE FALSE
        <5>1. t[i] = s[i] /\ i \in 1 .. Len(s)
          BY <1>1, <2>5, <2>8, <3>1, <4>1 DEF Inserted
        <5>2. i \in needing
          BY <2>3, <2>11, <5>1
        <5>3. QED BY <1>1, <2>4, <2>5, <4>1, <5>1, <5>2
      <4>2. QED BY <4>1
    <3>3. k \in 1 .. i - 1
      BY <1>1, <2>5, <3>1, <3>2
    <3>4. QED BY <2>6, <3>1, <3>3
  <2>12. StagingFirst(t, exists)
    BY <2>11 DEF StagingFirst
  <2>13. QED BY <2>1, <2>7, <2>10, <2>12 DEF T
<1>4. QED BY <1>2, <1>3

-----------------------------------------------------------------------------
(* The whole plan                                                          *)

(* What is cleared, sent and shown before anything is taken.               *)
Entering(d, late) ==
  Picked(d.items, {m \in DOMAIN d.items : /\ d.items[m].video \notin late
                                          /\ CurrentName(d.items[m].video, d.c) = None})

Opening(d, cleanup, inTime, late) ==
  cleanup \o [k \in DOMAIN inTime |-> Upload(inTime[k])]
    \o [k \in DOMAIN Entering(d, late) |-> Activate(Entering(d, late)[k])]

(* A shows every item that is on time and not on the screen.               *)
ShowsOnTime(d, A, late) ==
  \A m \in 1 .. Len(d.items) :
    d.items[m].video \notin late /\ d.items[m].video.id \notin DOMAIN d.c.managed =>
      \E j \in 1 .. Len(A) : A[j].kind = "activate" /\ A[j].dst = d.items[m].name

LEMMA MainPartOpens ==
  ASSUME NEW d, NEW cleanup, NEW inTime, NEW late
  PROVE  MainPart(d, cleanup, inTime, late).actions
           = Opening(d, cleanup, inTime, late) \o Mapped(DeleteActive, ByName(d.extra)) \o Reorders(d)
BY DEF MainPart, Opening, Entering, Reorders, Move, Moves, Mapped, ItemsWith

LEMMA OpeningIsQuiet ==
  ASSUME NEW inp, InputOK(inp), NEW d, DraftOK(inp, d), NEW late,
         NEW cleanup \in Seq(Quiet(inp)), NEW inTime \in Seq(inp.library)
  PROVE  /\ Opening(d, cleanup, inTime, late) \in Seq(Quiet(inp))
         /\ ShowsOnTime(d, Opening(d, cleanup, inTime, late), late)
<1> DEFINE I == {m \in DOMAIN d.items : /\ d.items[m].video \notin late
                                        /\ CurrentName(d.items[m].video, d.c) = None}
           x == Entering(d, late)
           U == [k \in DOMAIN inTime |-> Upload(inTime[k])]
           X == [k \in DOMAIN x |-> Activate(x[k])]
           A == Opening(d, cleanup, inTime, late)
           Q == Quiet(inp)
<1>1. d.items \in Seq(ItemsFor(inp)) /\ OncePerVideo(d.items) /\ I \subseteq 1 .. Len(d.items)
      /\ DOMAIN d.items = 1 .. Len(d.items)
  BY DraftItems
<1>2. Some(x, d.items, I)
  <2>1. x = Picked(d.items, I)
    BY DEF Entering
  <2> HIDE DEF I, x
  <2>2. QED BY <1>1, <2>1, ItemsPicked
<1>3. A = cleanup \o U \o X
  BY DEF Opening
<1>4. \A m \in I : Enters(inp, d.items[m])
  BY <1>1, DraftItems
<1>5. \A m \in 1 .. Len(d.items) :
        d.items[m].video \notin late /\ d.items[m].video.id \notin DOMAIN d.c.managed => m \in I
  BY <1>1, DraftItems
<1> HIDE DEF I, x
<1>6. /\ Len(x) \in Nat /\ DOMAIN x = 1 .. Len(x)
      /\ \A k \in 1 .. Len(x) : Enters(inp, x[k])
      /\ \A m \in I : \E k \in 1 .. Len(x) : x[k] = d.items[m]
  BY <1>2, <1>4 DEF Some
<1>7. X \in Seq(Q) /\ Len(X) = Len(x) /\ \A k \in 1 .. Len(x) : X[k] = Activate(x[k])
  <2> DEFINE n == Len(x)
  <2>1. X = [k \in 1 .. n |-> Activate(x[k])] /\ n \in Nat
    BY <1>6
  <2>2. \A k \in 1 .. n : Activate(x[k]) \in Q
    BY <1>6, EntersQuietly
  <2> HIDE DEF n, Q, X
  <2>3. QED BY <2>1, <2>2 DEF n
<1>8. U \in Seq(Q)
  <2>1. \A v \in inp.library : Upload(v) \in Q
    BY QuietActions
  <2> HIDE DEF Q
  <2>2. QED BY <2>1
<1>9. cleanup \in Seq(Q)
  OBVIOUS
<1> HIDE DEF U, X, A, Q
<1> DEFINE h == cleanup \o U
<1>10. h \in Seq(Q)
  BY <1>8, <1>9
<1>11. A = h \o X
  BY <1>3
<1> HIDE DEF h
<1>12. A \in Seq(Q) /\ Joins(h, X, A)
  BY <1>7, <1>10, <1>11, Joined
<1>13. ASSUME NEW m \in 1 .. Len(d.items),
              d.items[m].video \notin late, d.items[m].video.id \notin DOMAIN d.c.managed
       PROVE  \E j \in 1 .. Len(A) : A[j].kind = "activate" /\ A[j].dst = d.items[m].name
  <2>1. PICK k \in 1 .. Len(X) : X[k] = Activate(d.items[m])
    BY <1>5, <1>6, <1>7, <1>13
  <2> DEFINE j == Len(h) + k
  <2>2. /\ Len(h) \in Nat /\ Len(X) \in Nat /\ Len(A) = Len(h) + Len(X)
        /\ \A i \in Len(h) + 1 .. Len(A) : A[i] = X[i - Len(h)]
    BY <1>12 DEF Joins
  <2>3. j \in Len(h) + 1 .. Len(A) /\ j \in 1 .. Len(A) /\ j - Len(h) = k
    BY <2>2
  <2> HIDE DEF j
  <2>4. A[j] = Activate(d.items[m])
    BY <2>1, <2>2, <2>3
  <2>5. Activate(d.items[m]).kind = "activate" /\ Activate(d.items[m]).dst = d.items[m].name
    BY DEF Activate, Act
  <2>6. QED BY <2>3, <2>4, <2>5
<1>14. ShowsOnTime(d, A, late)
  BY <1>13 DEF ShowsOnTime
<1>15. QED BY <1>12, <1>14 DEF A, Q

(* What is playable after the main part, if nothing is late (by its count) *)
(* or the removals leave it there.                                         *)
LEMMA SomethingRemains ==
  ASSUME NEW inp, InputOK(inp), NEW d, DraftOK(inp, d), NEW late, NEW W, NEW wished,
         NEW s, NEW A, NEW R, NEW a, NEW e, NEW r, NEW w,
         InParts(inp, d, A, R, W, s, a, e, r, w), r < w,
         LET isOnTime(item) == item.video \notin late
             playing == d.c.playable \ {x.src : x \in ToSet(wished)}
             remains == Len(ItemsWith(d, isOnTime)) + Cardinality(playing)
         IN  W = IF remains = 0 THEN <<>> ELSE wished
  PROVE  Remains(d, s, r, w, late)
<1> DEFINE I       == {m \in DOMAIN d.items : d.items[m].video \notin late}
           onTime  == Picked(d.items, I)
           playing == d.c.playable \ {x.src : x \in ToSet(wished)}
           remains == Len(onTime) + Cardinality(playing)
<1>1. W = IF remains = 0 THEN <<>> ELSE wished
  BY DEF ItemsWith
<1>2. d.items \in Seq(ItemsFor(inp)) /\ OncePerVideo(d.items) /\ I \subseteq 1 .. Len(d.items)
      /\ \A m \in I : d.items[m].video \notin late
      /\ DOMAIN d.items = 1 .. Len(d.items)
  BY DraftItems
<1> HIDE DEF I
<1>3. Some(onTime, d.items, I)
  BY <1>2, ItemsPicked
<1>4. /\ r \in Nat /\ w \in Nat
      /\ \A i \in r + 1 .. w : i - r \in 1 .. Len(W) /\ s[i] = W[i - r]
  BY DEF InParts, Blocks
<1>5. \A n \in playing : n \in d.c.playable /\ \A x \in ToSet(wished) : x.src # n
  OBVIOUS
<1> HIDE DEF onTime, playing
<1>6. remains # 0 /\ W = wished
  <2>1. r + 1 \in r + 1 .. w
    BY <1>4
  <2>2. Len(W) # 0
    <3>1. (r + 1) - r \in 1 .. Len(W)
      BY <1>4, <2>1
    <3>2. 1 .. 0 = {}
      OBVIOUS
    <3>3. QED BY <3>1, <3>2
  <2>3. W # <<>>
    BY <2>2
  <2>4. QED BY <1>1, <2>3
<1>7. CASE playing = {}
  <2>1. Cardinality(playing) = 0
    BY <1>7, FS_EmptySet
  <2>2. Len(onTime) \in Nat /\ Len(onTime) # 0
    BY <1>3, <1>6, <2>1 DEF Some
  <2>3. 1 \in 1 .. Len(onTime)
    BY <2>2
  <2>4. PICK m \in I : onTime[1] = d.items[m]
    BY <1>3, <2>3 DEF Some
  <2>5. m \in 1 .. Len(d.items) /\ d.items[m].video \notin late
    BY <1>2, <2>4
  <2>6. QED BY <2>5 DEF Remains
<1>8. CASE playing # {}
  <2>1. PICK n \in playing : TRUE
    BY <1>8
  <2>2. ASSUME NEW i \in r + 1 .. w PROVE s[i].src # n
    <3>1. i - r \in 1 .. Len(wished) /\ s[i] = wished[i - r]
      BY <1>4, <1>6
    <3>2. DOMAIN wished = 1 .. Len(wished)
      BY <1>6 DEF InParts
    <3>3. s[i] \in ToSet(wished)
      BY <3>1, <3>2 DEF ToSet
    <3>4. QED BY <1>5, <2>1, <3>3
  <2>3. QED BY <1>5, <2>1, <2>2 DEF Remains
<1>9. QED BY <1>7, <1>8

(* What a plan is like: each action is of the right form, no two of them   *)
(* take the same file, and when one takes a file away something else that  *)
(* can be played is there.                                                 *)
Safe(inp, s) ==
  /\ s \in Seq(ActionsOf(inp))
  /\ TakesApart(s)
  /\ Guarded(s, AppNames(inp) \cup Classify(inp.remote, inp.library).playable)

LEMMA CompletedIsSafe ==
  ASSUME NEW inp, InputOK(inp), NEW d, DraftOK(inp, d), d.c = Classify(inp.remote, inp.library),
         NEW late, \A v \in late : v.id \notin DOMAIN d.c.managed,
         NEW A \in Seq(Quiet(inp)), ShowsOnTime(d, A, late),
         NEW main, main.actions = A \o Mapped(DeleteActive, ByName(d.extra)) \o Reorders(d),
         NEW wished, TakesOf(inp, wished, Leaving(d))
  PROVE  /\ Safe(inp, Completed(d, late, main, wished))
         /\ StagingFirst(Completed(d, late, main, wished), inp.remote.stagingExists)
<1> DEFINE E        == Mapped(DeleteActive, ByName(d.extra))
           R        == Reorders(d)
           isLate(item)   == item.video \in late
           isOnTime(item) == item.video \notin late
           I        == {m \in DOMAIN d.items : d.items[m].video \in late}
           later    == Picked(d.items, I)
           playing  == d.c.playable \ {x.src : x \in ToSet(wished)}
           remains  == Len(ItemsWith(d, isOnTime)) + Cardinality(playing)
           W        == IF remains = 0 THEN <<>> ELSE wished
           kept     == main.ready \cup {x.dst.sha : x \in {y \in ToSet(W) : y.kind = "deactivate"}}
           s0       == main.actions \o W
           s1       == WithLate(d, later, remains, s0)
           s2       == WithStagedAhead(d, kept, s1)
           T        == ActionsOf(inp)
<1>1. Completed(d, late, main, wished) = WithStagingDir(s2, inp.remote.stagingExists)
  BY DEF Completed, ItemsWith, DraftOK
<1>2. TakesOf(inp, E, Extra(d))
  BY ExtraTaken
<1>3. /\ TakesOf(inp, R, Moving(d))
      /\ \A i \in 1 .. Len(R) : R[i].kind = "reorder"
      /\ \A i \in 1 .. Len(R) : \E m \in 1 .. Len(d.items) : Moves(d, m) /\ MovesTo(d, R, i, m)
      /\ \A m \in 1 .. Len(d.items) : Moves(d, m) => \E i \in 1 .. Len(R) : MovesTo(d, R, i, m)
  BY ReordersTaken
<1>4. d.items \in Seq(ItemsFor(inp)) /\ OncePerVideo(d.items) /\ I \subseteq 1 .. Len(d.items)
      /\ DOMAIN d.items = 1 .. Len(d.items)
      /\ \A m \in I : Enters(inp, d.items[m])
  <2>1. d.items \in Seq(ItemsFor(inp)) /\ OncePerVideo(d.items) /\ DOMAIN d.items = 1 .. Len(d.items)
    BY DraftItems
  <2>2. \A m \in I : m \in 1 .. Len(d.items) /\ d.items[m].video.id \notin DOMAIN d.c.managed
    BY <2>1
  <2> HIDE DEF I
  <2>3. \A m \in I : Enters(inp, d.items[m])
    BY <2>2, DraftItems
  <2>4. QED BY <2>1, <2>2, <2>3
<1>5. /\ Len(later) \in Nat
      /\ \A k \in 1 .. Len(later) : Enters(inp, later[k])
  <2> HIDE DEF I
  <2>1. Some(later, d.items, I)
    BY <1>4, ItemsPicked
  <2> HIDE DEF later
  <2>2. QED BY <1>4, <2>1 DEF Some
<1>6. TakesOf(inp, W, Leaving(d))
  <2> HIDE DEF remains
  <2>1. TakesOf(inp, <<>>, Leaving(d))
    <3>1. <<>> \in Seq(T) /\ Len(<<>>) = 0
      OBVIOUS
    <3>2. 1 .. 0 = {}
      OBVIOUS
    <3>3. QED BY <3>1, <3>2 DEF TakesOf
  <2>2. QED BY <2>1
<1>7. W = IF remains = 0 THEN <<>> ELSE wished
  OBVIOUS
<1> HIDE DEF later, W, remains, T
<1>8. s0 \in Seq(T) /\ s0 = A \o E \o R \o W
  <2>1. \A q \in Quiet(inp) : q \in T
    BY DEF Quiet, T
  <2>2. A \in Seq(T)
    <3> DEFINE Q == Quiet(inp)
    <3>1. A \in Seq(Q) /\ Q \subseteq T
      BY <2>1
    <3> HIDE DEF Q
    <3>2. QED BY <3>1
  <2>3. E \in Seq(T) /\ R \in Seq(T) /\ W \in Seq(T)
    BY <1>2, <1>3, <1>6 DEF TakesOf, T
  <2> HIDE DEF E, R
  <2>4. s0 = A \o E \o R \o W
    BY DEF E, R
  <2>5. A \o E \o R \o W \in Seq(T)
    BY <2>2, <2>3
  <2>6. QED BY <2>4, <2>5
<1> HIDE DEF s0, kept
<1>9. Continues(inp, s0, s1)
  BY <1>5, <1>8, LateContinues DEF T
<1> HIDE DEF s1
<1>10. Continues(inp, s0, s2)
  BY <1>8, <1>9, StagedAheadContinues DEF T, DraftOK
<1> HIDE DEF s2, E, R
<1>11. s2 \in Seq(T)
  BY <1>10 DEF Continues, T
<1>12. Continues(inp, A \o E \o R \o W, s2)
  BY <1>8, <1>10
<1>13. PICK a, e, r, w : InParts(inp, d, A, R, W, s2, a, e, r, w)
  BY <1>2, <1>3, <1>6, <1>12, InBlocks
<1>14. Blocks(inp, d, s2, a, e, r, w)
  BY <1>13 DEF InParts
<1>15. Parts(inp, d, s2, a, e, r, w, late)
  <2>1. /\ a = Len(A)
        /\ \A i \in 1 .. a : s2[i] = A[i]
        /\ \A i \in 1 .. Len(R) : e + i \in e + 1 .. r /\ s2[e + i] = R[i]
        /\ \A i \in e + 1 .. r : i - e \in 1 .. Len(R) /\ s2[i] = R[i - e]
    BY <1>13 DEF InParts
  <2>2. \A m \in 1 .. Len(d.items) :
          d.items[m].video \notin late /\ d.items[m].video.id \notin DOMAIN d.c.managed =>
            \E j \in 1 .. a : s2[j].kind = "activate" /\ s2[j].dst = d.items[m].name
    BY <2>1 DEF ShowsOnTime
  <2>3. ASSUME NEW m \in 1 .. Len(d.items), Moves(d, m)
        PROVE  \E j \in e + 1 .. r : MovesTo(d, s2, j, m)
    <3>1. PICK i \in 1 .. Len(R) : MovesTo(d, R, i, m)
      BY <1>3, <2>3
    <3>2. e + i \in e + 1 .. r /\ s2[e + i] = R[i]
      BY <2>1
    <3>3. MovesTo(d, s2, e + i, m)
      BY <3>1, <3>2 DEF MovesTo
    <3>4. QED BY <3>2, <3>3
  <2>4. ASSUME NEW j \in e + 1 .. r
        PROVE  \E m \in 1 .. Len(d.items) : Moves(d, m) /\ MovesTo(d, s2, j, m)
    <3>1. j - e \in 1 .. Len(R) /\ s2[j] = R[j - e]
      BY <2>1
    <3>2. PICK m \in 1 .. Len(d.items) : Moves(d, m) /\ MovesTo(d, R, j - e, m)
      BY <1>3, <3>1
    <3>3. MovesTo(d, s2, j, m)
      BY <3>1, <3>2 DEF MovesTo
    <3>4. QED BY <3>2, <3>3
  <2>5. QED BY <1>14, <2>2, <2>3, <2>4 DEF Parts
<1>16. r < w => Remains(d, s2, r, w, late)
  BY <1>7, <1>13, SomethingRemains DEF remains, playing, isOnTime
<1>17. TakesApart(s2)
  BY <1>14, BlocksApart
<1>18. Guarded(s2, AppNames(inp) \cup d.c.playable)
  BY <1>15, <1>16, PartsGuarded
<1>19. inp.remote.stagingExists \in BOOLEAN
  BY DEF InputOK
<1>20. QED BY <1>1, <1>11, <1>17, <1>18, <1>19, StagingDirMade DEF Safe, T

(* Every plan: its actions are of the right form, no two of them take the  *)
(* same file from the video folder, whenever one takes a film away another *)
(* one that can be played is there (planner.py:9, "keeps the invariants    *)
(* after every action"), and the staging folder is made before it is used. *)
THEOREM PlansAreSafe ==
  ASSUME NEW inp, InputOK(inp)
  PROVE  Safe(inp, Plan(inp)) /\ StagingFirst(Plan(inp), inp.remote.stagingExists)
<1> DEFINE d        == DraftIn(inp)
           required == Required(d)
           cleanup  == Cleanup(d, required)
           inTime   == Fitting(required, Usage(inp.remote, cleanup), inp.maxBytes)
           late     == ToSet(required) \ ToSet(inTime)
           main     == MainPart(d, cleanup, inTime, late)
           wished   == Removals(inp.remote, inp.library, d.c, inp.requests, Placed(d), d.keep, main.ready)
<1>1. Plan(inp) = PlanUploading(d, cleanup, required, inTime)
  BY DEF Plan, DraftIn
<1>2. DraftOK(inp, d)
  BY DraftIsOK
<1>3. d.c = Classify(inp.remote, inp.library) /\ d.inp = inp
  BY DEF DraftIn, DraftOf
<1>4. PlanUploading(d, cleanup, required, inTime) = Completed(d, late, main, wished)
  BY <1>3 DEF PlanUploading
<1> HIDE DEF d
<1>5. required \in Seq(inp.library) /\ \A k \in 1 .. Len(required) : required[k].id \notin DOMAIN d.c.managed
  BY <1>2, RequiredIsMissing
<1>6. cleanup \in Seq(Quiet(inp))
  BY <1>2, CleanupIsQuiet
<1> HIDE DEF required, cleanup
<1>7. inTime \in Seq(inp.library)
  BY <1>5, FittingIsSome
<1>8. \A v \in late : v.id \notin DOMAIN d.c.managed
  BY <1>5 DEF ToSet
<1> HIDE DEF inTime, late
<1> DEFINE A == Opening(d, cleanup, inTime, late)
<1>9. A \in Seq(Quiet(inp)) /\ ShowsOnTime(d, A, late)
  BY <1>2, <1>6, <1>7, OpeningIsQuiet
<1>10. main.actions = A \o Mapped(DeleteActive, ByName(d.extra)) \o Reorders(d)
  BY MainPartOpens
<1> HIDE DEF main, A
<1>11. TakesOf(inp, wished, Leaving(d))
  BY <1>2, RemovalsTaken
<1> HIDE DEF wished
<1>12. /\ Safe(inp, Completed(d, late, main, wished))
       /\ StagingFirst(Completed(d, late, main, wished), inp.remote.stagingExists)
  BY <1>2, <1>3, <1>8, <1>9, <1>10, <1>11, CompletedIsSafe
<1>13. QED BY <1>1, <1>4, <1>12

-----------------------------------------------------------------------------
(* When nothing is left to do                                              *)

(* No two videos have one title and one content, and every name that       *)
(* speaks of a video is a copy of it...                                    *)
OwnTitles(inp) ==
  /\ \A v, w \in inp.library : v.slug = w.slug /\ v.sha = w.sha => v = w
  /\ \A n \in DOMAIN inp.remote.root \ AppNames(inp) :
       \A v \in inp.library : v.slug # n.slug \/ v.sha # n.sha

(* ... and no .part may still be growing.                                  *)
Plain(inp) == OwnTitles(inp) /\ BusyContents(inp.remote, inp.now) = {}

(* The video a name of the app's belongs to.                               *)
OwnerIn(inp, n) ==
  LET matching == {v \in {u \in inp.library : u.slug = n.slug /\ u.sha = n.sha} :
                     ~ inp.remote.root[n].isDir /\ v.size = inp.remote.root[n].size}
  IN  CHOOSE v \in matching : \A w \in matching : v.id <= w.id

(* Every copy is in the list of its video.                                 *)
LEMMA EveryCopyIsListed ==
  ASSUME NEW inp, InputOK(inp), NEW n \in AppNames(inp)
  PROVE  LET managed == Classify(inp.remote, inp.library).managed
         IN  \E id \in DOMAIN managed : \E k \in 1 .. Len(managed[id]) : managed[id][k] = n
<1> DEFINE app     == AppNames(inp)
           own(m)  == OwnerIn(inp, m).id
           managed == Classify(inp.remote, inp.library).managed
<1>1. managed = [id \in {own(m) : m \in app} |-> ByName({m \in app : own(m) = id})]
  <2> DEFINE root        == inp.remote.root
             matching(m) == {v \in {u \in inp.library : u.slug = m.slug /\ u.sha = m.sha} :
                               ~ root[m].isDir /\ v.size = root[m].size}
             named       == {m \in DOMAIN root : matching(m) # {}}
  <2>1. managed = [id \in {own(m) : m \in named} |-> ByName({m \in named : own(m) = id})]
    BY DEF Classify, OwnerIn
  <2>2. named = app
    BY DEF AppNames, Matches
  <2> HIDE DEF managed, named, app
  <2>3. QED BY <2>1, <2>2
<1>2. n \in app /\ app \in SUBSET DOMAIN inp.remote.root
  BY DEF AppNames
<1> HIDE DEF app, managed
<1> DEFINE id     == own(n)
           copies == {m \in app : own(m) = id}
<1>3. id \in DOMAIN managed /\ managed[id] = ByName(copies) /\ n \in copies
  BY <1>1, <1>2
<1>4. copies \in SUBSET DOMAIN inp.remote.root
  BY <1>2
<1> HIDE DEF copies, id
<1>5. IsFiniteSet(copies) /\ copies \subseteq NamesFor(inp.library)
  BY <1>4, FS_Subset DEF InputOK
<1>6. Enumerates(ByName(copies), copies)
  BY <1>5, ByNameEnumerates DEF InputOK
<1>7. \E k \in 1 .. Len(managed[id]) : managed[id][k] = n
  BY <1>3, <1>6 DEF Enumerates
<1>8. QED BY <1>3, <1>7 DEF managed

(* A name that a video to play could have is its first copy, another copy  *)
(* of it, or free.                                                         *)
LEMMA OnlyItsOwnName ==
  ASSUME NEW inp, InputOK(inp), OwnTitles(inp),
         NEW c, c = Classify(inp.remote, inp.library),
         NEW ids, NEW v \in inp.library, v.id \in ids, NEW p,
         ActiveName(p, v) \in DOMAIN inp.remote.root \ FurtherCopies(c, ids)
  PROVE  ActiveName(p, v) = CurrentName(v, c)
<1> DEFINE n == ActiveName(p, v)
           managed == c.managed
<1>1. n.slug = v.slug /\ n.sha = v.sha
  BY DEF ActiveName
<1> HIDE DEF n
<1>2. n \in AppNames(inp)
  BY <1>1 DEF OwnTitles, n
<1>3. PICK id \in DOMAIN managed : \E k \in 1 .. Len(managed[id]) : managed[id][k] = n
  BY <1>2, EveryCopyIsListed
<1>4. PICK k \in 1 .. Len(managed[id]) : managed[id][k] = n
  BY <1>3
<1>5. ClassOK(inp, c)
  BY ClassifyIsOK
<1>6. PICK u \in inp.library : u.id = id /\ \A j \in 1 .. Len(managed[id]) : Matches(u, managed[id][j], inp.remote.root)
  BY <1>5 DEF ClassOK, CopiesApart
<1>7. u = v
  <2>1. Matches(u, n, inp.remote.root)
    BY <1>4, <1>6
  <2>2. u.slug = v.slug /\ u.sha = v.sha
    BY <1>1, <2>1 DEF Matches
  <2>3. QED BY <1>6, <2>2 DEF OwnTitles
<1>8. managed[id] \in Seq(AppNames(inp)) /\ Len(managed[id]) >= 1
  BY <1>5 DEF ClassOK, CopiesApart
<1>9. k = 1
  <2>1. ASSUME k # 1 PROVE FALSE
    <3> DEFINE s == managed[id]
               S == AppNames(inp)
    <3>1. s \in Seq(S) /\ Len(s) >= 1 /\ k \in 1 .. Len(s)
      BY <1>8
    <3> HIDE DEF s, S
    <3>2. k - 1 \in DOMAIN Tail(s) /\ Tail(s)[k - 1] = s[k]
      BY <2>1, <3>1
    <3>3. n \in ToSet(Tail(s))
      BY <1>4, <3>2 DEF ToSet, s
    <3>4. n \in FurtherCopies(c, ids)
      BY <1>6, <1>7, <3>3 DEF FurtherCopies, s
    <3>5. QED BY <3>4 DEF n
  <2>2. QED BY <2>1
<1>10. v.id \in DOMAIN c.managed /\ CurrentName(v, c) = managed[id][1]
  BY <1>5, <1>6, <1>7, CurrentIsAName
<1>11. QED BY <1>4, <1>9, <1>10 DEF n

-----------------------------------------------------------------------------
(* Each video gets the name it is to have.                                 *)
AsWanted(inp, wants, prefixes, k, items) ==
  /\ items \in Seq(ItemsFor(inp)) /\ Len(items) = k
  /\ \A m \in 1 .. k : /\ items[m].video = wants[m].video
                       /\ items[m].name = ActiveName(prefixes[wants[m].video.id], wants[m].video)

LEMMA NextAsWanted ==
  ASSUME NEW inp, InputOK(inp), NEW c, ClassOK(inp, c),
         NEW wants, Schedule(wants, inp.wants), NEW occupied, NEW prefixes,
         \A i \in 1 .. Len(wants) : prefixes[wants[i].video.id] \in 1 .. MaxPrefix,
         \A i \in 1 .. Len(wants) : \A p : ActiveName(p, wants[i].video) \in occupied =>
           ActiveName(p, wants[i].video) = CurrentName(wants[i].video, c),
         NEW i \in 1 .. Len(wants), NEW items, AsWanted(inp, wants, prefixes, i - 1, items)
  PROVE  AsWanted(inp, wants, prefixes, i, PlaceNext(items, i, wants, c, prefixes, occupied, {}))
<1> DEFINE next     == PlaceNext(items, i, wants, c, prefixes, occupied, {})
           v        == wants[i].video
           current  == CurrentName(v, c)
           wanted   == prefixes[v.id]
           name     == ActiveName(wanted, v)
           item     == [video |-> v, name |-> name]
           clash(n) == \/ \E k \in DOMAIN items : items[k].name = n
                       \/ n \in occupied /\ n # current
<1>1. /\ items \in Seq(ItemsFor(inp)) /\ Len(items) = i - 1 /\ DOMAIN items = 1 .. i - 1
      /\ i \in Nat /\ Len(wants) \in Nat /\ i >= 1 /\ i <= Len(wants)
  BY DEF AsWanted, Schedule
<1>2. \A k \in 1 .. i - 1 : k \in 1 .. Len(wants) /\ k # i
  BY <1>1
<1>3. \A k \in 1 .. i - 1 : items[k].name # name
  <2>1. ASSUME NEW k \in 1 .. i - 1, items[k].name = name PROVE FALSE
    <3>1. items[k].name = ActiveName(prefixes[wants[k].video.id], wants[k].video)
      BY <1>1 DEF AsWanted
    <3>2. items[k].name.sha = wants[k].video.sha
      BY <3>1 DEF ActiveName
    <3>3. name.sha = v.sha
      BY DEF ActiveName
    <3>4. wants[k].video.sha = wants[i].video.sha
      BY <2>1, <3>2, <3>3
    <3>5. QED BY <1>2, <3>4 DEF Schedule
  <2>2. QED BY <2>1
<1>4. ~ clash(name)
  BY <1>1, <1>3
<1>5. v \in inp.library /\ wanted \in Nat
  <2>1. wants[i] \in inp.wants /\ wanted \in 1 .. MaxPrefix
    BY DEF Schedule
  <2>2. QED BY <2>1, PrefixAssumption DEF InputOK, WantsFor
<1>6. name \in NamesFor(inp.library) /\ name # None
  <2>1. name \in NamesFor(inp.library)
    <3> HIDE DEF v, wanted
    <3>1. QED BY <1>5, NameOfVideo
  <2>2. QED BY <2>1 DEF InputOK
<1>7. next = Append(items, item)
  BY <1>4, <1>6 DEF PlaceNext
<1>8. item \in ItemsFor(inp) /\ item.video = v /\ item.name = name
  BY <1>5, <1>6 DEF ItemsFor
<1> HIDE DEF next, item, name, v
<1> DEFINE T == ItemsFor(inp)
<1>9. items \in Seq(T) /\ item \in T
  BY <1>1, <1>8
<1> HIDE DEF T
<1>10. /\ next \in Seq(T) /\ Len(next) = i /\ next[i] = item
       /\ \A m \in 1 .. i - 1 : next[m] = items[m]
  BY <1>1, <1>7, <1>9
<1>11. \A m \in 1 .. i : m = i \/ m \in 1 .. i - 1
  BY <1>1
<1>12. ASSUME NEW m \in 1 .. i
       PROVE  /\ next[m].video = wants[m].video
              /\ next[m].name = ActiveName(prefixes[wants[m].video.id], wants[m].video)
  <2>1. CASE m = i
    BY <1>8, <1>10, <2>1 DEF v, name
  <2>2. CASE m # i
    <3>1. m \in 1 .. i - 1 /\ next[m] = items[m]
      BY <1>10, <1>11, <2>2
    <3>2. QED BY <3>1 DEF AsWanted
  <2>3. QED BY <2>1, <2>2
<1>13. AsWanted(inp, wants, prefixes, i, next)
  BY <1>10, <1>12 DEF AsWanted, T
<1>14. QED BY <1>13 DEF next

LEMMA AllAsWanted ==
  ASSUME NEW inp, InputOK(inp), NEW c, ClassOK(inp, c),
         NEW wants, Schedule(wants, inp.wants), NEW occupied, NEW prefixes,
         \A i \in 1 .. Len(wants) : prefixes[wants[i].video.id] \in 1 .. MaxPrefix,
         \A i \in 1 .. Len(wants) : \A p : ActiveName(p, wants[i].video) \in occupied =>
           ActiveName(p, wants[i].video) = CurrentName(wants[i].video, c)
  PROVE  AsWanted(inp, wants, prefixes, Len(wants), PlacedItems(wants, c, prefixes, occupied, {}))
<1> DEFINE n == Len(wants)
           step(items, k) == PlaceNext(items, k, wants, c, prefixes, occupied, {})
<1>1. n \in Nat
  BY DEF Schedule
<1>2. PICK placed : PlacedBy(wants, c, prefixes, occupied, {}, placed)
  BY PlacedStepByStep
<1>3. placed[0] = <<>> /\ \A k \in 1 .. n : placed[k] = step(placed[k - 1], k)
  BY <1>2 DEF PlacedBy
<1>4. \A k \in 1 .. n : AsWanted(inp, wants, prefixes, k - 1, placed[k - 1]) =>
        AsWanted(inp, wants, prefixes, k, step(placed[k - 1], k))
  BY NextAsWanted
<1> HIDE DEF step, n
<1> DEFINE Good == {k \in 0 .. n : AsWanted(inp, wants, prefixes, k, placed[k])}
<1>5. 0 \in Good
  <2>1. <<>> \in Seq(ItemsFor(inp)) /\ Len(<<>>) = 0 /\ 1 .. 0 = {}
    OBVIOUS
  <2>2. AsWanted(inp, wants, prefixes, 0, <<>>)
    BY <2>1 DEF AsWanted
  <2>3. QED BY <1>1, <1>3, <2>2
<1>6. \A k \in 1 .. n : k - 1 \in Good => k \in Good
  <2>1. \A k \in 1 .. n : k \in 0 .. n
    BY <1>1
  <2>2. QED BY <1>3, <1>4, <2>1
<1>7. n \in Good
  <2> HIDE DEF Good
  <2>1. \A k \in 0 .. n : k \in Good
    BY <1>1, <1>5, <1>6, Climb
  <2>2. QED BY <1>1, <2>1
<1>8. QED BY <1>2, <1>7 DEF PlacedBy, n

-----------------------------------------------------------------------------
(* A plan with no action                                                   *)

LEMMA JoinedEmpty ==
  ASSUME NEW T, NEW x \in Seq(T), NEW y \in Seq(T), x \o y = <<>>
  PROVE  x = <<>> /\ y = <<>>
<1>1. Len(x) \in Nat /\ Len(y) \in Nat /\ Len(x \o y) = Len(x) + Len(y)
  OBVIOUS
<1>2. Len(x \o y) = 0
  OBVIOUS
<1>3. Len(x) = 0 /\ Len(y) = 0
  BY <1>1, <1>2
<1>4. QED BY <1>3

LEMMA NothingListed ==
  ASSUME NEW S, NEW s, Enumerates(s, S), s = <<>>
  PROVE  S = {}
<1>1. 1 .. Len(s) = {}
  OBVIOUS
<1>2. QED BY <1>1 DEF Enumerates

LEMMA NothingPicked ==
  ASSUME NEW X, NEW items \in Seq(X), NEW I, I \subseteq DOMAIN items
  PROVE  Picked(items, I) = <<>> <=> I = {}
<1> DEFINE m  == Cardinality(I)
           at == Ascending(I)
           t  == Picked(items, I)
<1>1. /\ m \in Nat /\ at \in [1 .. m -> I]
      /\ \A x \in I : \E i \in 1 .. m : at[i] = x
      /\ t \in Seq(X) /\ Len(t) = m
  BY PickedInOrder
<1> HIDE DEF m, at, t
<1>2. ASSUME t = <<>> PROVE I = {}
  <2>1. Len(t) = 0 /\ 1 .. 0 = {}
    BY <1>2
  <2>2. m = 0
    BY <1>1, <2>1
  <2>3. QED BY <1>1, <2>1, <2>2
<1>3. ASSUME I = {} PROVE t = <<>>
  <2>1. 1 .. m = {}
    BY <1>1, <1>3
  <2>2. m # 0 => 1 \in 1 .. m
    BY <1>1
  <2>3. Len(t) = 0
    BY <1>1, <2>1, <2>2
  <2>4. QED BY <1>1, <2>3
<1>4. QED BY <1>2, <1>3 DEF t

LEMMA NoFolderMade ==
  ASSUME NEW T, NEW s \in Seq(T), MkdirStaging \in T, NEW exists, WithStagingDir(s, exists) = <<>>
  PROVE  s = <<>>
<1> DEFINE needing == {i \in DOMAIN s : s[i].kind \in {"upload", "deactivate"}}
           k == Min(needing)
           x == MkdirStaging
<1>1. CASE exists \/ needing = {}
  BY <1>1 DEF WithStagingDir
<1>2. CASE ~ (exists \/ needing = {})
  <2> DEFINE t == InsertAt(s, k, x)
  <2>1. t = <<>>
    BY <1>2 DEF WithStagingDir
  <2>2. needing \subseteq Nat /\ needing \subseteq 1 .. Len(s)
    OBVIOUS
  <2> HIDE DEF needing
  <2>3. k \in needing
    BY <1>2, <2>2, LeastNumber
  <2> HIDE DEF k, x
  <2>4. k \in 1 .. Len(s) /\ x \in T
    BY <2>2, <2>3 DEF x
  <2> HIDE DEF t
  <2>5. PICK O : Inserted(s, k, x, t, O)
    BY <2>4, InsertedAt DEF t
  <2>6. Len(t) = Len(s) + 1 /\ Len(s) \in Nat
    BY <2>5 DEF Inserted
  <2>7. Len(t) = 0
    BY <2>1
  <2> DEFINE a == Len(s)
             b == Len(t)
  <2>8. b = a + 1 /\ a \in Nat /\ b = 0
    BY <2>6, <2>7
  <2> HIDE DEF a, b
  <2>9. FALSE
    BY <2>8
  <2>10. QED BY <2>9
<1>3. QED BY <1>1, <1>2

(* If nothing is there after the last of some steps, and what was there    *)
(* stays, nothing was there before.                                        *)
LEMMA EmptyThroughout ==
  ASSUME NEW n \in Nat, NEW after, after[n] = <<>>,
         \A k \in 1 .. n : after[k - 1] # <<>> => after[k] # <<>>
  PROVE  \A k \in 0 .. n : after[k] = <<>>
<1>1. ASSUME NEW j \in 0 .. n, after[j] # <<>> PROVE FALSE
  <2> DEFINE Good == {k \in 0 .. n : k < j \/ after[k] # <<>>}
  <2>1. 0 \in Good
    <3>1. j = 0 \/ 0 < j
      OBVIOUS
    <3>2. QED BY <1>1, <3>1
  <2>2. \A k \in 1 .. n : k - 1 \in Good => k \in Good
    <3>1. ASSUME NEW k \in 1 .. n, k - 1 \in Good PROVE k \in Good
      <4>1. k \in 0 .. n /\ (k < j \/ k = j \/ ~ (k - 1 < j))
        OBVIOUS
      <4>2. QED BY <1>1, <3>1, <4>1
    <3>2. QED BY <3>1
  <2> HIDE DEF Good
  <2>3. n \in Good
    BY <2>1, <2>2, Climb
  <2>4. n < j
    BY <2>3 DEF Good
  <2>5. QED BY <2>4
<1>2. QED BY <1>1

(* What comes late and would fit is entered.                               *)
LEMMA NothingEnters ==
  ASSUME NEW inp, InputOK(inp), NEW d, NEW remains \in Nat, remains # 0,
         NEW later, Len(later) \in Nat, \A k \in 1 .. Len(later) : Enters(inp, later[k]),
         WithLate(d, later, remains, <<>>) = <<>>
  PROVE  \A k \in 1 .. Len(later) : ~ Fits(d, <<>>, later[k].video)
<1> DEFINE n == Len(later)
           T == ActionsOf(inp)
           u(k) == Upload(later[k].video)
           v(k) == Activate(later[k])
<1>1. <<>> \in Seq(T)
  OBVIOUS
<1>2. PICK after : /\ EnteredBy(d, later, remains, <<>>, after)
                   /\ \A k \in 0 .. n : Continues(inp, <<>>, after[k])
  BY <1>1, LateStepByStep
<1>3. /\ \A k \in 1 .. n : after[k] = Entered(d, remains, after[k - 1], later[k])
      /\ after[n] = <<>>
  BY <1>2 DEF EnteredBy
<1>4. \A k \in 0 .. n : after[k] \in Seq(T)
  BY <1>2 DEF Continues
<1>5. \A k \in 1 .. n : k - 1 \in 0 .. n /\ k \in 0 .. n
  OBVIOUS
<1>6. \A k \in 1 .. n : u(k) \in T /\ v(k) \in T
  BY EntersQuietly DEF Quiet
<1> HIDE DEF T
<1>7. \A k \in 1 .. n : \A s \in Seq(T) : s \o <<u(k), v(k)>> # <<>>
  <2>1. ASSUME NEW k \in 1 .. n, NEW s \in Seq(T) PROVE s \o <<u(k), v(k)>> # <<>>
    <3> DEFINE x == u(k)
               y == v(k)
    <3>1. x \in T /\ y \in T
      BY <1>6
    <3> HIDE DEF x, y
    <3>2. s \o <<x, y>> = Append(Append(s, x), y) /\ Append(s, x) \in Seq(T)
      BY <3>1, TwoMore
    <3>3. Append(Append(s, x), y) # <<>>
      BY <3>1, <3>2
    <3>4. QED BY <3>2, <3>3 DEF x, y
  <2>2. QED BY <2>1
<1>8. \A k \in 1 .. n : \/ after[k] = after[k - 1]
                        \/ after[k] = after[k - 1] \o <<u(k), v(k)>>
  BY <1>3 DEF Entered
<1> HIDE DEF u, v
<1>9. \A k \in 1 .. n : after[k - 1] # <<>> => after[k] # <<>>
  BY <1>4, <1>5, <1>7, <1>8
<1>10. \A k \in 0 .. n : after[k] = <<>>
  BY <1>3, <1>9, EmptyThroughout
<1>11. ASSUME NEW k \in 1 .. n, Fits(d, <<>>, later[k].video) PROVE FALSE
  <2>1. after[k - 1] = <<>> /\ after[k] = <<>>
    BY <1>5, <1>10
  <2>2. remains > 0
    OBVIOUS
  <2>3. after[k] = <<>> \o <<u(k), v(k)>>
    BY <1>3, <1>11, <2>1, <2>2 DEF Entered, u, v
  <2>4. QED BY <1>1, <1>7, <2>1, <2>3 DEF T
<1>12. QED BY <1>11

(* Something goes on playing: an item on time, or what the removals leave. *)
Keeps(d, late, wished) ==
  \/ \E m \in 1 .. Len(d.items) : d.items[m].video \notin late
  \/ d.c.playable \ {x.src : x \in ToSet(wished)} # {}

(* Then nothing is left to remove or to stage ahead, and no late item fits. *)
NothingMore(d, late, wished, ready) ==
  /\ wished = <<>>
  /\ WithStagedAhead(d, ready, <<>>) = <<>>
  /\ \A m \in 1 .. Len(d.items) :
       d.items[m].video \in late => ~ Fits(d, <<>>, d.items[m].video)

LEMMA CompletedWithNothing ==
  ASSUME NEW inp, InputOK(inp), NEW d, DraftOK(inp, d), d.c = Classify(inp.remote, inp.library),
         NEW late, \A v \in late : v.id \notin DOMAIN d.c.managed,
         NEW A \in Seq(Quiet(inp)),
         NEW main, main.actions = A \o Mapped(DeleteActive, ByName(d.extra)) \o Reorders(d),
         NEW wished, TakesOf(inp, wished, Leaving(d)),
         Completed(d, late, main, wished) = <<>>
  PROVE  /\ A = <<>>
         /\ Mapped(DeleteActive, ByName(d.extra)) = <<>>
         /\ Reorders(d) = <<>>
         /\ Keeps(d, late, wished) => NothingMore(d, late, wished, main.ready)
<1> DEFINE E        == Mapped(DeleteActive, ByName(d.extra))
           R        == Reorders(d)
           I        == {m \in DOMAIN d.items : d.items[m].video \in late}
           J        == {m \in DOMAIN d.items : d.items[m].video \notin late}
           later    == Picked(d.items, I)
           onTime   == Picked(d.items, J)
           playing  == d.c.playable \ {x.src : x \in ToSet(wished)}
           remains  == Len(onTime) + Cardinality(playing)
           W        == IF remains = 0 THEN <<>> ELSE wished
           moved    == {y \in ToSet(W) : y.kind = "deactivate"}
           kept     == main.ready \cup {x.dst.sha : x \in moved}
           s0       == main.actions \o W
           s1       == WithLate(d, later, remains, s0)
           s2       == WithStagedAhead(d, kept, s1)
           T        == ActionsOf(inp)
           lasts    == J # {} \/ playing # {}
<1>1. Completed(d, late, main, wished) = WithStagingDir(s2, inp.remote.stagingExists)
  BY DEF Completed, ItemsWith, DraftOK
<1>2. TakesOf(inp, E, Extra(d)) /\ TakesOf(inp, R, Moving(d))
  BY ExtraTaken, ReordersTaken
<1>3. d.items \in Seq(ItemsFor(inp)) /\ DOMAIN d.items = 1 .. Len(d.items) /\ OncePerVideo(d.items)
  BY DraftItems
<1>4. I \subseteq DOMAIN d.items /\ J \subseteq DOMAIN d.items
  OBVIOUS
<1>5. \A m \in I : Enters(inp, d.items[m])
  BY <1>3, DraftItems
<1> HIDE DEF I, J
<1>6. Some(later, d.items, I) /\ (later \in Seq(ItemsFor(inp)))
  BY <1>3, <1>4, ItemsPicked, PickedInOrder
<1> HIDE DEF later
<1>7. Len(later) \in Nat /\ \A k \in 1 .. Len(later) : Enters(inp, later[k])
  BY <1>5, <1>6 DEF Some
<1>8. Len(onTime) \in Nat /\ (J # {} => Len(onTime) # 0)
  <2>1. onTime \in Seq(ItemsFor(inp))
    BY <1>3, <1>4, PickedInOrder
  <2>2. onTime = <<>> <=> J = {}
    BY <1>3, <1>4, NothingPicked
  <2> HIDE DEF onTime
  <2>3. Len(onTime) \in Nat /\ (Len(onTime) = 0 => onTime = <<>>)
    BY <2>1
  <2>4. QED BY <2>2, <2>3
<1>9. Cardinality(playing) \in Nat /\ (playing # {} => Cardinality(playing) # 0)
  <2>1. playing \in SUBSET DOMAIN inp.remote.root
    BY DEF DraftOK, ClassOK
  <2> HIDE DEF playing
  <2>2. IsFiniteSet(playing)
    BY <2>1, FS_Subset DEF InputOK
  <2>3. QED BY <2>2, FS_CardinalityType, FS_EmptySet
<1>10. remains \in Nat /\ (lasts => remains # 0)
  <2> HIDE DEF onTime, playing
  <2>1. QED BY <1>8, <1>9
<1> HIDE DEF lasts
<1>11. lasts => W = wished
  BY <1>10
<1>12. W = <<>> \/ W = wished
  OBVIOUS
<1>13. W = <<>> => kept = main.ready
  <2>1. ASSUME W = <<>> PROVE kept = main.ready
    <3>1. ToSet(W) = {}
      <4> HIDE DEF W
      <4>1. QED BY <2>1 DEF ToSet
    <3> HIDE DEF W
    <3>2. moved = {}
      BY <3>1
    <3> HIDE DEF moved
    <3>3. QED BY <3>2
  <2>2. QED BY <2>1
<1> HIDE DEF W, remains, kept, T, E, R
<1>14. W \in Seq(T) /\ E \in Seq(T) /\ R \in Seq(T)
  <2>1. wished \in Seq(T) /\ E \in Seq(T) /\ R \in Seq(T)
    BY <1>2 DEF TakesOf, T
  <2>2. <<>> \in Seq(T)
    OBVIOUS
  <2>3. QED BY <1>12, <2>1, <2>2
<1>15. A \in Seq(T)
  <2> DEFINE Q == Quiet(inp)
  <2>1. A \in Seq(Q) /\ Q \subseteq T
    BY DEF Quiet, T
  <2> HIDE DEF Q
  <2>2. QED BY <2>1
<1>16. s0 = A \o E \o R \o W /\ s0 \in Seq(T)
  BY <1>14, <1>15 DEF E, R
<1> HIDE DEF s0, s1, s2
<1>17. Continues(inp, s0, s1)
  <2>1. s0 \in Seq(ActionsOf(inp))
    BY <1>16 DEF T
  <2>2. QED BY <1>7, <2>1, LateContinues DEF s1
<1>18. s1 \in Seq(T) /\ Len(s1) >= Len(s0)
  BY <1>17 DEF Continues, T
<1>19. Continues(inp, s1, s2)
  <2>1. Continues(inp, s1, s1)
    <3>1. Len(s1) \in Nat
      BY <1>18
    <3>2. \A i \in Len(s1) + 1 .. Len(s1) : FALSE
      BY <3>1
    <3>3. QED BY <1>18, <3>1, <3>2 DEF Continues, T
  <2>2. QED BY <1>18, <2>1, StagedAheadContinues DEF DraftOK, s2, T
<1>20. s2 \in Seq(T) /\ Len(s2) >= Len(s1)
  BY <1>19 DEF Continues, T
<1>21. s2 = <<>>
  <2>1. MkdirStaging \in T
    BY QuietActions DEF Quiet, T
  <2>2. QED BY <1>1, <1>20, <2>1, NoFolderMade
<1>22. s1 = <<>> /\ s0 = <<>>
  <2>1. Len(s2) = 0 /\ Len(s1) \in Nat /\ Len(s0) \in Nat
    BY <1>16, <1>18, <1>21
  <2>2. Len(s1) = 0 /\ Len(s0) = 0
    BY <1>18, <1>20, <2>1
  <2>3. QED BY <1>16, <1>18, <2>2
<1>23. A = <<>> /\ E = <<>> /\ R = <<>> /\ W = <<>>
  <2> DEFINE x == A \o E
             y == x \o R
  <2>1. x \in Seq(T)
    BY <1>14, <1>15
  <2>2. y \in Seq(T)
    <3> HIDE DEF x
    <3>1. QED BY <1>14, <2>1
  <2>3. y \o W = <<>>
    BY <1>16, <1>22
  <2> HIDE DEF y
  <2>4. y = <<>> /\ W = <<>>
    BY <1>14, <2>2, <2>3, JoinedEmpty
  <2>5. x \o R = <<>>
    BY <2>4 DEF y
  <2> HIDE DEF x
  <2>6. x = <<>> /\ R = <<>>
    BY <1>14, <2>1, <2>5, JoinedEmpty
  <2>7. A \o E = <<>>
    BY <2>6 DEF x
  <2>8. QED BY <1>14, <1>15, <2>4, <2>6, <2>7, JoinedEmpty
<1>24. WithStagedAhead(d, main.ready, <<>>) = <<>>
  BY <1>13, <1>21, <1>22, <1>23 DEF s2
<1>25. lasts => \A m \in 1 .. Len(d.items) :
                  d.items[m].video \in late => ~ Fits(d, <<>>, d.items[m].video)
  <2>1. WithLate(d, later, remains, <<>>) = <<>>
    BY <1>22 DEF s1
  <2>2. lasts => \A k \in 1 .. Len(later) : ~ Fits(d, <<>>, later[k].video)
    BY <1>7, <1>10, <2>1, NothingEnters
  <2>3. \A m \in 1 .. Len(d.items) : d.items[m].video \in late => m \in I
    BY <1>3 DEF I
  <2>4. \A m \in I : \E k \in 1 .. Len(later) : later[k] = d.items[m]
    BY <1>6 DEF Some
  <2> HIDE DEF I
  <2>5. QED BY <2>2, <2>3, <2>4
<1>26. Keeps(d, late, wished) => lasts
  BY <1>3 DEF Keeps, lasts, J
<1>27. Keeps(d, late, wished) => NothingMore(d, late, wished, main.ready)
  BY <1>11, <1>23, <1>24, <1>25, <1>26 DEF NothingMore
<1>28. QED BY <1>23, <1>27 DEF E, R

(* Something goes on playing: an item on time, or a playable film that     *)
(* nobody asked to delete.                                                 *)
Lasts(d, late) ==
  \/ \E m \in 1 .. Len(d.items) : d.items[m].video \notin late
  \/ \E n \in d.c.playable : n \notin d.inp.requests

(* What a plan with no action says of the listing it was made from; late:  *)
(* the videos there was no room for.                                       *)
NothingToDo(d, late) ==
  /\ \A v \in late : v.id \notin DOMAIN d.c.managed
  /\ \A m \in 1 .. Len(d.items) :
       d.items[m].video \in late \/ d.items[m].video.id \in DOMAIN d.c.managed
  /\ \A m \in 1 .. Len(d.items) : ~ Moves(d, m)
  /\ d.extra = {}
  /\ d.c.corrupt = {} /\ d.c.orphan = {} /\ d.c.staged \subseteq Needed(d)
  /\ Lasts(d, late) =>
       /\ DOMAIN d.c.managed \subseteq Placed(d)
       /\ WithStagedAhead(d, d.c.staged, <<>>) = <<>>
       /\ \A m \in 1 .. Len(d.items) :
            d.items[m].video \in late => ~ Fits(d, <<>>, d.items[m].video)

LEMMA NothingMapped ==
  ASSUME NEW T, NEW w \in Seq(T), NEW g, DOMAIN g = DOMAIN w, g = <<>>
  PROVE  w = <<>>
<1>1. DOMAIN <<>> = {}
  OBVIOUS
<1>2. DOMAIN w = {}
  BY <1>1
<1>3. Len(w) \in Nat /\ DOMAIN w = 1 .. Len(w)
  OBVIOUS
<1>4. Len(w) # 0 => 1 \in 1 .. Len(w)
  BY <1>3
<1>5. Len(w) = 0
  BY <1>2, <1>3, <1>4
<1>6. QED BY <1>5

LEMMA NothingToClear ==
  ASSUME NEW inp, InputOK(inp), NEW d, DraftOK(inp, d), NEW required, Cleanup(d, required) = <<>>
  PROVE  d.c.corrupt = {} /\ d.c.orphan = {} /\ d.c.staged \subseteq Needed(d)
<1> DEFINE overdue == {p \in d.c.parts : /\ d.inp.now - d.inp.remote.staging[p].mtime > PartMaxAge
                                         /\ \A i \in DOMAIN required : required[i].sha # p.sha}
           P       == {p.sha : p \in overdue}
           parts   == Ascending(P)
           c       == Ascending(d.c.corrupt)
           u       == Ascending(d.c.staged \ Needed(d))
           o       == Ascending(d.c.orphan)
           whole   == c \o u \o o
           W       == [i \in DOMAIN whole |-> DeleteStaged(whole[i])]
           X       == [i \in DOMAIN parts |-> DeletePart(parts[i])]
           Q       == Quiet(inp)
<1>1. W \o X = <<>>
  BY DEF Cleanup, Mapped
<1>2. NumbersFinite(P)
  <2>1. overdue \subseteq DOMAIN inp.remote.staging
    BY DEF DraftOK, ClassOK
  <2> HIDE DEF overdue
  <2>2. QED BY <2>1, StagedNumbers
<1>3. NumbersFinite(d.c.corrupt) /\ NumbersFinite(d.c.staged \ Needed(d)) /\ NumbersFinite(d.c.orphan)
  <2>1. d.c.staged \ Needed(d) \in SUBSET d.c.staged
    OBVIOUS
  <2>2. NumbersFinite(d.c.staged) /\ NumbersFinite(d.c.corrupt) /\ NumbersFinite(d.c.orphan)
    BY DEF DraftOK, ClassOK
  <2>3. QED BY <2>1, <2>2, FS_Subset DEF NumbersFinite
<1>4. ASSUME NEW S, NumbersFinite(S) PROVE Enumerates(Ascending(S), S) /\ Ascending(S) \in Seq(Int)
  <2>1. Enumerates(Ascending(S), S) /\ S \subseteq Int
    BY <1>4, AscendingEnumerates DEF NumbersFinite
  <2>2. QED BY <2>1, EnumeratedIn
<1> HIDE DEF P
<1>5. /\ Enumerates(c, d.c.corrupt) /\ Enumerates(u, d.c.staged \ Needed(d)) /\ Enumerates(o, d.c.orphan)
      /\ c \in Seq(Int) /\ u \in Seq(Int) /\ o \in Seq(Int) /\ parts \in Seq(Int)
  BY <1>2, <1>3, <1>4
<1>6. \A s \in Int : DeleteStaged(s) \in Q /\ DeletePart(s) \in Q
  BY QuietActions
<1> HIDE DEF c, u, o, parts, Q
<1> DEFINE h == c \o u
<1>7. h \in Seq(Int) /\ whole = h \o o
  BY <1>5
<1> HIDE DEF h
<1>8. whole \in Seq(Int)
  BY <1>5, <1>7
<1> HIDE DEF whole
<1>9. W \in Seq(Q)
  BY <1>6, <1>8
<1>10. X \in Seq(Q)
  <2> DEFINE n == Len(parts)
  <2>1. n \in Nat /\ DOMAIN parts = 1 .. n /\ \A i \in 1 .. n : parts[i] \in Int
    BY <1>5
  <2> HIDE DEF n
  <2>2. X = [i \in 1 .. n |-> DeletePart(parts[i])]
    BY <2>1
  <2>3. \A i \in 1 .. n : DeletePart(parts[i]) \in Q
    BY <1>6, <2>1
  <2> HIDE DEF X
  <2>4. QED BY <2>1, <2>2, <2>3
<1>11. DOMAIN W = DOMAIN whole
  OBVIOUS
<1> HIDE DEF W, X
<1>12. whole = <<>>
  <2>1. W = <<>>
    BY <1>1, <1>9, <1>10, JoinedEmpty
  <2>2. QED BY <1>8, <1>11, <2>1, NothingMapped
<1>13. h = <<>> /\ o = <<>>
  BY <1>5, <1>7, <1>12, JoinedEmpty
<1>14. c = <<>> /\ u = <<>>
  BY <1>5, <1>13, JoinedEmpty DEF h
<1>15. d.c.corrupt = {} /\ d.c.staged \ Needed(d) = {} /\ d.c.orphan = {}
  BY <1>5, <1>13, <1>14, NothingListed
<1>16. QED BY <1>15

LEMMA NothingOpens ==
  ASSUME NEW inp, InputOK(inp), NEW d, DraftOK(inp, d),
         NEW cleanup \in Seq(Quiet(inp)), NEW inTime \in Seq(inp.library), NEW late,
         Opening(d, cleanup, inTime, late) = <<>>
  PROVE  /\ cleanup = <<>> /\ inTime = <<>> /\ Entering(d, late) = <<>>
         /\ \A m \in 1 .. Len(d.items) :
              d.items[m].video \in late \/ d.items[m].video.id \in DOMAIN d.c.managed
<1> DEFINE I == {m \in DOMAIN d.items : /\ d.items[m].video \notin late
                                        /\ CurrentName(d.items[m].video, d.c) = None}
           x == Entering(d, late)
           U == [k \in DOMAIN inTime |-> Upload(inTime[k])]
           X == [k \in DOMAIN x |-> Activate(x[k])]
           Q == Quiet(inp)
<1>1. d.items \in Seq(ItemsFor(inp)) /\ OncePerVideo(d.items) /\ I \subseteq DOMAIN d.items
      /\ DOMAIN d.items = 1 .. Len(d.items)
  BY DraftItems
<1>2. Some(x, d.items, I) /\ x \in Seq(ItemsFor(inp))
  <2>1. x = Picked(d.items, I)
    BY DEF Entering
  <2> HIDE DEF I, x
  <2>2. QED BY <1>1, <2>1, ItemsPicked, PickedInOrder
<1>3. cleanup \o U \o X = <<>>
  BY DEF Opening
<1>4. \A m \in I : Enters(inp, d.items[m])
  BY <1>1, DraftItems
<1>5. \A m \in 1 .. Len(d.items) :
        d.items[m].video \in late \/ d.items[m].video.id \in DOMAIN d.c.managed \/ m \in I
  BY <1>1, DraftItems
<1>6. x = <<>> => I = {}
  <2>1. x = Picked(d.items, I)
    BY DEF Entering
  <2> HIDE DEF I, x
  <2>2. QED BY <1>1, <2>1, NothingPicked
<1> HIDE DEF I, x
<1>7. /\ Len(x) \in Nat /\ DOMAIN x = 1 .. Len(x)
      /\ \A k \in 1 .. Len(x) : Enters(inp, x[k])
  BY <1>2, <1>4 DEF Some
<1>8. X \in Seq(Q)
  <2> DEFINE n == Len(x)
  <2>1. X = [k \in 1 .. n |-> Activate(x[k])] /\ n \in Nat
    BY <1>7
  <2>2. \A k \in 1 .. n : Activate(x[k]) \in Q
    BY <1>7, EntersQuietly
  <2> HIDE DEF n, Q, X
  <2>3. QED BY <2>1, <2>2 DEF n
<1>9. U \in Seq(Q)
  <2>1. \A v \in inp.library : Upload(v) \in Q
    BY QuietActions
  <2> HIDE DEF Q
  <2>2. QED BY <2>1
<1>10. cleanup \in Seq(Q) /\ DOMAIN U = DOMAIN inTime /\ DOMAIN X = DOMAIN x
  OBVIOUS
<1> HIDE DEF U, X, Q
<1> DEFINE h == cleanup \o U
<1>11. h \in Seq(Q) /\ h \o X = <<>>
  BY <1>3, <1>9, <1>10
<1> HIDE DEF h
<1>12. h = <<>> /\ X = <<>>
  BY <1>8, <1>11, JoinedEmpty
<1>13. cleanup = <<>> /\ U = <<>>
  BY <1>9, <1>10, <1>12, JoinedEmpty DEF h
<1>14. inTime = <<>>
  BY <1>10, <1>13, NothingMapped
<1>15. x = <<>>
  BY <1>2, <1>10, <1>12, NothingMapped
<1>16. QED BY <1>5, <1>6, <1>13, <1>14, <1>15 DEF x

LEMMA NothingRemoved ==
  ASSUME NEW inp, InputOK(inp), NEW d, DraftOK(inp, d), NEW staged,
         Removals(inp.remote, inp.library, d.c, inp.requests, Placed(d), d.keep, staged) = <<>>
  PROVE  DOMAIN d.c.managed \subseteq Placed(d)
<1> DEFINE ids == DOMAIN d.c.managed \ Placed(d)
           s   == Copies(d.c, ids)
           t   == [i \in DOMAIN s |-> Retirement(d, staged, s[i])]
           a   == AskedFor(inp.remote, d.c, inp.requests)
           T   == ActionsOf(inp)
<1>1. t \o a = <<>>
  <2>1. Removals(inp.remote, inp.library, d.c, inp.requests, Placed(d), d.keep, staged) = t \o a
    BY RemovalsAre
  <2>2. QED BY <2>1
<1>2. Enumerates(s, CopiesOf(d.c, ids)) /\ \A x \in CopiesOf(d.c, ids) : CopyAt(d.c, ids, x)
  BY CopiesEnumerate DEF DraftOK
<1>3. DOMAIN t = DOMAIN s
  OBVIOUS
<1> HIDE DEF s, t, T
<1>4. /\ s \in Seq(CopiesOf(d.c, ids))
      /\ \A i \in DOMAIN s : CopyAt(d.c, ids, s[i])
  <2> DEFINE C == CopiesOf(d.c, ids)
  <2>1. s \in Seq(C) /\ \A x \in C : CopyAt(d.c, ids, x)
    BY <1>2 DEF Enumerates
  <2> HIDE DEF C
  <2>2. \A i \in DOMAIN s : s[i] \in C
    BY <2>1
  <2>3. QED BY <2>1, <2>2 DEF C
<1>5. t \in Seq(T)
  <2>1. \A i \in DOMAIN s : Retirement(d, staged, s[i]) \in T
    BY <1>4, RetirementTakes DEF T
  <2> DEFINE C == CopiesOf(d.c, ids)
             n == Len(s)
  <2>2. n \in Nat /\ DOMAIN s = 1 .. n
    <3> HIDE DEF C
    <3>1. s \in Seq(C)
      BY <1>4 DEF C
    <3>2. QED BY <3>1
  <2> HIDE DEF n
  <2>3. t = [i \in 1 .. n |-> Retirement(d, staged, s[i])]
    BY <2>2 DEF t
  <2>4. QED BY <2>1, <2>2, <2>3
<1>6. a \in Seq(T)
  BY AskedForTaken DEF TakesOf, T
<1> HIDE DEF a
<1>7. t = <<>>
  BY <1>1, <1>5, <1>6, JoinedEmpty
<1>8. s = <<>>
  BY <1>3, <1>4, <1>7, NothingMapped
<1>9. CopiesOf(d.c, ids) = {}
  BY <1>2, <1>8, NothingListed
<1>10. ASSUME NEW id \in ids PROVE FALSE
  <2>1. d.c.managed[id] \in Seq(AppNames(inp)) /\ Len(d.c.managed[id]) >= 1
    BY DEF DraftOK, ClassOK, CopiesApart
  <2>2. 1 \in DOMAIN d.c.managed[id]
    BY <2>1
  <2>3. [id |-> id, k |-> 1] \in CopiesOf(d.c, ids)
    BY <2>2 DEF CopiesOf
  <2>4. QED BY <1>9, <2>3
<1>11. QED BY <1>10

(* The removals leave a legacy film that nobody asked to delete.           *)
LEMMA NotAskedFor ==
  ASSUME NEW inp, InputOK(inp), NEW d, DraftOK(inp, d), NEW wished, TakesOf(inp, wished, Leaving(d)),
         NEW n \in d.c.playable, n \notin inp.requests
  PROVE  n \in d.c.playable \ {x.src : x \in ToSet(wished)}
<1> DEFINE T == ActionsOf(inp)
<1>1. n \in d.c.legacy /\ n \notin AppNames(inp)
  BY DEF DraftOK, ClassOK
<1>2. ASSUME NEW x \in ToSet(wished) PROVE x.src # n
  <2>1. wished \in Seq(T) /\ \A i \in 1 .. Len(wished) : wished[i].kind \in Takes
    BY DEF TakesOf
  <2> HIDE DEF T
  <2>2. x \in T /\ x.kind \in Takes
    BY <1>2, <2>1 DEF ToSet
  <2>3. WellFormed(inp, x)
    BY <2>2 DEF T, ActionsOf
  <2>4. x.src \in AppNames(inp) \/ x.src \in inp.requests
    BY <2>2, <2>3 DEF WellFormed, Takes, StagingDeletes
  <2>5. QED BY <1>1, <2>4
<1>3. QED BY <1>2

(* The videos a plan finds no room for.                                    *)
LEMMA EmptyPlan ==
  ASSUME NEW inp, InputOK(inp), Plan(inp) = <<>>
  PROVE  \E late : /\ NothingToDo(DraftIn(inp), late)
                   /\ inp.maxBytes = None => late = {}
<1> DEFINE d        == DraftIn(inp)
           required == Required(d)
           cleanup  == Cleanup(d, required)
           inTime   == Fitting(required, Usage(inp.remote, cleanup), inp.maxBytes)
           late     == ToSet(required) \ ToSet(inTime)
           main     == MainPart(d, cleanup, inTime, late)
           wished   == Removals(inp.remote, inp.library, d.c, inp.requests, Placed(d), d.keep, main.ready)
           E        == Mapped(DeleteActive, ByName(d.extra))
<1>1. Plan(inp) = PlanUploading(d, cleanup, required, inTime)
  BY DEF Plan, DraftIn
<1>2. DraftOK(inp, d)
  BY DraftIsOK
<1>3. d.c = Classify(inp.remote, inp.library) /\ d.inp = inp
  BY DEF DraftIn, DraftOf
<1>4. PlanUploading(d, cleanup, required, inTime) = Completed(d, late, main, wished)
  BY <1>3 DEF PlanUploading
<1> HIDE DEF d
<1>5. inp.maxBytes = None => late = {}
  BY DEF Fitting
<1>6. required \in Seq(inp.library) /\ cleanup \in Seq(Quiet(inp))
  BY <1>2, RequiredIsMissing, CleanupIsQuiet
<1> DEFINE V == inp.library
<1> HIDE DEF required, cleanup
<1>20. inTime \in Seq(V)
  BY <1>6, FittingIsSome
<1>21. \A v \in late : v.id \notin DOMAIN d.c.managed
  <2>1. \A k \in 1 .. Len(required) : required[k].id \notin DOMAIN d.c.managed
    BY <1>2, RequiredIsMissing DEF required
  <2>2. DOMAIN required = 1 .. Len(required)
    BY <1>6
  <2>3. QED BY <2>1, <2>2 DEF ToSet
<1> HIDE DEF late
<1> DEFINE A     == Opening(d, cleanup, inTime, late)
           ready == main.ready
<1>7. main.actions = A \o E \o Reorders(d)
  BY MainPartOpens
<1>8. ready = ((d.c.staged \cap Needed(d)) \cup {v.sha : v \in ToSet(inTime)})
                \ {item.video.sha : item \in ToSet(Entering(d, late))}
  BY DEF MainPart, Entering, ItemsWith
<1> HIDE DEF inTime
<1>9. A \in Seq(Quiet(inp))
  BY <1>2, <1>6, <1>20, OpeningIsQuiet
<1> HIDE DEF main
<1>10. TakesOf(inp, wished, Leaving(d))
  BY <1>2, RemovalsTaken
<1> HIDE DEF wished, A
<1>11. Completed(d, late, main, wished) = <<>>
  BY <1>1, <1>4
<1>12. /\ A = <<>> /\ E = <<>> /\ Reorders(d) = <<>>
       /\ Lasts(d, late) => /\ wished = <<>> /\ WithStagedAhead(d, ready, <<>>) = <<>>
                            /\ \A m \in 1 .. Len(d.items) :
                                 d.items[m].video \in late => ~ Fits(d, <<>>, d.items[m].video)
  <2>1. Lasts(d, late) => Keeps(d, late, wished)
    BY <1>2, <1>3, <1>10, NotAskedFor DEF Lasts, Keeps
  <2>2. /\ A = <<>> /\ E = <<>> /\ Reorders(d) = <<>>
        /\ Keeps(d, late, wished) => NothingMore(d, late, wished, ready)
    BY <1>2, <1>3, <1>7, <1>9, <1>10, <1>11, <1>21, CompletedWithNothing
  <2>3. QED BY <2>1, <2>2 DEF NothingMore
<1>13. /\ cleanup = <<>> /\ inTime = <<>> /\ Entering(d, late) = <<>>
       /\ \A m \in 1 .. Len(d.items) :
            d.items[m].video \in late \/ d.items[m].video.id \in DOMAIN d.c.managed
  <2>1. Opening(d, cleanup, inTime, late) = <<>>
    BY <1>12 DEF A
  <2>2. QED BY <1>2, <1>6, <1>20, <2>1, NothingOpens
<1>14. d.c.corrupt = {} /\ d.c.orphan = {} /\ d.c.staged \subseteq Needed(d)
  BY <1>2, <1>13, NothingToClear DEF cleanup
<1>15. d.extra = {}
  <2> DEFINE s == ByName(d.extra)
  <2>1. d.extra \subseteq AppNames(inp) /\ IsFiniteSet(d.extra)
    BY <1>2, TakenApart DEF Extra, DraftOK, ExtraOK
  <2>2. Enumerates(s, d.extra)
    BY <2>1, AppNamesFinite, ByNameEnumerates DEF InputOK
  <2>3. E = [i \in DOMAIN s |-> DeleteActive(s[i])]
    BY DEF Mapped
  <2> HIDE DEF s, E
  <2>4. s \in Seq(d.extra) /\ DOMAIN E = DOMAIN s
    BY <2>2, <2>3 DEF Enumerates
  <2>5. s = <<>>
    BY <1>12, <2>4, NothingMapped
  <2>6. QED BY <2>2, <2>5, NothingListed
<1>16. \A m \in 1 .. Len(d.items) : ~ Moves(d, m)
  <2>1. \A i \in 1 .. Len(Reorders(d)) : FALSE
    <3>1. \A i \in 1 .. Len(<<>>) : FALSE
      OBVIOUS
    <3>2. QED BY <1>12, <3>1
  <2>2. QED BY <1>2, <2>1, ReordersTaken
<1>17. ready = d.c.staged
  <2>1. ToSet(inTime) = {} /\ ToSet(Entering(d, late)) = {}
    BY <1>13 DEF ToSet
  <2> HIDE DEF ready
  <2>2. {v.sha : v \in ToSet(inTime)} = {} /\ {item.video.sha : item \in ToSet(Entering(d, late))} = {}
    BY <2>1
  <2>3. QED BY <1>8, <1>14, <2>2
<1>18. Lasts(d, late) => DOMAIN d.c.managed \subseteq Placed(d)
  BY <1>2, <1>12, NothingRemoved DEF wished
<1>19. NothingToDo(d, late)
  BY <1>12, <1>13, <1>14, <1>15, <1>16, <1>17, <1>18, <1>21 DEF NothingToDo
<1>22. QED BY <1>5, <1>19 DEF d

(* ... with no limit, none.                                                *)
LEMMA EmptyPlanUnlimited ==
  ASSUME NEW inp, InputOK(inp), inp.maxBytes = None, Plan(inp) = <<>>
  PROVE  NothingToDo(DraftIn(inp), {})
BY EmptyPlan

(* With nothing to do, what is to be kept ready is staged or on the screen. *)
LEMMA KeptIsThere ==
  ASSUME NEW inp, InputOK(inp), inp.maxBytes = None, BusyContents(inp.remote, inp.now) = {},
         NEW d, DraftOK(inp, d), NothingToDo(d, {}), Lasts(d, {}),
         NEW j \in 1 .. Len(d.keep)
  PROVE  d.keep[j].video.id \in DOMAIN d.c.managed \/ d.keep[j].video.sha \in d.c.staged
<1> SUFFICES ASSUME d.keep[j].video.id \notin DOMAIN d.c.managed, d.keep[j].video.sha \notin d.c.staged
             PROVE  FALSE
  OBVIOUS
<1> DEFINE n == Len(d.keep)
           T == ActionsOf(inp)
           staged == d.c.staged
           v == d.keep[j].video
<1>1. n \in Nat /\ Schedule(d.keep, inp.wants) /\ d.inp = inp
  BY DEF DraftOK, Schedule
<1>2. Continues(inp, <<>>, <<>>) /\ <<>> \in Seq(T)
  <2>1. <<>> \in Seq(T) /\ Len(<<>>) = 0 /\ 0 + 1 .. 0 = {} /\ 1 .. 0 = {}
    OBVIOUS
  <2>2. QED BY <2>1 DEF Continues
<1>3. PICK after : /\ StagedBy(d, staged, <<>>, after)
                   /\ \A k \in 0 .. n : Continues(inp, <<>>, after[k])
  <2> HIDE DEF staged
  <2>1. QED BY <1>1, <1>2, StagedStepByStep DEF n
<1>4. /\ \A k \in 1 .. n : after[k] = Ahead(d, staged, after[k - 1], k)
      /\ after[n] = <<>>
  BY <1>3 DEF StagedBy, NothingToDo
<1>5. \A k \in 0 .. n : after[k] \in Seq(T)
  BY <1>3 DEF Continues
<1>6. \A k \in 1 .. n : k - 1 \in 0 .. n /\ k \in 0 .. n
  BY <1>1
<1>7. /\ Missing(v, d.c) /\ v.sha \notin staged \cup BusyContents(d.inp.remote, d.inp.now)
      /\ \A acts : Fits(d, acts, v)
  BY <1>1 DEF Missing, Fits
<1>8. j \in 1 .. n
  OBVIOUS
<1> HIDE DEF staged, n, T, v
<1>9. after[j] = Append(after[j - 1], Upload(v))
  BY <1>4, <1>7, <1>8 DEF Ahead, v
<1>10. \A k \in 1 .. n : after[k - 1] # <<>> => after[k] # <<>>
  <2>1. ASSUME NEW k \in 1 .. n, after[k - 1] # <<>> PROVE after[k] # <<>>
    <3> DEFINE s == after[k - 1]
               u == Upload(d.keep[k].video)
    <3>1. after[k] = s \/ after[k] = Append(s, u)
      BY <1>4 DEF Ahead
    <3>2. s \in Seq(T)
      BY <1>5, <1>6
    <3> HIDE DEF s, u
    <3>3. Append(s, u) # <<>>
      BY <3>2
    <3>4. QED BY <2>1, <3>1, <3>3 DEF s
  <2>2. QED BY <2>1
<1>11. \A k \in 0 .. n : after[k] = <<>>
  BY <1>1, <1>4, <1>10, EmptyThroughout
<1>12. after[j] # <<>>
  <2> DEFINE s == after[j - 1]
             u == Upload(v)
  <2>1. s \in Seq(T) /\ after[j] = Append(s, u)
    BY <1>5, <1>6, <1>8, <1>9
  <2> HIDE DEF s, u
  <2>2. QED BY <2>1
<1>13. QED BY <1>6, <1>8, <1>11, <1>12

-----------------------------------------------------------------------------
(* What should play, in order                                              *)

(* d is the first of each content in s: at gives their positions.          *)
FirstOnes(d, s, at) ==
  /\ \A k \in 1 .. Len(d) : at[k] \in 1 .. Len(s) /\ d[k] = s[at[k]]
  /\ \A k, l \in 1 .. Len(d) : k < l => at[k] < at[l]
  /\ \A k \in 1 .. Len(d) : \A j \in 1 .. Len(s) :
       j < at[k] => s[j].video.sha # d[k].video.sha
  /\ \A i \in 1 .. Len(s) : \E k \in 1 .. Len(d) : d[k].video.sha = s[i].video.sha

LEMMA FirstOnesPicked ==
  ASSUME NEW W, NEW s \in Seq(W)
  PROVE  \E at : FirstOnes(DistinctContent(s), s, at)
<1> DEFINE I == {i \in DOMAIN s : \A j \in 1 .. i - 1 : s[j].video.sha # s[i].video.sha}
           d == DistinctContent(s)
           n == Len(s)
<1>1. d = Picked(s, I)
  BY DEF DistinctContent
<1>2. I \subseteq DOMAIN s /\ DOMAIN s = 1 .. n /\ n \in Nat
  OBVIOUS
<1>3. \A i \in I : \A j \in 1 .. n : j < i => s[j].video.sha # s[i].video.sha
  <2>1. ASSUME NEW i \in I, NEW j \in 1 .. n, j < i PROVE s[j].video.sha # s[i].video.sha
    <3>1. i \in 1 .. n
      BY <1>2
    <3> HIDE DEF n
    <3>2. j \in 1 .. i - 1
      BY <1>2, <2>1, <3>1
    <3>3. QED BY <3>2
  <2>2. QED BY <2>1
<1>4. \A i \in 1 .. n : \E j \in I : s[j].video.sha = s[i].video.sha
  <2>1. ASSUME NEW i \in 1 .. n PROVE \E j \in I : s[j].video.sha = s[i].video.sha
    <3> DEFINE S == {j \in 1 .. n : s[j].video.sha = s[i].video.sha}
               j == Min(S)
    <3>1. S \subseteq Nat /\ i \in S
      BY <1>2
    <3> HIDE DEF S
    <3>2. j \in S /\ \A y \in S : j <= y
      BY <3>1, LeastNumber
    <3>3. j \in 1 .. n /\ s[j].video.sha = s[i].video.sha
      BY <3>2 DEF S
    <3> HIDE DEF j, n
    <3>4. \A y \in 1 .. j - 1 : y \in 1 .. n /\ ~ (j <= y)
      BY <1>2, <3>3
    <3>5. \A y \in 1 .. j - 1 : s[y].video.sha # s[i].video.sha
      BY <3>2, <3>4 DEF S
    <3>6. j \in I
      BY <1>2, <3>3, <3>5
    <3>7. QED BY <3>3, <3>6
  <2>2. QED BY <2>1
<1> HIDE DEF I, d
<1> DEFINE m  == Cardinality(I)
           at == Ascending(I)
<1>5. /\ m \in Nat /\ at \in [1 .. m -> I]
      /\ \A i, j \in 1 .. m : i < j => at[i] < at[j]
      /\ \A x \in I : \E i \in 1 .. m : at[i] = x
      /\ Picked(s, I) = [k \in 1 .. m |-> s[at[k]]]
      /\ Len(Picked(s, I)) = m
  BY <1>2, PickedInOrder
<1> HIDE DEF m, at, n
<1>6. Len(d) = m /\ \A k \in 1 .. m : at[k] \in I /\ d[k] = s[at[k]]
  BY <1>1, <1>5
<1>7. \A i \in 1 .. n : \E k \in 1 .. m : d[k].video.sha = s[i].video.sha
  BY <1>4, <1>5, <1>6
<1>8. \A k \in 1 .. m : \A j \in 1 .. n : j < at[k] => s[j].video.sha # d[k].video.sha
  BY <1>3, <1>6
<1>9. FirstOnes(d, s, at)
  BY <1>2, <1>5, <1>6, <1>7, <1>8 DEF FirstOnes, n
<1>10. QED BY <1>9 DEF d

(* t is the first want of each content of W, in their order.               *)
Firsts(t, W) ==
  /\ Schedule(t, W)
  /\ \A w \in W : \E k \in 1 .. Len(t) : t[k].video.sha = w.video.sha
  /\ \A k \in 1 .. Len(t) : \A u \in W \ {t[k]} :
       u.video.sha = t[k].video.sha => OrderBefore(t[k], u)
  /\ \A k, l \in 1 .. Len(t) : k < l => OrderBefore(t[k], t[l])

LEMMA FirstsInOrder ==
  ASSUME NEW library, NEW W, W \subseteq WantsFor(library), IsFiniteSet(W),
         \A u, w \in W : u.id = w.id => u = w
  PROVE  Firsts(DistinctContent(InOrder(W)), W)
<1> DEFINE s == InOrder(W)
           t == DistinctContent(s)
           n == Len(s)
           m == Len(t)
<1>1. Enumerates(s, W) /\ \A i, j \in 1 .. n : i < j => OrderBefore(s[i], s[j])
  BY InOrderEnumerates, WantsAscend
<1> HIDE DEF s
<1>2. s \in Seq(W) /\ n \in Nat /\ (\A x \in W : \E i \in 1 .. n : s[i] = x)
  BY <1>1 DEF Enumerates
<1>3. Schedule(t, W)
  BY <1>2, DistinctContents
<1>4. PICK at : FirstOnes(t, s, at)
  BY <1>2, FirstOnesPicked
<1> HIDE DEF t
<1>5. m \in Nat
  BY <1>3 DEF Schedule
<1>6. /\ \A k \in 1 .. m : at[k] \in 1 .. n /\ t[k] = s[at[k]]
      /\ \A k, l \in 1 .. m : k < l => at[k] < at[l]
      /\ \A k \in 1 .. m : \A j \in 1 .. n : j < at[k] => s[j].video.sha # t[k].video.sha
      /\ \A i \in 1 .. n : \E k \in 1 .. m : t[k].video.sha = s[i].video.sha
  BY <1>4 DEF FirstOnes
<1> HIDE DEF n, m
<1>7. \A w \in W : \E k \in 1 .. m : t[k].video.sha = w.video.sha
  BY <1>2, <1>6
<1>8. \A k, l \in 1 .. m : k < l => OrderBefore(t[k], t[l])
  BY <1>1, <1>6
<1>9. ASSUME NEW k \in 1 .. m, NEW u \in W \ {t[k]}, u.video.sha = t[k].video.sha
      PROVE  OrderBefore(t[k], u)
  <2>1. PICK i \in 1 .. n : s[i] = u
    BY <1>2
  <2>2. ~ (i < at[k]) /\ i # at[k] /\ at[k] \in 1 .. n /\ t[k] = s[at[k]]
    BY <1>6, <1>9, <2>1
  <2>3. at[k] < i
    BY <1>2, <2>2
  <2>4. QED BY <1>1, <2>1, <2>2, <2>3
<1>10. Firsts(t, W)
  BY <1>3, <1>7, <1>8, <1>9 DEF Firsts, m
<1>11. QED BY <1>10 DEF t, s

-----------------------------------------------------------------------------
(* What an empty plan says of the folder                                   *)

(* Each video that should play has an item, under its own name, and the    *)
(* numbers rise.                                                           *)
RisingItems(d) ==
  /\ Len(d.items) = Len(d.wants)
  /\ \A m \in 1 .. Len(d.wants) :
       /\ d.items[m].video = d.wants[m].video
       /\ d.items[m].name.sha = d.wants[m].video.sha
       /\ d.items[m].name.nnn \in Nat
       /\ \A l \in 1 .. Len(d.wants) : m < l => d.items[m].name.nnn < d.items[l].name.nnn

LEMMA ItemsRise ==
  ASSUME NEW inp, InputOK(inp), Plain(inp)
  PROVE  RisingItems(DraftIn(inp))
<1> DEFINE d        == DraftIn(inp)
           c        == Classify(inp.remote, inp.library)
           wants    == DesiredWants(inp.wants, inp.now)
           known    == {wants[i].video.id : i \in DOMAIN wants}
           extra    == FurtherCopies(c, known)
           ids      == [i \in DOMAIN wants |-> wants[i].video.id]
           current  == [id \in ToSet(ids) \cap DOMAIN c.managed |-> Head(c.managed[id]).nnn]
           numbers  == AssignPrefixes(ids, current)
           occupied == DOMAIN inp.remote.root \ extra
           n        == Len(wants)
<1>1. d.wants = wants /\ d.items = DesiredItems(wants, inp.remote, c, inp.now, extra)
  BY DEF DraftIn, DraftOf
<1>2. DesiredItems(wants, inp.remote, c, inp.now, extra)
        = PlacedItems(wants, c, numbers, occupied, BusyContents(inp.remote, inp.now))
  BY DEF DesiredItems
<1>3. d.items = PlacedItems(wants, c, numbers, occupied, {})
  BY <1>1, <1>2 DEF Plain
<1>4. ClassOK(inp, c) /\ Schedule(wants, inp.wants)
  BY ClassifyIsOK, DesiredIsASchedule
<1>5. c = Classify(inp.remote, inp.library)
  OBVIOUS
<1> HIDE DEF d, c, wants
<1>6. n \in Nat /\ DOMAIN wants = 1 .. n /\ \A i \in 1 .. n : wants[i] \in inp.wants
  BY <1>4 DEF Schedule
<1>7. \A i \in 1 .. n : /\ numbers[wants[i].video.id] \in 1 .. MaxPrefix
                        /\ \A j \in 1 .. n : i < j =>
                             numbers[wants[i].video.id] < numbers[wants[j].video.id]
  BY <1>4, PrefixesGiven
<1> HIDE DEF numbers
<1>8. \A i \in 1 .. n : wants[i].video \in inp.library /\ wants[i].video.id \in known
  BY <1>6 DEF InputOK, WantsFor
<1> HIDE DEF known
<1>9. \A i \in 1 .. n : \A p : ActiveName(p, wants[i].video) \in occupied =>
        ActiveName(p, wants[i].video) = CurrentName(wants[i].video, c)
  BY <1>5, <1>8, OnlyItsOwnName DEF Plain
<1> HIDE DEF occupied
<1>10. AsWanted(inp, wants, numbers, n, d.items)
  BY <1>3, <1>4, <1>7, <1>9, AllAsWanted
<1>11. ASSUME NEW m \in 1 .. n
       PROVE  /\ d.items[m].video = wants[m].video
              /\ d.items[m].name.sha = wants[m].video.sha
              /\ d.items[m].name.nnn = numbers[wants[m].video.id]
  <2>1. /\ d.items[m].video = wants[m].video
        /\ d.items[m].name = ActiveName(numbers[wants[m].video.id], wants[m].video)
    BY <1>10 DEF AsWanted
  <2>2. QED BY <2>1 DEF ActiveName
<1>12. \A i \in 1 .. MaxPrefix : i \in Nat
  BY PrefixAssumption
<1>13. Len(d.items) = n
  BY <1>10 DEF AsWanted
<1>14. RisingItems(d)
  BY <1>1, <1>7, <1>11, <1>12, <1>13 DEF RisingItems
<1>15. QED BY <1>14 DEF d

(* A visible copy of the video is in the folder.                           *)
OnScreen(inp, v) == \E n \in AppNames(inp) : Matches(v, n, inp.remote.root)

LEMMA ManagedAre ==
  ASSUME NEW inp, InputOK(inp), OwnTitles(inp), NEW v \in inp.library
  PROVE  v.id \in DOMAIN Classify(inp.remote, inp.library).managed <=> OnScreen(inp, v)
<1> DEFINE c       == Classify(inp.remote, inp.library)
           managed == c.managed
           root    == inp.remote.root
<1>1. ClassOK(inp, c)
  BY ClassifyIsOK
<1>2. \A n \in AppNames(inp) : \E id \in DOMAIN managed : \E k \in 1 .. Len(managed[id]) : managed[id][k] = n
  BY EveryCopyIsListed
<1> HIDE DEF c
<1>3. \A id \in DOMAIN managed :
        /\ managed[id] \in Seq(AppNames(inp)) /\ Len(managed[id]) >= 1
        /\ \E u \in inp.library : u.id = id /\ \A k \in 1 .. Len(managed[id]) : Matches(u, managed[id][k], root)
  BY <1>1 DEF ClassOK, CopiesApart
<1>4. ASSUME v.id \in DOMAIN managed PROVE OnScreen(inp, v)
  <2> DEFINE s == managed[v.id]
             S == AppNames(inp)
  <2>1. PICK u \in inp.library : u.id = v.id /\ \A k \in 1 .. Len(s) : Matches(u, s[k], root)
    BY <1>3, <1>4
  <2>2. u = v
    BY <2>1 DEF InputOK, LibraryOK
  <2>3. s \in Seq(S) /\ Len(s) >= 1
    BY <1>3, <1>4
  <2> HIDE DEF s, S
  <2>4. s[1] \in S /\ 1 \in 1 .. Len(s)
    BY <2>3
  <2>5. QED BY <2>1, <2>2, <2>4 DEF OnScreen, S
<1>5. ASSUME OnScreen(inp, v) PROVE v.id \in DOMAIN managed
  <2>1. PICK n \in AppNames(inp) : Matches(v, n, root)
    BY <1>5 DEF OnScreen
  <2>2. PICK id \in DOMAIN managed : \E k \in 1 .. Len(managed[id]) : managed[id][k] = n
    BY <1>2
  <2>3. PICK u \in inp.library : u.id = id /\ Matches(u, n, root)
    BY <1>3, <2>2
  <2>4. u = v
    BY <2>1, <2>3 DEF Matches, OwnTitles
  <2>5. QED BY <2>3, <2>4
<1>6. QED BY <1>4, <1>5 DEF c

(* The app's files in the folder are those of the wants at the positions   *)
(* I, in order...                                                          *)
ShowsOf(inp, wants, I) ==
  \E name :
    /\ AppNames(inp) = {name[i] : i \in I}
    /\ \A i \in I : name[i].sha = wants[i].video.sha /\ name[i].nnn \in Nat
    /\ \A i, j \in I : i < j => name[i].nnn < name[j].nnn

(* ... or of all of them.                                                  *)
ShowsInOrder(inp, wants) == ShowsOf(inp, wants, 1 .. Len(wants))

(* Which of the wants to play are on the screen.                           *)
Showing(inp) ==
  LET wants == DesiredWants(inp.wants, inp.now)
  IN  {i \in 1 .. Len(wants) : OnScreen(inp, wants[i].video)}

LEMMA ShowingAre ==
  ASSUME NEW inp, InputOK(inp), Plain(inp)
  PROVE  LET wants == DesiredWants(inp.wants, inp.now)
         IN  Showing(inp) = {i \in 1 .. Len(wants) :
                wants[i].video.id \in DOMAIN Classify(inp.remote, inp.library).managed}
<1> DEFINE wants == DesiredWants(inp.wants, inp.now)
           c     == Classify(inp.remote, inp.library)
<1>1. Schedule(wants, inp.wants)
  BY DesiredIsASchedule
<1>2. Showing(inp) = {i \in 1 .. Len(wants) : OnScreen(inp, wants[i].video)}
  BY DEF Showing
<1> HIDE DEF wants
<1>3. \A i \in 1 .. Len(wants) : wants[i] \in inp.wants
  BY <1>1 DEF Schedule
<1>4. \A i \in 1 .. Len(wants) : wants[i].video \in inp.library
  BY <1>3 DEF InputOK, WantsFor
<1>5. \A i \in 1 .. Len(wants) :
        wants[i].video.id \in DOMAIN c.managed <=> OnScreen(inp, wants[i].video)
  BY <1>4, ManagedAre DEF Plain
<1> HIDE DEF c
<1>6. Showing(inp) = {i \in 1 .. Len(wants) : wants[i].video.id \in DOMAIN c.managed}
  BY <1>2, <1>5
<1>7. QED BY <1>6 DEF wants, c

LEMMA NamesShown ==
  ASSUME NEW inp, InputOK(inp), Plain(inp), NEW late,
         NothingToDo(DraftIn(inp), late), Lasts(DraftIn(inp), late)
  PROVE  ShowsOf(inp, DesiredWants(inp.wants, inp.now), Showing(inp))
<1> DEFINE d    == DraftIn(inp)
           c    == Classify(inp.remote, inp.library)
           n    == Len(d.wants)
           I    == Showing(inp)
           name == [m \in I |-> d.items[m].name]
<1>1. d.wants = DesiredWants(inp.wants, inp.now) /\ d.c = c
      /\ d.extra = FurtherCopies(c, {d.wants[i].video.id : i \in DOMAIN d.wants})
  BY DEF DraftIn, DraftOf
<1>2. DraftOK(inp, d) /\ RisingItems(d) /\ NothingToDo(d, late) /\ Lasts(d, late)
  BY DraftIsOK, ItemsRise
<1>3. ClassOK(inp, d.c)
  BY <1>2 DEF DraftOK
<1>4. c = Classify(inp.remote, inp.library)
  OBVIOUS
<1>15. I = {i \in 1 .. n : d.wants[i].video.id \in DOMAIN c.managed}
  BY <1>1, ShowingAre
<1> HIDE DEF d, c, I
<1>5. Schedule(d.wants, inp.wants) /\ d.items \in Seq(ItemsFor(inp))
  BY <1>2, DraftItems DEF DraftOK
<1>6. n \in Nat /\ DOMAIN d.wants = 1 .. n /\ Len(d.items) = n /\ DOMAIN d.items = 1 .. n
  BY <1>2, <1>5 DEF Schedule, RisingItems
<1>7. \A m \in I : m \in 1 .. n
  BY <1>15
<1>8. \A m \in I : /\ d.items[m].video.id \in DOMAIN c.managed
                        /\ d.items[m].video = d.wants[m].video
                        /\ name[m] = c.managed[d.items[m].video.id][1]
  <2>1. ASSUME NEW m \in I
        PROVE  /\ d.items[m].video.id \in DOMAIN c.managed
               /\ d.items[m].video = d.wants[m].video
               /\ name[m] = c.managed[d.items[m].video.id][1]
    <3>1. d.items[m].video.id \in DOMAIN c.managed /\ ~ Moves(d, m)
      BY <1>1, <1>2, <1>6, <1>7, <1>15 DEF NothingToDo, RisingItems
    <3>2. CurrentName(d.items[m].video, c) = d.items[m].name
      BY <1>1, <1>3, <3>1, CurrentIsAName, <1>7 DEF Moves
    <3>3. CurrentName(d.items[m].video, c) = c.managed[d.items[m].video.id][1]
      BY <1>1, <1>3, <3>1, CurrentIsAName
    <3>4. QED BY <1>2, <1>7, <3>1, <3>2, <3>3 DEF RisingItems
  <2>2. QED BY <2>1
<1>9. \A m \in I : name[m] \in AppNames(inp)
  <2>1. ASSUME NEW m \in I PROVE name[m] \in AppNames(inp)
    <3>1. CurrentName(d.items[m].video, c) = name[m]
      BY <1>1, <1>3, <1>8, CurrentIsAName
    <3>2. QED BY <1>1, <1>3, <1>8, <3>1, CurrentIsAName
  <2>2. QED BY <2>1
<1>10. \A m \in I : /\ name[m].sha = d.wants[m].video.sha /\ name[m].nnn \in Nat
                         /\ \A l \in I : m < l => name[m].nnn < name[l].nnn
  BY <1>2, <1>7 DEF RisingItems
<1> HIDE DEF name
<1>11. ASSUME NEW x \in AppNames(inp) PROVE \E m \in I : x = name[m]
  <2>1. PICK id \in DOMAIN c.managed : \E k \in 1 .. Len(c.managed[id]) : c.managed[id][k] = x
    BY <1>4, EveryCopyIsListed
  <2>2. PICK k \in 1 .. Len(c.managed[id]) : c.managed[id][k] = x
    BY <2>1
  <2>3. id \in Placed(d)
    BY <1>1, <1>2 DEF NothingToDo
  <2>4. PICK m \in I : id = d.items[m].video.id
    BY <1>2, <1>6, <1>15, <2>3 DEF Placed, RisingItems
  <2>5. k = 1
    <3>1. ASSUME k # 1 PROVE FALSE
      <4> DEFINE s == c.managed[id]
                 S == AppNames(inp)
      <4>1. s \in Seq(S) /\ Len(s) >= 1 /\ k \in 1 .. Len(s)
        BY <1>1, <1>3 DEF ClassOK, CopiesApart
      <4> HIDE DEF s, S
      <4>2. k - 1 \in DOMAIN Tail(s) /\ Tail(s)[k - 1] = s[k]
        BY <3>1, <4>1
      <4>3. x \in ToSet(Tail(s))
        BY <2>2, <4>2 DEF ToSet, s
      <4>4. id \in {d.wants[i].video.id : i \in DOMAIN d.wants}
        BY <1>6, <1>7, <1>8, <2>4
      <4>5. x \in d.extra
        BY <1>1, <4>3, <4>4 DEF FurtherCopies, s
      <4>6. QED BY <1>2, <4>5 DEF NothingToDo
    <3>2. QED BY <3>1
  <2>6. QED BY <1>8, <2>2, <2>4, <2>5
<1>12. AppNames(inp) = {name[m] : m \in I}
  BY <1>9, <1>11
<1>13. ShowsOf(inp, d.wants, I)
  BY <1>10, <1>12 DEF ShowsOf
<1>14. QED BY <1>1, <1>13 DEF I

(* The contents of some wants.                                             *)
ContentsIn(W) == {w.video.sha : w \in W}

LEMMA ContentsListed ==
  ASSUME NEW W, NEW s \in Seq(W)
  PROVE  ContentsIn(ToSet(DistinctContent(s))) = ContentsIn(ToSet(s))
<1> DEFINE t == DistinctContent(s)
<1>1. PICK at : FirstOnes(t, s, at)
  BY FirstOnesPicked
<1>2. t \in Seq(W)
  BY DistinctContents DEF Schedule
<1> HIDE DEF t
<1>3. DOMAIN s = 1 .. Len(s) /\ DOMAIN t = 1 .. Len(t)
  BY <1>2
<1>4. \A k \in 1 .. Len(t) : \E i \in 1 .. Len(s) : t[k] = s[i]
  BY <1>1 DEF FirstOnes
<1>5. \A i \in 1 .. Len(s) : \E k \in 1 .. Len(t) : t[k].video.sha = s[i].video.sha
  BY <1>1 DEF FirstOnes
<1>6. ContentsIn(ToSet(t)) = ContentsIn(ToSet(s))
  <2>1. \A x : x \in ToSet(s) <=> \E i \in 1 .. Len(s) : x = s[i]
    BY <1>3 DEF ToSet
  <2>2. \A x : x \in ToSet(t) <=> \E k \in 1 .. Len(t) : x = t[k]
    BY <1>3 DEF ToSet
  <2>3. \A x \in ToSet(t) : x \in ToSet(s)
    BY <1>4, <2>1, <2>2
  <2>4. \A x \in ToSet(s) : \E y \in ToSet(t) : y.video.sha = x.video.sha
    BY <1>5, <2>1, <2>2
  <2>5. QED BY <2>3, <2>4 DEF ContentsIn
<1>7. QED BY <1>6 DEF t

(* What may have to wait in the staging folder.                            *)
Waiting(W, now) ==
  {w \in W : ValidWant(w) /\ (\/ w.fallback /\ IsActive(w, now)
                              \/ now < w.start /\ w.start <= now + Lookahead)}

LEMMA KeptContents ==
  ASSUME NEW inp, InputOK(inp), NEW now
  PROVE  ContentsIn(ToSet(KeepStaged(inp.wants, now)))
           = ContentsIn(Waiting(inp.wants, now)) \ ContentsIn(ToSet(DesiredWants(inp.wants, now)))
<1> DEFINE valid     == {w \in inp.wants : ValidWant(w)}
           fallbacks == {w \in valid : w.fallback /\ IsActive(w, now)}
           upcoming  == {w \in valid : now < w.start /\ w.start <= now + Lookahead}
           playing   == {w.video.sha : w \in ToSet(DesiredWants(inp.wants, now))}
           first     == InOrder(fallbacks)
           then      == InTime(upcoming)
           waiting   == first \o then
           I         == {i \in DOMAIN waiting : waiting[i].video.sha \notin playing}
           picked    == Picked(waiting, I)
           W         == inp.wants
<1>1. KeepStaged(inp.wants, now) = DistinctContent(picked)
  BY DEF KeepStaged
<1>2. fallbacks \in SUBSET W /\ upcoming \in SUBSET W
  OBVIOUS
<1>3. Waiting(W, now) = fallbacks \cup upcoming
  BY DEF Waiting
<1>4. playing = ContentsIn(ToSet(DesiredWants(inp.wants, now)))
  BY DEF ContentsIn
<1> HIDE DEF fallbacks, upcoming, playing
<1>5. IsFiniteSet(fallbacks) /\ IsFiniteSet(upcoming)
  BY <1>2, FS_Subset DEF InputOK
<1>6. Enumerates(first, fallbacks) /\ Enumerates(then, upcoming)
  BY <1>2, <1>5, InOrderEnumerates DEF InputOK
<1> HIDE DEF first, then, W
<1>7. /\ first \in Seq(W) /\ then \in Seq(W)
      /\ Len(first) \in Nat /\ Len(then) \in Nat
      /\ \A i \in 1 .. Len(first) : first[i] \in fallbacks
      /\ \A i \in 1 .. Len(then) : then[i] \in upcoming
      /\ \A w \in fallbacks : \E i \in 1 .. Len(first) : first[i] = w
      /\ \A w \in upcoming : \E i \in 1 .. Len(then) : then[i] = w
  BY <1>2, <1>6, EnumeratedIn DEF Enumerates
<1>8. waiting \in Seq(W) /\ Joins(first, then, waiting)
  BY <1>7, Joined
<1> HIDE DEF waiting
<1>9. \A i \in 1 .. Len(waiting) : waiting[i] \in fallbacks \cup upcoming
  <2>1. ASSUME NEW i \in 1 .. Len(waiting) PROVE waiting[i] \in fallbacks \cup upcoming
    <3>1. CASE i \in 1 .. Len(first)
      BY <1>7, <1>8, <3>1 DEF Joins
    <3>2. CASE i \notin 1 .. Len(first)
      <4>1. i \in Len(first) + 1 .. Len(waiting)
        BY <1>7, <1>8, <3>2 DEF Joins
      <4>2. QED BY <1>7, <1>8, <4>1 DEF Joins
    <3>3. QED BY <3>1, <3>2
  <2>2. QED BY <2>1
<1>10. \A w \in fallbacks \cup upcoming : \E i \in 1 .. Len(waiting) : waiting[i] = w
  <2>1. ASSUME NEW w \in fallbacks PROVE \E i \in 1 .. Len(waiting) : waiting[i] = w
    <3>1. PICK i \in 1 .. Len(first) : first[i] = w
      BY <1>7
    <3>2. i \in 1 .. Len(waiting) /\ waiting[i] = w
      BY <1>7, <1>8, <3>1 DEF Joins
    <3>3. QED BY <3>2
  <2>2. ASSUME NEW w \in upcoming PROVE \E i \in 1 .. Len(waiting) : waiting[i] = w
    <3>1. PICK i \in 1 .. Len(then) : then[i] = w
      BY <1>7
    <3> DEFINE a == Len(first)
               b == Len(then)
               c == Len(waiting)
    <3>2. a \in Nat /\ b \in Nat /\ c = a + b /\ i \in 1 .. b
      BY <1>7, <1>8 DEF Joins
    <3>3. \A j \in a + 1 .. c : j - a \in 1 .. b /\ waiting[j] = then[j - a]
      BY <1>8 DEF Joins
    <3> HIDE DEF a, b, c
    <3>4. a + i \in a + 1 .. c /\ a + i \in 1 .. c /\ (a + i) - a = i
      BY <3>2
    <3>5. waiting[a + i] = w
      BY <3>1, <3>3, <3>4
    <3>6. QED BY <3>4, <3>5 DEF c
  <2>3. QED BY <2>1, <2>2
<1>11. DOMAIN waiting = 1 .. Len(waiting)
  BY <1>8
<1>12. I \subseteq DOMAIN waiting
  OBVIOUS
<1>13. \A i \in DOMAIN waiting : i \in I <=> waiting[i].video.sha \notin playing
  OBVIOUS
<1> HIDE DEF I
<1> DEFINE m  == Cardinality(I)
           at == Ascending(I)
<1>14. /\ m \in Nat /\ at \in [1 .. m -> I]
       /\ \A x \in I : \E i \in 1 .. m : at[i] = x
       /\ picked = [k \in 1 .. m |-> waiting[at[k]]]
       /\ picked \in Seq(W)
  BY <1>8, <1>12, PickedInOrder
<1> HIDE DEF m, at, picked
<1>15. ToSet(picked) = {waiting[i] : i \in I}
  <2>1. DOMAIN picked = 1 .. m /\ \A k \in 1 .. m : at[k] \in I /\ picked[k] = waiting[at[k]]
    BY <1>14
  <2>2. \A i \in I : \E k \in 1 .. m : at[k] = i
    BY <1>14
  <2>3. \A x \in ToSet(picked) : x \in {waiting[i] : i \in I}
    BY <2>1 DEF ToSet
  <2>4. \A i \in I : waiting[i] \in ToSet(picked)
    BY <2>1, <2>2 DEF ToSet
  <2>5. QED BY <2>3, <2>4
<1>16. {waiting[i] : i \in I} = {w \in fallbacks \cup upcoming : w.video.sha \notin playing}
  BY <1>9, <1>10, <1>11, <1>12, <1>13
<1>17. ContentsIn(ToSet(picked)) = ContentsIn(fallbacks \cup upcoming) \ playing
  BY <1>15, <1>16 DEF ContentsIn
<1>18. ContentsIn(ToSet(DistinctContent(picked))) = ContentsIn(ToSet(picked))
  BY <1>14, ContentsListed
<1>19. QED BY <1>1, <1>3, <1>4, <1>17, <1>18 DEF W

LEMMA StagedIsKept ==
  ASSUME NEW inp, InputOK(inp), Plain(inp), inp.maxBytes = None, Plan(inp) = <<>>,
         DesiredWants(inp.wants, inp.now) # <<>>
  PROVE  {s.sha : s \in {t \in DOMAIN inp.remote.staging : ~ t.part}}
           = ContentsIn(ToSet(KeepStaged(inp.wants, inp.now)))
<1> DEFINE d == DraftIn(inp)
           c == Classify(inp.remote, inp.library)
           n == Len(d.wants)
           k == Len(d.keep)
           kept == {d.keep[i].video.sha : i \in DOMAIN d.keep}
<1>1. /\ d.wants = DesiredWants(inp.wants, inp.now) /\ d.c = c
      /\ d.keep = KeepStaged(inp.wants, inp.now)
  BY DEF DraftIn, DraftOf
<1>2. DraftOK(inp, d) /\ RisingItems(d) /\ NothingToDo(d, {})
  BY DraftIsOK, ItemsRise, EmptyPlanUnlimited
<1>3. {s.sha : s \in {t \in DOMAIN inp.remote.staging : ~ t.part}} = c.staged \cup c.corrupt \cup c.orphan
  <2> DEFINE whole == {s \in DOMAIN inp.remote.staging : ~ s.part}
             known(s) == {v \in inp.library : v.sha = s.sha}
             complete(s) == \E v \in known(s) : v.size = inp.remote.staging[s].size
  <2>1. /\ c.staged = {s.sha : s \in {t \in whole : complete(t)}}
        /\ c.corrupt = {s.sha : s \in {t \in whole : known(t) # {} /\ ~ complete(t)}}
        /\ c.orphan = {s.sha : s \in {t \in whole : known(t) = {}}}
    BY DEF Classify
  <2>2. \A s : complete(s) => known(s) # {}
    OBVIOUS
  <2> HIDE DEF known, complete, whole, c
  <2>3. {s.sha : s \in whole} = c.staged \cup c.corrupt \cup c.orphan
    BY <2>1, <2>2
  <2>4. QED BY <2>3 DEF whole
<1> HIDE DEF d, c
<1>4. Schedule(d.wants, inp.wants) /\ Schedule(d.keep, inp.wants) /\ d.items \in Seq(ItemsFor(inp))
  BY <1>2, DraftItems DEF DraftOK
<1>5. /\ n \in Nat /\ DOMAIN d.wants = 1 .. n /\ Len(d.items) = n /\ DOMAIN d.items = 1 .. n
      /\ k \in Nat /\ DOMAIN d.keep = 1 .. k
  BY <1>2, <1>4 DEF Schedule, RisingItems
<1>6. Lasts(d, {})
  <2> DEFINE s == d.wants
             W == inp.wants
  <2>1. s \in Seq(W) /\ s # <<>>
    BY <1>1, <1>4 DEF Schedule
  <2> HIDE DEF s, W
  <2>2. 1 \in 1 .. Len(s)
    BY <2>1
  <2>3. QED BY <1>5, <2>2 DEF Lasts, s
<1>7. kept = ContentsIn(ToSet(d.keep))
  BY DEF ContentsIn, ToSet
<1>8. \A m \in 1 .. n : d.items[m].video = d.wants[m].video /\ d.items[m].video.id \in DOMAIN d.c.managed
  BY <1>2, <1>5 DEF RisingItems, NothingToDo
<1>9. Needed(d) = kept
  <2> DEFINE entering == {i \in ToSet(d.items) : i.video.id \notin DOMAIN d.c.managed}
             unnamed  == {u \in ToSet(d.wants) : u.video.id \notin Placed(d)}
  <2>1. entering = {}
    BY <1>5, <1>8 DEF ToSet
  <2>2. \A m \in 1 .. n : d.wants[m].video.id \in Placed(d)
    BY <1>5, <1>8 DEF Placed
  <2>3. unnamed = {}
    BY <1>5, <2>2 DEF ToSet
  <2>4. Needed(d) = kept \cup {item.video.sha : item \in entering} \cup {w.video.sha : w \in unnamed}
    BY DEF Needed
  <2> HIDE DEF entering, unnamed, kept
  <2>5. QED BY <2>1, <2>3, <2>4
<1>10. c.staged \subseteq kept /\ c.corrupt = {} /\ c.orphan = {}
  BY <1>1, <1>2, <1>9 DEF NothingToDo
<1>11. kept \cap ContentsIn(ToSet(d.wants)) = {}
  <2> HIDE DEF kept, d
  <2>1. kept = ContentsIn(Waiting(inp.wants, inp.now)) \ ContentsIn(ToSet(d.wants))
    BY <1>1, <1>7, KeptContents
  <2>2. QED BY <2>1
<1>12. ASSUME NEW i \in 1 .. k PROVE d.keep[i].video.sha \in c.staged
  <2>1. CASE d.keep[i].video.id \in DOMAIN d.c.managed
    <3>1. d.keep[i].video.id \in Placed(d)
      BY <1>2, <1>6, <2>1 DEF NothingToDo
    <3>2. PICK m \in 1 .. n : d.keep[i].video.id = d.items[m].video.id
      BY <1>5, <3>1 DEF Placed
    <3>3. d.keep[i].video \in inp.library /\ d.wants[m].video \in inp.library
      <4>1. d.keep[i] \in inp.wants /\ d.wants[m] \in inp.wants
        BY <1>4 DEF Schedule
      <4>2. QED BY <4>1 DEF InputOK, WantsFor
    <3>4. d.keep[i].video = d.wants[m].video
      BY <1>8, <3>2, <3>3 DEF InputOK, LibraryOK
    <3>5. d.keep[i].video.sha \in kept /\ d.wants[m] \in ToSet(d.wants)
      BY <1>5 DEF ToSet
    <3>6. d.wants[m].video.sha \in ContentsIn(ToSet(d.wants))
      BY <3>5 DEF ContentsIn
    <3>7. QED BY <1>11, <3>4, <3>5, <3>6
  <2>2. CASE d.keep[i].video.id \notin DOMAIN d.c.managed
    <3>1. d.keep[i].video.sha \in d.c.staged
      BY <1>2, <1>6, <2>2, KeptIsThere DEF Plain
    <3>2. QED BY <1>1, <3>1
  <2>3. QED BY <2>1, <2>2
<1>13. c.staged = kept
  BY <1>5, <1>10, <1>12
<1>14. QED BY <1>1, <1>3, <1>7, <1>10, <1>13

(* What an empty plan says, the other half of PlansAreSafe: when the       *)
(* planner finds nothing to do, there is no limit and something is to      *)
(* play, the app's files in the folder are exactly the wanted contents,    *)
(* once each and in the schedule's order, and the staging folder holds     *)
(* exactly what is to be kept ready (planner.py, plan), for every library, *)
(* schedule, listing and numbering.                                        *)
THEOREM NothingLeftToDo ==
  ASSUME NEW inp, InputOK(inp), Plain(inp), inp.maxBytes = None, Plan(inp) = <<>>,
         DesiredWants(inp.wants, inp.now) # <<>>
  PROVE  /\ ShowsInOrder(inp, DesiredWants(inp.wants, inp.now))
         /\ {s.sha : s \in {t \in DOMAIN inp.remote.staging : ~ t.part}}
              = ContentsIn(ToSet(KeepStaged(inp.wants, inp.now)))
<1> DEFINE d == DraftIn(inp)
           t == DesiredWants(inp.wants, inp.now)
<1>1. NothingToDo(d, {}) /\ RisingItems(d) /\ d.wants = t /\ d.c = Classify(inp.remote, inp.library)
  BY EmptyPlanUnlimited, ItemsRise DEF DraftIn, DraftOf
<1>2. Schedule(t, inp.wants)
  BY DesiredIsASchedule
<1> HIDE DEF d, t
<1>3. t \in Seq(inp.wants) /\ t # <<>>
  BY <1>2 DEF Schedule, t
<1>4. 1 \in 1 .. Len(t)
  <2> DEFINE W == inp.wants
  <2> HIDE DEF W
  <2>1. t \in Seq(W) /\ t # <<>>
    BY <1>3 DEF W
  <2>2. QED BY <2>1
<1>5. Lasts(d, {})
  BY <1>1, <1>4 DEF Lasts, RisingItems
<1>6. Showing(inp) = 1 .. Len(t)
  <2>1. \A i \in 1 .. Len(t) : t[i].video.id \in DOMAIN d.c.managed
    BY <1>1 DEF RisingItems, NothingToDo
  <2>2. QED BY <1>1, <2>1, ShowingAre DEF t
<1>7. ShowsInOrder(inp, t)
  BY <1>1, <1>5, <1>6, NamesShown DEF d, t, ShowsInOrder
<1>8. QED BY <1>7, StagedIsKept DEF t

-----------------------------------------------------------------------------
(* Bytes                                                                   *)

(* Files of which the listing gives the size.                              *)
SizesKnown(files) == IsFiniteSet(DOMAIN files) /\ \A n \in DOMAIN files : files[n].size \in Nat

Space(files) == Cardinality(BytesIn(files))

BytesOfFile(files, n) == {n} \X (1 .. files[n].size)

LEMMA OneFile ==
  ASSUME NEW files, NEW n, files[n].size \in Nat
  PROVE  /\ IsFiniteSet(BytesOfFile(files, n))
         /\ Cardinality(BytesOfFile(files, n)) = files[n].size
<1> DEFINE m == files[n].size
           I == 1 .. m
<1>1. IsFiniteSet(I) /\ Cardinality(I) = m
  <2>1. m \in Nat
    OBVIOUS
  <2> HIDE DEF m
  <2>2. IsFiniteSet(1 .. m) /\ Cardinality(1 .. m) = IF 1 > m THEN 0 ELSE m - 1 + 1
    BY <2>1, FS_Interval
  <2>3. QED BY <2>1, <2>2
<1>2. IsFiniteSet({n}) /\ Cardinality({n}) = 1
  BY FS_Singleton
<1> HIDE DEF I
<1>3. IsFiniteSet({n} \X I) /\ Cardinality({n} \X I) = Cardinality({n}) * Cardinality(I)
  BY <1>1, <1>2, FS_Product
<1>4. QED BY <1>1, <1>2, <1>3 DEF BytesOfFile, I

LEMMA SpaceKnown ==
  ASSUME NEW files, SizesKnown(files)
  PROVE  IsFiniteSet(BytesIn(files)) /\ Space(files) \in Nat
<1> DEFINE S == {BytesOfFile(files, n) : n \in DOMAIN files}
           f == [n \in DOMAIN files |-> BytesOfFile(files, n)]
<1>1. IsFiniteSet({f[n] : n \in DOMAIN files})
  <2>1. DOMAIN f = DOMAIN files /\ IsFiniteSet(DOMAIN files)
    BY DEF SizesKnown
  <2> HIDE DEF f
  <2>2. QED BY <2>1, ImageFinite
<1>2. S = {f[n] : n \in DOMAIN files}
  OBVIOUS
<1>3. \A x \in S : IsFiniteSet(x)
  BY OneFile DEF SizesKnown
<1>4. IsFiniteSet(UNION S)
  <2> HIDE DEF S, f
  <2>1. QED BY <1>1, <1>2, <1>3, FS_UNION
<1>5. BytesIn(files) = UNION S
  BY DEF BytesIn, BytesOfFile
<1>6. QED BY <1>4, <1>5, FS_CardinalityType DEF Space

LEMMA SpaceSame ==
  ASSUME NEW f, NEW g, DOMAIN f = DOMAIN g, \A n \in DOMAIN f : f[n].size = g[n].size
  PROVE  BytesIn(f) = BytesIn(g) /\ Space(f) = Space(g)
BY DEF BytesIn, Space

LEMMA SpaceEmpty ==
  ASSUME NEW f, DOMAIN f = {}
  PROVE  Space(f) = 0
<1>1. BytesIn(f) = {}
  BY DEF BytesIn
<1>2. QED BY <1>1, FS_EmptySet DEF Space

(* g is f without x.                                                       *)
LEMMA SpaceSplit ==
  ASSUME NEW f, SizesKnown(f), NEW x \in DOMAIN f,
         NEW g, DOMAIN g = DOMAIN f \ {x}, \A n \in DOMAIN g : g[n].size = f[n].size
  PROVE  SizesKnown(g) /\ Space(g) \in Nat /\ Space(f) = Space(g) + f[x].size
<1>1. SizesKnown(g)
  <2>1. IsFiniteSet(DOMAIN g)
    BY FS_RemoveElement DEF SizesKnown
  <2>2. QED BY <2>1 DEF SizesKnown
<1> DEFINE X == BytesOfFile(f, x)
<1>2. IsFiniteSet(X) /\ Cardinality(X) = f[x].size
  BY OneFile DEF SizesKnown
<1>3. IsFiniteSet(BytesIn(g)) /\ Space(g) \in Nat
  BY <1>1, SpaceKnown
<1>4. BytesIn(f) = BytesIn(g) \cup X
  BY DEF BytesIn, BytesOfFile
<1>5. BytesIn(g) \cap X = {}
  BY DEF BytesIn, BytesOfFile
<1> HIDE DEF X
<1>6. Cardinality(BytesIn(g) \cup X) = Cardinality(BytesIn(g)) + Cardinality(X)
  <2> DEFINE Y == BytesIn(g)
  <2>1. IsFiniteSet(Y) /\ Cardinality(Y) \in Nat /\ Cardinality(X) \in Nat
    BY <1>2, <1>3 DEF Space, SizesKnown
  <2>2. Cardinality(Y \cap X) = 0
    BY <1>5, FS_EmptySet
  <2> HIDE DEF Y
  <2>3. Cardinality(Y \cup X) = Cardinality(Y) + Cardinality(X) - Cardinality(Y \cap X)
    BY <1>2, <2>1, FS_Union
  <2>4. Cardinality(Y \cup X) = Cardinality(Y) + Cardinality(X)
    BY <2>1, <2>2, <2>3
  <2>5. QED BY <2>4 DEF Y
<1>7. QED BY <1>1, <1>2, <1>3, <1>4, <1>6 DEF Space

-----------------------------------------------------------------------------
(* The video folder, whose directories take no space.                      *)

FilesIn(root) == Restrict(root, {n \in DOMAIN root : ~ root[n].isDir})

SizeIn(root, x) == IF root[x].isDir THEN 0 ELSE root[x].size

LEMMA FilesInAre ==
  ASSUME NEW root, SizesKnown(root)
  PROVE  /\ RootBytes(root) = Space(FilesIn(root))
         /\ DOMAIN FilesIn(root) = {n \in DOMAIN root : ~ root[n].isDir}
         /\ \A n \in DOMAIN FilesIn(root) : FilesIn(root)[n] = root[n]
         /\ SizesKnown(FilesIn(root)) /\ RootBytes(root) \in Nat
<1>1. /\ RootBytes(root) = Space(FilesIn(root))
      /\ DOMAIN FilesIn(root) = {n \in DOMAIN root : ~ root[n].isDir}
      /\ \A n \in DOMAIN FilesIn(root) : FilesIn(root)[n] = root[n]
  BY DEF RootBytes, FilesIn, Space, Restrict
<1>2. SizesKnown(FilesIn(root))
  <2>1. DOMAIN FilesIn(root) \in SUBSET DOMAIN root
    BY <1>1
  <2>2. IsFiniteSet(DOMAIN FilesIn(root))
    BY <2>1, FS_Subset DEF SizesKnown
  <2>3. QED BY <1>1, <2>2 DEF SizesKnown
<1>3. QED BY <1>1, <1>2, SpaceKnown

LEMMA RootSame ==
  ASSUME NEW root, NEW g, SizesKnown(root), DOMAIN g = DOMAIN root,
         \A n \in DOMAIN root : g[n].size = root[n].size /\ g[n].isDir = root[n].isDir
  PROVE  SizesKnown(g) /\ RootBytes(g) = RootBytes(root)
<1>1. SizesKnown(g)
  BY DEF SizesKnown
<1>2. DOMAIN FilesIn(g) = DOMAIN FilesIn(root)
  BY <1>1, FilesInAre
<1>3. \A n \in DOMAIN FilesIn(g) : FilesIn(g)[n].size = FilesIn(root)[n].size
  BY <1>1, <1>2, FilesInAre
<1>4. QED BY <1>1, <1>2, <1>3, FilesInAre, SpaceSame

LEMMA RootSplit ==
  ASSUME NEW root, SizesKnown(root), NEW x \in DOMAIN root,
         NEW g, DOMAIN g = DOMAIN root \ {x},
         \A n \in DOMAIN g : g[n].size = root[n].size /\ g[n].isDir = root[n].isDir
  PROVE  /\ SizesKnown(g) /\ RootBytes(g) \in Nat /\ SizeIn(root, x) \in Nat
         /\ RootBytes(root) = RootBytes(g) + SizeIn(root, x)
<1>1. SizesKnown(g)
  <2>1. IsFiniteSet(DOMAIN g)
    BY FS_RemoveElement DEF SizesKnown
  <2>2. QED BY <2>1 DEF SizesKnown
<1>2. DOMAIN FilesIn(g) = DOMAIN FilesIn(root) \ {x}
  BY <1>1, FilesInAre
<1>3. \A n \in DOMAIN FilesIn(g) : FilesIn(g)[n].size = FilesIn(root)[n].size
  <2> TAKE n \in DOMAIN FilesIn(g)
  <2>1. n \in DOMAIN g /\ FilesIn(g)[n] = g[n]
    BY <1>1, FilesInAre
  <2>2. FilesIn(root)[n] = root[n]
    BY <1>2, FilesInAre
  <2>3. QED BY <2>1, <2>2
<1>4. SizeIn(root, x) \in Nat /\ RootBytes(g) \in Nat /\ RootBytes(root) \in Nat
  BY <1>1, FilesInAre DEF SizeIn, SizesKnown
<1>5. CASE root[x].isDir
  <2>1. x \notin DOMAIN FilesIn(root)
    BY <1>5, FilesInAre
  <2>2. Space(FilesIn(g)) = Space(FilesIn(root))
    BY <1>2, <1>3, <2>1, SpaceSame
  <2>3. RootBytes(root) = RootBytes(g)
    BY <1>1, <2>2, FilesInAre
  <2>4. SizeIn(root, x) = 0
    BY <1>5 DEF SizeIn
  <2>5. QED BY <1>1, <1>4, <2>3, <2>4
<1>6. CASE ~ root[x].isDir
  <2>1. x \in DOMAIN FilesIn(root) /\ FilesIn(root)[x] = root[x] /\ SizesKnown(FilesIn(root))
    BY <1>6, FilesInAre
  <2>2. Space(FilesIn(root)) = Space(FilesIn(g)) + root[x].size
    <3> DEFINE u == FilesIn(root)
               w == FilesIn(g)
    <3>1. SizesKnown(u) /\ x \in DOMAIN u /\ u[x] = root[x] /\ DOMAIN w = DOMAIN u \ {x}
      BY <1>2, <2>1
    <3>2. \A n \in DOMAIN w : w[n].size = u[n].size
      BY <1>3
    <3> HIDE DEF u, w
    <3>3. Space(u) = Space(w) + u[x].size
      BY <3>1, <3>2, SpaceSplit
    <3>4. QED BY <3>1, <3>3 DEF u, w
  <2>3. QED BY <1>1, <1>4, <1>6, <2>2, FilesInAre DEF SizeIn
<1>7. QED BY <1>5, <1>6

LEMMA OneRoot ==
  ASSUME NEW root, SizesKnown(root), NEW x \in DOMAIN root
  PROVE  RootBytes(Restrict(root, {x})) = SizeIn(root, x) /\ SizeIn(root, x) \in Nat
<1> DEFINE r == Restrict(root, {x})
           e == Restrict(root, {})
<1>1. DOMAIN r = {x} /\ r[x] = root[x] /\ DOMAIN e = {}
  BY DEF Restrict
<1>2. SizesKnown(r) /\ SizesKnown(e)
  <2>1. IsFiniteSet({x}) /\ IsFiniteSet({})
    BY FS_Singleton, FS_EmptySet
  <2>2. r[x].size \in Nat
    BY <1>1 DEF SizesKnown
  <2>3. QED BY <1>1, <2>1, <2>2 DEF SizesKnown
<1> HIDE DEF r, e
<1>3. RootBytes(r) = RootBytes(e) + SizeIn(r, x) /\ SizeIn(r, x) \in Nat
  BY <1>1, <1>2, RootSplit
<1>4. RootBytes(e) = 0
  BY <1>1, <1>2, FilesInAre, SpaceEmpty
<1>5. SizeIn(r, x) = SizeIn(root, x)
  BY <1>1 DEF SizeIn
<1>6. QED BY <1>3, <1>4, <1>5 DEF r

-----------------------------------------------------------------------------
(* How many bytes are on the Pi while a plan runs                          *)

SizesOK(remote) == SizesKnown(remote.root) /\ SizesKnown(remote.staging)

(* What an action sends has a size, and what it deletes was listed.        *)
Accounted(remote, a) ==
  /\ a.kind = "upload" => a.video.size \in Nat
  /\ a.kind \in RootDeletes => a.src \in DOMAIN remote.root
  /\ a.kind \in StagingDeletes => a.src \in DOMAIN remote.staging

LEMMA DeltaIs ==
  ASSUME NEW remote, SizesOK(remote), NEW a, Accounted(remote, a)
  PROVE  /\ Delta(remote, a) \in Int
         /\ a.kind = "upload" => Delta(remote, a) = a.video.size
         /\ a.kind \in RootDeletes =>
              /\ Delta(remote, a) = - SizeIn(remote.root, a.src)
              /\ SizeIn(remote.root, a.src) \in Nat
         /\ a.kind \in StagingDeletes =>
              /\ Delta(remote, a) = - remote.staging[a.src].size
              /\ remote.staging[a.src].size \in Nat
         /\ a.kind \notin RootDeletes \cup StagingDeletes \cup {"upload"} => Delta(remote, a) = 0
         /\ a.kind # "upload" => Delta(remote, a) <= 0
<1>1. CASE a.kind = "upload"
  BY <1>1 DEF Delta, Accounted, RootDeletes, StagingDeletes
<1>2. CASE a.kind \in RootDeletes
  <2>1. /\ RootBytes(Restrict(remote.root, {a.src})) = SizeIn(remote.root, a.src)
        /\ SizeIn(remote.root, a.src) \in Nat
    BY <1>2, OneRoot DEF SizesOK, Accounted
  <2>2. Delta(remote, a) = - RootBytes(Restrict(remote.root, {a.src}))
    BY <1>2 DEF Delta, RootDeletes, StagingDeletes
  <2>3. QED BY <1>2, <2>1, <2>2 DEF RootDeletes, StagingDeletes
<1>3. CASE a.kind \in StagingDeletes
  <2>1. remote.staging[a.src].size \in Nat
    BY <1>3 DEF SizesOK, SizesKnown, Accounted
  <2>2. Delta(remote, a) = - remote.staging[a.src].size
    BY <1>3 DEF Delta, RootDeletes, StagingDeletes
  <2>3. QED BY <1>3, <2>1, <2>2 DEF RootDeletes, StagingDeletes
<1>4. CASE a.kind \notin RootDeletes \cup StagingDeletes \cup {"upload"}
  BY <1>4 DEF Delta
<1>5. QED BY <1>1, <1>2, <1>3, <1>4

(* g[k] is what is on the Pi after the first k actions.                    *)
Spent(remote, s, g) ==
  /\ g \in [0 .. Len(s) -> Int]
  /\ g[0] = BytesOf(remote)
  /\ \A k \in 1 .. Len(s) : g[k] = g[k - 1] + Delta(remote, s[k])

LEMMA UsageIs ==
  ASSUME NEW remote, NEW s, Len(s) \in Nat, NEW g, Spent(remote, s, g)
  PROVE  Usage(remote, s) = g[Len(s)]
<1> DEFINE n       == Len(s)
           Body(f) == [k \in 0 .. n |-> IF k = 0 THEN BytesOf(remote)
                                                 ELSE f[k - 1] + Delta(remote, s[k])]
           used    == CHOOSE f : f = Body(f)
<1>1. Usage(remote, s) = used[n]
  BY DEF Usage
<1>2. n \in Nat /\ g \in [0 .. n -> Int] /\ g[0] = BytesOf(remote)
      /\ \A k \in 1 .. n : g[k] = g[k - 1] + Delta(remote, s[k])
  BY DEF Spent
<1> HIDE DEF n
<1>3. g = Body(g)
  <2> DEFINE h == [k \in 0 .. n |-> IF k = 0 THEN BytesOf(remote) ELSE g[k - 1] + Delta(remote, s[k])]
  <2>1. \A k \in 0 .. n : g[k] = h[k]
    BY <1>2
  <2>2. g = [k \in 0 .. n |-> g[k]]
    BY <1>2
  <2>3. g = h
    BY <2>1, <2>2
  <2>4. QED BY <2>3
<1>4. used = Body(used)
  <2> HIDE DEF Body
  <2>1. QED BY <1>3
<1> HIDE DEF used
<1>5. used[0] = BytesOf(remote) /\ \A k \in 1 .. n : used[k] = used[k - 1] + Delta(remote, s[k])
  BY <1>2, <1>4
<1> DEFINE Good == {k \in 0 .. n : used[k] = g[k]}
<1>6. 0 \in Good
  BY <1>2, <1>5
<1>7. \A k \in 1 .. n : k - 1 \in Good => k \in Good
  BY <1>2, <1>5
<1>8. \A k \in 0 .. n : k \in Good
  <2> HIDE DEF Good
  <2>1. QED BY <1>2, <1>6, <1>7, Climb
<1>9. n \in 0 .. n
  BY <1>2
<1>10. QED BY <1>1, <1>8, <1>9 DEF n

(* It never passes a limit.                                                *)
Room(remote, s, limit) ==
  /\ \A i \in 1 .. Len(s) : Accounted(remote, s[i])
  /\ \E g : Spent(remote, s, g) /\ \A k \in 0 .. Len(s) : g[k] <= limit

LEMMA RoomAtFirst ==
  ASSUME NEW remote, BytesOf(remote) \in Int, NEW limit, BytesOf(remote) <= limit
  PROVE  Room(remote, <<>>, limit) /\ Usage(remote, <<>>) = BytesOf(remote)
<1> DEFINE g == [k \in 0 .. 0 |-> BytesOf(remote)]
<1>1. Len(<<>>) = 0 /\ 1 .. 0 = {} /\ 0 .. 0 = {0} /\ 0 \in Nat
  OBVIOUS
<1>2. g \in [0 .. 0 -> Int] /\ g[0] = BytesOf(remote)
  OBVIOUS
<1> HIDE DEF g
<1>3. Spent(remote, <<>>, g)
  BY <1>1, <1>2 DEF Spent
<1>4. QED BY <1>1, <1>2, <1>3, UsageIs DEF Room

LEMMA RoomEnds ==
  ASSUME NEW remote, NEW T, NEW s \in Seq(T), NEW limit, Room(remote, s, limit)
  PROVE  Usage(remote, s) \in Int /\ Usage(remote, s) <= limit
<1>1. PICK g : Spent(remote, s, g) /\ \A k \in 0 .. Len(s) : g[k] <= limit
  BY DEF Room
<1>2. Len(s) \in Nat /\ Len(s) \in 0 .. Len(s)
  OBVIOUS
<1>3. QED BY <1>1, <1>2, UsageIs DEF Spent

(* One more action.                                                        *)
LEMMA RoomMore ==
  ASSUME NEW remote, SizesOK(remote), NEW T, NEW s \in Seq(T), NEW limit \in Int, Room(remote, s, limit),
         NEW a \in T, Accounted(remote, a), Usage(remote, s) + Delta(remote, a) <= limit
  PROVE  /\ Room(remote, Append(s, a), limit)
         /\ Usage(remote, Append(s, a)) = Usage(remote, s) + Delta(remote, a)
<1> DEFINE n == Len(s)
           t == Append(s, a)
           x == Delta(remote, a)
<1>1. n \in Nat /\ Len(t) = n + 1 /\ t[n + 1] = a /\ \A i \in 1 .. n : t[i] = s[i]
  OBVIOUS
<1>2. PICK g : Spent(remote, s, g) /\ \A k \in 0 .. n : g[k] <= limit
  BY DEF Room
<1>3. Usage(remote, s) = g[n]
  BY <1>1, <1>2, UsageIs
<1>4. x \in Int
  BY DeltaIs
<1>5. \A i \in 1 .. n : Accounted(remote, s[i])
  BY DEF Room
<1>6. g[n] + x <= limit
  BY <1>3
<1>7. g \in [0 .. n -> Int] /\ g[0] = BytesOf(remote)
      /\ \A k \in 1 .. n : g[k] = g[k - 1] + Delta(remote, s[k])
  BY <1>2 DEF Spent
<1> HIDE DEF t, n
<1> DEFINE h == [k \in 0 .. n + 1 |-> IF k = n + 1 THEN g[n] + x ELSE g[k]]
<1>8. h \in [0 .. n + 1 -> Int] /\ h[0] = g[0] /\ h[n + 1] = g[n] + x
      /\ \A k \in 0 .. n : h[k] = g[k]
  BY <1>1, <1>4, <1>7
<1> HIDE DEF h, x
<1>9. ASSUME NEW k \in 1 .. n + 1 PROVE h[k] = h[k - 1] + Delta(remote, t[k])
  <2>1. CASE k = n + 1
    <3>1. k - 1 = n /\ n \in 0 .. n
      BY <1>1, <2>1
    <3>2. QED BY <1>1, <1>8, <2>1, <3>1 DEF x
  <2>2. CASE k # n + 1
    <3>1. k \in 1 .. n /\ k \in 0 .. n /\ k - 1 \in 0 .. n
      BY <1>1, <2>2
    <3>2. QED BY <1>1, <1>7, <1>8, <3>1
  <2>3. QED BY <2>1, <2>2
<1>10. Spent(remote, t, h)
  BY <1>1, <1>7, <1>8, <1>9 DEF Spent
<1>11. ASSUME NEW k \in 0 .. n + 1 PROVE h[k] <= limit
  <2>1. k = n + 1 \/ k \in 0 .. n
    BY <1>1
  <2>2. QED BY <1>2, <1>6, <1>8, <2>1
<1>12. \A i \in 1 .. n + 1 : Accounted(remote, t[i])
  BY <1>1, <1>5
<1>13. Room(remote, t, limit)
  BY <1>1, <1>10, <1>11, <1>12 DEF Room
<1>14. Usage(remote, t) = g[n] + x
  BY <1>1, <1>8, <1>10, UsageIs
<1>15. QED BY <1>3, <1>13, <1>14 DEF t, x, n

(* A list, one element after another.                                      *)
LEMMA GrowsBy ==
  ASSUME NEW T, NEW s \in Seq(T), NEW t \in Seq(T)
  PROVE  /\ Len(t) \in Nat
         /\ s \o SubSeq(t, 1, 0) = s
         /\ s \o SubSeq(t, 1, Len(t)) = s \o t
         /\ \A k \in 0 .. Len(t) : s \o SubSeq(t, 1, k) \in Seq(T)
         /\ \A k \in 1 .. Len(t) : /\ t[k] \in T
                                   /\ s \o SubSeq(t, 1, k) = Append(s \o SubSeq(t, 1, k - 1), t[k])
<1>1. Len(t) \in Nat
  OBVIOUS
<1>2. SubSeq(t, 1, 0) = <<>> /\ SubSeq(t, 1, Len(t)) = t
  OBVIOUS
<1>3. \A k \in 0 .. Len(t) : SubSeq(t, 1, k) \in Seq(T)
  OBVIOUS
<1>4. ASSUME NEW k \in 1 .. Len(t)
      PROVE  /\ t[k] \in T
             /\ s \o SubSeq(t, 1, k) = Append(s \o SubSeq(t, 1, k - 1), t[k])
  <2> DEFINE u == SubSeq(t, 1, k - 1)
             w == SubSeq(t, 1, k)
             x == t[k]
  <2>1. /\ u \in Seq(T) /\ x \in T /\ w \in Seq(T) /\ Len(u) = k - 1 /\ Len(w) = k
        /\ \A i \in 1 .. k : w[i] = t[i]
        /\ \A i \in 1 .. k - 1 : u[i] = t[i]
    OBVIOUS
  <2>2. w = Append(u, x)
    <3> HIDE DEF u, w
    <3>1. Append(u, x) \in Seq(T) /\ Len(Append(u, x)) = k
          /\ \A i \in 1 .. k : Append(u, x)[i] = IF i = k THEN x ELSE u[i]
      BY <2>1
    <3>2. \A i \in 1 .. k : Append(u, x)[i] = w[i]
      BY <2>1, <3>1
    <3> HIDE DEF x
    <3>3. QED BY <2>1, <3>1, <3>2
  <2> HIDE DEF u, w, x
  <2>3. s \o Append(u, x) = Append(s \o u, x)
    BY <2>1
  <2>4. QED BY <2>1, <2>2, <2>3 DEF u, w, x
<1>5. QED BY <1>1, <1>2, <1>3, <1>4

(* Actions that send nothing take no room.                                 *)
LEMMA RoomOn ==
  ASSUME NEW remote, SizesOK(remote), NEW T, NEW s \in Seq(T), NEW limit \in Int, Room(remote, s, limit),
         NEW t \in Seq(T), \A i \in 1 .. Len(t) : Accounted(remote, t[i]) /\ t[i].kind # "upload"
  PROVE  Room(remote, s \o t, limit)
<1> DEFINE n    == Len(t)
           u(k) == s \o SubSeq(t, 1, k)
           Good == {k \in 0 .. n : Room(remote, u(k), limit)}
<1>1. /\ n \in Nat /\ u(0) = s /\ u(n) = s \o t
      /\ \A k \in 0 .. n : u(k) \in Seq(T)
      /\ \A k \in 1 .. n : t[k] \in T /\ u(k) = Append(u(k - 1), t[k])
  <2>1. \A k \in 0 .. n : u(k) \in Seq(T)
    BY GrowsBy
  <2>2. \A k \in 1 .. n : t[k] \in T /\ u(k) = Append(u(k - 1), t[k])
    BY GrowsBy
  <2>3. QED BY <2>1, <2>2, GrowsBy
<1> HIDE DEF u
<1>2. 0 \in Good
  BY <1>1
<1>3. ASSUME NEW k \in 1 .. n, k - 1 \in Good PROVE k \in Good
  <2> DEFINE p == u(k - 1)
             a == t[k]
  <2>1. p \in Seq(T) /\ a \in T /\ u(k) = Append(p, a) /\ Room(remote, p, limit)
    BY <1>1, <1>3
  <2>2. Accounted(remote, a) /\ a.kind # "upload" /\ k \in 0 .. n
    BY <1>1
  <2> HIDE DEF p, a
  <2>3. Usage(remote, p) \in Int /\ Usage(remote, p) <= limit
    BY <2>1, RoomEnds
  <2>4. Delta(remote, a) \in Int /\ Delta(remote, a) <= 0
    BY <2>2, DeltaIs
  <2>5. Usage(remote, p) + Delta(remote, a) <= limit
    BY <2>3, <2>4
  <2>6. Room(remote, Append(p, a), limit)
    BY <2>1, <2>2, <2>5, RoomMore
  <2>7. QED BY <2>1, <2>2, <2>6
<1>4. \A k \in 0 .. n : k \in Good
  <2> HIDE DEF Good
  <2>1. QED BY <1>1, <1>2, <1>3, Climb
<1>5. n \in Good
  BY <1>1, <1>4
<1>6. QED BY <1>1, <1>5

(* The sizes of some videos, one after another.                            *)
LEMMA SizeOfIs ==
  ASSUME NEW V, \A v \in V : v.size \in Nat, NEW videos \in Seq(V)
  PROVE  \E total \in [0 .. Len(videos) -> Nat] :
           /\ total[0] = 0
           /\ \A k \in 1 .. Len(videos) : total[k] = total[k - 1] + videos[k].size
           /\ SizeOf(videos) = total[Len(videos)]
           /\ \A k \in 0 .. Len(videos) : total[k] <= total[Len(videos)]
<1> DEFINE n       == Len(videos)
           F       == [x \in (1 .. n) \X Nat |-> x[2] + videos[x[1]].size]
           Body(f) == [k \in 0 .. n |-> IF k = 0 THEN 0 ELSE f[k - 1] + videos[k].size]
           total   == CHOOSE f : f = Body(f)
<1>1. SizeOf(videos) = total[n]
  BY DEF SizeOf
<1>2. n \in Nat /\ \A k \in 1 .. n : videos[k].size \in Nat
  OBVIOUS
<1>3. \A k \in 1 .. n : \A x \in Nat : F[<<k, x>>] = x + videos[k].size /\ F[<<k, x>>] \in Nat
  BY <1>2
<1> HIDE DEF F, n
<1>4. PICK g \in [0 .. n -> Nat] : g[0] = 0 /\ \A k \in 1 .. n : g[k] = F[<<k, g[k - 1]>>]
  <2>1. StaysIn(Nat, n, F)
    BY <1>3 DEF StaysIn
  <2>2. Stepwise(Nat, n, 0, F)
    BY <1>2, <2>1, Stepped
  <2>3. QED BY <2>2 DEF Stepwise
<1>5. ASSUME NEW k \in 1 .. n PROVE g[k] = g[k - 1] + videos[k].size /\ k - 1 \in 0 .. n
  <2>1. k - 1 \in 0 .. n
    BY <1>2
  <2>2. g[k - 1] \in Nat
    BY <1>4, <2>1
  <2>3. QED BY <1>3, <1>4, <2>1, <2>2
<1>6. g = Body(g)
  <2> DEFINE h == [k \in 0 .. n |-> IF k = 0 THEN 0 ELSE g[k - 1] + videos[k].size]
  <2>1. \A k \in 0 .. n : g[k] = h[k]
    BY <1>2, <1>4, <1>5
  <2>2. g = [k \in 0 .. n |-> g[k]]
    BY <1>4
  <2>3. g = h
    BY <2>1, <2>2
  <2>4. QED BY <2>3
<1>7. total = Body(total)
  <2> HIDE DEF Body
  <2>1. QED BY <1>6
<1> HIDE DEF total
<1>8. total[0] = 0 /\ \A k \in 1 .. n : total[k] = total[k - 1] + videos[k].size
  BY <1>2, <1>7
<1> DEFINE Good == {k \in 0 .. n : total[k] = g[k]}
<1>9. \A k \in 0 .. n : k \in Good
  <2>1. 0 \in Good
    BY <1>2, <1>4, <1>8
  <2>2. \A k \in 1 .. n : k - 1 \in Good => k \in Good
    BY <1>2, <1>5, <1>8
  <2> HIDE DEF Good
  <2>3. QED BY <1>2, <2>1, <2>2, Climb
<1> DEFINE Low == {j \in 0 .. n : g[n - j] <= g[n]}
<1>10. \A j \in 0 .. n : j \in Low
  <2>1. 0 \in Low
    BY <1>2, <1>4
  <2>2. ASSUME NEW j \in 1 .. n, j - 1 \in Low PROVE j \in Low
    <3> DEFINE m == n - j + 1
    <3>1. m \in 1 .. n /\ n - (j - 1) = m /\ n - j = m - 1
      BY <1>2
    <3> HIDE DEF m
    <3>2. g[m] = g[m - 1] + videos[m].size /\ videos[m].size \in Nat /\ g[m - 1] \in Nat
      BY <1>2, <1>4, <1>5, <3>1
    <3>3. g[m] <= g[n]
      BY <2>2, <3>1
    <3>4. g[n] \in Nat /\ g[m] \in Nat
      BY <1>2, <1>4, <3>1
    <3>5. g[m - 1] <= g[n]
      BY <3>2, <3>3, <3>4
    <3>6. QED BY <3>1, <3>5
  <2> HIDE DEF Low
  <2>3. QED BY <1>2, <2>1, <2>2, Climb
<1>11. ASSUME NEW k \in 0 .. n PROVE total[k] = g[k] /\ g[k] <= g[n]
  <2>1. n - k \in 0 .. n /\ n - (n - k) = k
    BY <1>2
  <2>2. n - k \in Low
    BY <1>10, <2>1
  <2>3. g[n - (n - k)] <= g[n]
    BY <2>2
  <2>4. QED BY <1>9, <2>1, <2>3
<1>12. n \in 0 .. n
  BY <1>2
<1>13. SizeOf(videos) = g[n] /\ \A k \in 0 .. n : g[k] <= g[n]
  BY <1>1, <1>11, <1>12
<1>14. QED BY <1>4, <1>5, <1>13 DEF n

(* Uploads that fit together fit one after another.                        *)
LEMMA RoomUploads ==
  ASSUME NEW remote, SizesOK(remote), NEW T, NEW s \in Seq(T), NEW limit \in Int, Room(remote, s, limit),
         NEW V, NEW videos \in Seq(V), \A v \in V : v.size \in Nat /\ Upload(v) \in T,
         Usage(remote, s) + SizeOf(videos) <= limit
  PROVE  Room(remote, s \o [i \in DOMAIN videos |-> Upload(videos[i])], limit)
<1> DEFINE n    == Len(videos)
           t    == [i \in DOMAIN videos |-> Upload(videos[i])]
           u(k) == s \o SubSeq(t, 1, k)
<1>1. PICK total \in [0 .. n -> Nat] :
           /\ total[0] = 0
           /\ \A k \in 1 .. n : total[k] = total[k - 1] + videos[k].size
           /\ SizeOf(videos) = total[n]
           /\ \A k \in 0 .. n : total[k] <= total[n]
  BY SizeOfIs
<1>2. n \in Nat /\ t \in Seq(T) /\ Len(t) = n
      /\ \A k \in 1 .. n : t[k] = Upload(videos[k]) /\ videos[k].size \in Nat
  OBVIOUS
<1>3. \A k \in 1 .. n : t[k].kind = "upload" /\ t[k].video = videos[k]
  BY <1>2 DEF Upload, Act
<1>4. ASSUME NEW k \in 1 .. n PROVE Accounted(remote, t[k]) /\ Delta(remote, t[k]) = videos[k].size
  <2>1. Accounted(remote, t[k])
    BY <1>2, <1>3 DEF Accounted, RootDeletes, StagingDeletes
  <2> DEFINE a == t[k]
  <2>2. a.kind = "upload" /\ a.video = videos[k] /\ Accounted(remote, a)
    BY <1>3, <2>1
  <2> HIDE DEF a
  <2>3. Delta(remote, a) = a.video.size
    BY <2>2, DeltaIs
  <2>4. QED BY <2>2, <2>3 DEF a
<1>5. Usage(remote, s) \in Int /\ Usage(remote, s) + total[n] <= limit
  BY <1>1, RoomEnds
<1> HIDE DEF t, n
<1>6. /\ u(0) = s /\ u(n) = s \o t
      /\ \A k \in 0 .. n : u(k) \in Seq(T)
      /\ \A k \in 1 .. n : t[k] \in T /\ u(k) = Append(u(k - 1), t[k])
  <2>1. Len(t) = n
    BY <1>2
  <2>2. \A k \in 0 .. Len(t) : u(k) \in Seq(T)
    BY <1>2, GrowsBy
  <2>3. \A k \in 1 .. Len(t) : t[k] \in T /\ u(k) = Append(u(k - 1), t[k])
    BY <1>2, GrowsBy
  <2>4. u(0) = s /\ u(Len(t)) = s \o t
    BY <1>2, GrowsBy
  <2> HIDE DEF u
  <2>5. QED BY <2>1, <2>2, <2>3, <2>4
<1> HIDE DEF u
<1> DEFINE Good == {k \in 0 .. n : Room(remote, u(k), limit)
                                   /\ Usage(remote, u(k)) = Usage(remote, s) + total[k]}
<1>7. 0 \in Good
  BY <1>1, <1>2, <1>5, <1>6
<1>8. ASSUME NEW k \in 1 .. n, k - 1 \in Good PROVE k \in Good
  <2> DEFINE p == u(k - 1)
             a == t[k]
             x == videos[k].size
  <2>1. p \in Seq(T) /\ a \in T /\ u(k) = Append(p, a) /\ Room(remote, p, limit)
    BY <1>2, <1>6, <1>8
  <2>2. Accounted(remote, a) /\ Delta(remote, a) = x /\ x \in Nat
    BY <1>2, <1>4
  <2>3. Usage(remote, p) = Usage(remote, s) + total[k - 1] /\ total[k] = total[k - 1] + x
    BY <1>1, <1>8
  <2>4. k \in 0 .. n /\ total[k] \in Nat /\ total[k - 1] \in Nat /\ total[n] \in Nat /\ total[k] <= total[n]
    BY <1>1, <1>2
  <2> HIDE DEF p, a, x
  <2>5. Usage(remote, p) + x = Usage(remote, s) + total[k] /\ Usage(remote, p) + x <= limit
    BY <1>5, <2>2, <2>3, <2>4
  <2>6. Room(remote, Append(p, a), limit) /\ Usage(remote, Append(p, a)) = Usage(remote, p) + x
    BY <2>1, <2>2, <2>5, RoomMore
  <2>7. QED BY <2>1, <2>4, <2>5, <2>6
<1>9. \A k \in 0 .. n : k \in Good
  <2> HIDE DEF Good
  <2>1. QED BY <1>2, <1>7, <1>8, Climb
<1>10. n \in Good
  BY <1>2, <1>9
<1>11. QED BY <1>6, <1>10 DEF t

(* What fits, fits.                                                        *)
LEMMA FittingFits ==
  ASSUME NEW V, NEW videos \in Seq(V), NEW base, NEW maxBytes, maxBytes # None
  PROVE  LET t == Fitting(videos, base, maxBytes)
         IN  t = <<>> \/ base + SizeOf(t) <= maxBytes
<1> DEFINE S == {0} \cup {k \in DOMAIN videos : base + SizeOf(SubSeq(videos, 1, k)) <= maxBytes}
           m == Max(S)
<1>1. Fitting(videos, base, maxBytes) = SubSeq(videos, 1, m)
  BY DEF Fitting
<1>2. S \subseteq 0 .. Len(videos) /\ S # {} /\ Len(videos) \in Nat
  OBVIOUS
<1>3. m \in S
  <2> HIDE DEF S
  <2>1. QED BY <1>2, GreatestNumber
<1>4. m = 0 \/ base + SizeOf(SubSeq(videos, 1, m)) <= maxBytes
  BY <1>3
<1>5. SubSeq(videos, 1, 0) = <<>>
  OBVIOUS
<1> HIDE DEF m
<1>6. QED BY <1>1, <1>4, <1>5

-----------------------------------------------------------------------------
(* The room that a plan leaves                                             *)

SizesListed(inp) == InputOK(inp) /\ SizesOK(inp.remote)

LEMMA ActionsAccounted ==
  ASSUME NEW inp, SizesListed(inp), NEW a \in ActionsOf(inp), a.kind \notin StagingDeletes
  PROVE  Accounted(inp.remote, a)
<1>1. WellFormed(inp, a)
  BY DEF ActionsOf
<1>2. a.kind = "upload" => a.video.size \in Nat
  BY <1>1 DEF WellFormed, SizesListed, InputOK, LibraryOK, Videos, StagingDeletes
<1>3. a.kind \in RootDeletes => a.src \in DOMAIN inp.remote.root
  BY <1>1 DEF WellFormed, RootDeletes, StagingDeletes, AppNames
<1>4. QED BY <1>2, <1>3 DEF Accounted

(* The first c actions clear the staging folder, and no other does.        *)
ClearsUpTo(s, c) ==
  /\ c \in Nat /\ c <= Len(s)
  /\ \A i \in 1 .. Len(s) : s[i].kind \in StagingDeletes <=> i <= c
  /\ \A i, j \in 1 .. c : s[i].src = s[j].src => i = j

LEMMA ClearsOn ==
  ASSUME NEW T, NEW s \in Seq(T), NEW c, ClearsUpTo(s, c),
         NEW t \in Seq(T), \A i \in 1 .. Len(t) : t[i].kind \notin StagingDeletes
  PROVE  ClearsUpTo(s \o t, c)
<1> DEFINE u == s \o t
<1>1. u \in Seq(T) /\ Joins(s, t, u)
  BY Joined
<1> HIDE DEF u
<1>2. c \in Nat /\ c <= Len(s) /\ Len(s) \in Nat /\ Len(t) \in Nat /\ Len(u) = Len(s) + Len(t)
  BY <1>1 DEF ClearsUpTo, Joins
<1>3. ASSUME NEW i \in 1 .. Len(u) PROVE u[i].kind \in StagingDeletes <=> i <= c
  <2>1. CASE i <= Len(s)
    <3>1. i \in 1 .. Len(s) /\ u[i] = s[i]
      BY <1>1, <1>2, <2>1 DEF Joins
    <3>2. QED BY <3>1 DEF ClearsUpTo
  <2>2. CASE ~ (i <= Len(s))
    <3>1. i - Len(s) \in 1 .. Len(t) /\ u[i] = t[i - Len(s)] /\ ~ (i <= c)
      BY <1>1, <1>2, <2>2 DEF Joins
    <3>2. QED BY <3>1
  <2>3. QED BY <2>1, <2>2
<1>4. \A i \in 1 .. c : u[i] = s[i]
  BY <1>1, <1>2 DEF Joins
<1>5. QED BY <1>2, <1>3, <1>4 DEF ClearsUpTo, u

LEMMA ClearsMore ==
  ASSUME NEW T, NEW s \in Seq(T), NEW c, ClearsUpTo(s, c), NEW a \in T, a.kind \notin StagingDeletes
  PROVE  ClearsUpTo(Append(s, a), c)
<1>1. Append(s, a) = s \o <<a>> /\ <<a>> \in Seq(T) /\ Len(<<a>>) = 1 /\ <<a>>[1] = a
  OBVIOUS
<1>2. \A i \in 1 .. Len(<<a>>) : <<a>>[i].kind \notin StagingDeletes
  BY <1>1
<1>3. QED BY <1>1, <1>2, ClearsOn

Roomy(inp, s, limit, c) == Room(inp.remote, s, limit) /\ ClearsUpTo(s, c)

(* What is entered late, or staged ahead, is looked at one by one.         *)
LEMMA OneFits ==
  ASSUME NEW inp, SizesListed(inp), NEW d, d.inp = inp, inp.maxBytes # None,
         NEW c, NEW limit \in Int, inp.maxBytes \in Int, inp.maxBytes <= limit,
         NEW acts \in Seq(ActionsOf(inp)), Roomy(inp, acts, limit, c),
         NEW v \in inp.library, Fits(d, acts, v)
  PROVE  Roomy(inp, Append(acts, Upload(v)), limit, c)
<1> DEFINE u == Upload(v)
<1>1. u.kind = "upload" /\ u.video = v /\ u \in ActionsOf(inp)
  BY QuietActions DEF Upload, Act, Quiet, SizesListed
<1> HIDE DEF u
<1>2. Accounted(inp.remote, u)
  BY <1>1, ActionsAccounted DEF StagingDeletes
<1>3. Delta(inp.remote, u) = v.size /\ v.size \in Int
  BY <1>1, <1>2, DeltaIs DEF SizesListed
<1>4. Usage(inp.remote, acts) + v.size <= inp.maxBytes /\ Usage(inp.remote, acts) \in Int
  BY RoomEnds DEF Fits, Roomy
<1>5. Usage(inp.remote, acts) + Delta(inp.remote, u) <= limit
  BY <1>3, <1>4
<1>6. u.kind \notin StagingDeletes
  BY <1>1 DEF StagingDeletes
<1>7. QED BY <1>1, <1>2, <1>5, <1>6, RoomMore, ClearsMore DEF u, SizesListed, Roomy

LEMMA OneShown ==
  ASSUME NEW inp, SizesListed(inp), NEW c, NEW limit \in Int,
         NEW acts \in Seq(ActionsOf(inp)), Roomy(inp, acts, limit, c),
         NEW item, Enters(inp, item)
  PROVE  Roomy(inp, Append(acts, Activate(item)), limit, c)
<1> DEFINE x == Activate(item)
<1>1. x.kind = "activate" /\ x \in ActionsOf(inp)
  BY EntersQuietly DEF Activate, Act, Quiet, SizesListed
<1> HIDE DEF x
<1>2. Accounted(inp.remote, x)
  BY <1>1, ActionsAccounted DEF StagingDeletes
<1>3. Delta(inp.remote, x) \in Int /\ Delta(inp.remote, x) <= 0
  BY <1>1, <1>2, DeltaIs DEF SizesListed
<1>4. Usage(inp.remote, acts) \in Int /\ Usage(inp.remote, acts) <= limit
  BY RoomEnds DEF Roomy
<1>5. Usage(inp.remote, acts) + Delta(inp.remote, x) <= limit
  BY <1>3, <1>4
<1>6. x.kind \notin StagingDeletes
  BY <1>1 DEF StagingDeletes
<1>7. QED BY <1>1, <1>2, <1>5, <1>6, RoomMore, ClearsMore DEF x, SizesListed, Roomy

LEMMA LateHasRoom ==
  ASSUME NEW inp, SizesListed(inp), NEW d, d.inp = inp, inp.maxBytes # None,
         NEW c, NEW limit \in Int, inp.maxBytes \in Int, inp.maxBytes <= limit,
         NEW remains, NEW actions \in Seq(ActionsOf(inp)), Roomy(inp, actions, limit, c),
         NEW later, Len(later) \in Nat, \A k \in 1 .. Len(later) : Enters(inp, later[k])
  PROVE  Roomy(inp, WithLate(d, later, remains, actions), limit, c)
<1>1. PICK after : /\ EnteredBy(d, later, remains, actions, after)
                   /\ \A k \in 0 .. Len(later) : Continues(inp, actions, after[k])
  BY LateStepByStep DEF SizesListed
<1> DEFINE n    == Len(later)
           Good == {k \in 0 .. n : Roomy(inp, after[k], limit, c)}
<1>2. n \in Nat /\ \A k \in 1 .. n : k - 1 \in 0 .. n /\ k \in 0 .. n
  OBVIOUS
<1>3. 0 \in Good
  BY <1>1, <1>2 DEF EnteredBy
<1>4. ASSUME NEW k \in 1 .. n, k - 1 \in Good PROVE k \in Good
  <2> DEFINE a    == after[k - 1]
             item == later[k]
             v    == item.video
  <2>1. a \in Seq(ActionsOf(inp)) /\ Roomy(inp, a, limit, c) /\ Enters(inp, item)
    BY <1>1, <1>2, <1>4 DEF Continues
  <2>2. after[k] = Entered(d, remains, a, item)
    BY <1>1 DEF EnteredBy
  <2> HIDE DEF a, item
  <2>3. v \in inp.library /\ Upload(v) \in ActionsOf(inp) /\ Activate(item) \in ActionsOf(inp)
    BY <2>1, EntersQuietly DEF Enters, Quiet, SizesListed
  <2>4. CASE remains > 0 /\ Fits(d, a, v)
    <3> DEFINE b == Append(a, Upload(v))
    <3>1. Entered(d, remains, a, item) = Append(b, Activate(item)) /\ b \in Seq(ActionsOf(inp))
      BY <2>1, <2>3, <2>4, TwoMore DEF Entered
    <3>2. Roomy(inp, b, limit, c)
      BY <2>1, <2>3, <2>4, OneFits
    <3> HIDE DEF b
    <3>3. Roomy(inp, Append(b, Activate(item)), limit, c)
      BY <2>1, <3>1, <3>2, OneShown
    <3>4. QED BY <1>2, <2>2, <3>1, <3>3
  <2>5. CASE ~ (remains > 0 /\ Fits(d, a, v))
    BY <1>2, <2>1, <2>2, <2>5 DEF Entered
  <2>6. QED BY <2>4, <2>5
<1>5. \A k \in 0 .. n : k \in Good
  <2> HIDE DEF Good, n
  <2>1. QED BY <1>2, <1>3, <1>4, Climb
<1>6. n \in Good
  BY <1>2, <1>5
<1>7. QED BY <1>1, <1>6 DEF EnteredBy

LEMMA AheadHasRoom ==
  ASSUME NEW inp, SizesListed(inp), NEW d, d.inp = inp, inp.maxBytes # None,
         NEW c, NEW limit \in Int, inp.maxBytes \in Int, inp.maxBytes <= limit,
         NEW kept, NEW actions \in Seq(ActionsOf(inp)), Roomy(inp, actions, limit, c),
         Schedule(d.keep, inp.wants)
  PROVE  Roomy(inp, WithStagedAhead(d, kept, actions), limit, c)
<1>1. Continues(inp, actions, actions)
  BY DEF Continues
<1>2. PICK after : /\ StagedBy(d, kept, actions, after)
                   /\ \A k \in 0 .. Len(d.keep) : Continues(inp, actions, after[k])
  BY <1>1, StagedStepByStep DEF SizesListed
<1> DEFINE n    == Len(d.keep)
           Good == {k \in 0 .. n : Roomy(inp, after[k], limit, c)}
<1>3. n \in Nat /\ \A k \in 1 .. n : k - 1 \in 0 .. n /\ k \in 0 .. n
  BY DEF Schedule
<1>4. 0 \in Good
  BY <1>2, <1>3 DEF StagedBy
<1>5. \A k \in 1 .. n : d.keep[k].video \in inp.library
  BY DEF Schedule, SizesListed, InputOK, WantsFor
<1>6. ASSUME NEW k \in 1 .. n, k - 1 \in Good PROVE k \in Good
  <2> DEFINE a == after[k - 1]
             v == d.keep[k].video
  <2>1. a \in Seq(ActionsOf(inp)) /\ Roomy(inp, a, limit, c) /\ v \in inp.library
    BY <1>2, <1>3, <1>5, <1>6 DEF Continues
  <2>2. after[k] = a \/ (after[k] = Append(a, Upload(v)) /\ Fits(d, a, v))
    BY <1>2 DEF StagedBy, Ahead
  <2> HIDE DEF a, v
  <2>3. Fits(d, a, v) => Roomy(inp, Append(a, Upload(v)), limit, c)
    BY <2>1, OneFits
  <2>4. QED BY <1>3, <2>1, <2>2, <2>3
<1>7. \A k \in 0 .. n : k \in Good
  <2> HIDE DEF Good, n
  <2>1. QED BY <1>3, <1>4, <1>6, Climb
<1>8. n \in Good
  BY <1>3, <1>7
<1>9. QED BY <1>2, <1>8 DEF StagedBy

-----------------------------------------------------------------------------
(* The staging folder takes no room, and is made after staging is cleared. *)

LEMMA RoomInserted ==
  ASSUME NEW remote, NEW s, Len(s) \in Nat, NEW limit \in Int, Room(remote, s, limit),
         NEW k \in 1 .. Len(s), NEW x, Accounted(remote, x), Delta(remote, x) = 0,
         NEW t, NEW O, Inserted(s, k, x, t, O)
  PROVE  Room(remote, t, limit)
<1> DEFINE n == Len(s)
<1>1. n \in Nat /\ k \in 1 .. n /\ Len(t) = n + 1 /\ t[k] = x
  BY DEF Inserted
<1>2. /\ \A i \in 1 .. n + 1 : i < k => t[i] = s[i]
      /\ \A i \in k + 1 .. n + 1 : t[i] = s[i - 1]
  BY <1>1 DEF Inserted
<1>3. PICK g : Spent(remote, s, g) /\ \A i \in 0 .. n : g[i] <= limit
  BY DEF Room
<1>4. /\ g \in [0 .. n -> Int] /\ g[0] = BytesOf(remote)
      /\ \A i \in 1 .. n : g[i] = g[i - 1] + Delta(remote, s[i])
  BY <1>3 DEF Spent
<1> DEFINE h == [i \in 0 .. n + 1 |-> IF i < k THEN g[i] ELSE g[i - 1]]
<1> HIDE DEF n
<1>5. h \in [0 .. n + 1 -> Int] /\ \A i \in 0 .. n + 1 : h[i] <= limit
  BY <1>1, <1>3, <1>4
<1>6. h[0] = BytesOf(remote)
  BY <1>1, <1>4
<1>7. ASSUME NEW i \in 1 .. n + 1 PROVE h[i] = h[i - 1] + Delta(remote, t[i])
  <2>1. CASE i < k
    <3>1. i \in 1 .. n /\ t[i] = s[i] /\ h[i] = g[i] /\ h[i - 1] = g[i - 1]
      BY <1>1, <1>2, <2>1
    <3>2. QED BY <1>4, <3>1
  <2>2. CASE i = k
    <3>1. h[i] = g[k - 1] /\ h[i - 1] = g[k - 1] /\ g[k - 1] \in Int /\ Delta(remote, t[i]) = 0
      BY <1>1, <1>4, <2>2
    <3>2. QED BY <3>1
  <2>3. CASE i > k
    <3>1. i - 1 \in 1 .. n /\ t[i] = s[i - 1] /\ h[i] = g[i - 1] /\ h[i - 1] = g[(i - 1) - 1]
      BY <1>1, <1>2, <2>3
    <3>2. QED BY <1>4, <3>1
  <2>4. QED BY <1>1, <2>1, <2>2, <2>3
<1> HIDE DEF h
<1>8. Spent(remote, t, h) /\ \A i \in 0 .. Len(t) : h[i] <= limit
  BY <1>1, <1>5, <1>6, <1>7 DEF Spent
<1>9. ASSUME NEW i \in 1 .. Len(t) PROVE Accounted(remote, t[i])
  <2>1. \A j \in 1 .. n : Accounted(remote, s[j])
    BY DEF Room, n
  <2>2. i = k \/ (i < k /\ i \in 1 .. n) \/ (i \in k + 1 .. n + 1 /\ i - 1 \in 1 .. n)
    BY <1>1
  <2>3. QED BY <1>1, <1>2, <2>1, <2>2
<1>10. QED BY <1>8, <1>9 DEF Room

LEMMA ClearsInserted ==
  ASSUME NEW s, Len(s) \in Nat, NEW c, ClearsUpTo(s, c),
         NEW k \in 1 .. Len(s), k > c, NEW x, x.kind \notin StagingDeletes,
         NEW t, NEW O, Inserted(s, k, x, t, O)
  PROVE  ClearsUpTo(t, c)
<1> DEFINE n == Len(s)
<1>1. n \in Nat /\ k \in 1 .. n /\ Len(t) = n + 1 /\ t[k] = x
  BY DEF Inserted
<1>2. /\ \A i \in 1 .. n + 1 : i < k => t[i] = s[i]
      /\ \A i \in k + 1 .. n + 1 : t[i] = s[i - 1]
  BY <1>1 DEF Inserted
<1>3. /\ c \in Nat /\ c <= n
      /\ \A i \in 1 .. n : s[i].kind \in StagingDeletes <=> i <= c
      /\ \A i, j \in 1 .. c : s[i].src = s[j].src => i = j
  BY DEF ClearsUpTo
<1> HIDE DEF n
<1>4. ASSUME NEW i \in 1 .. n + 1 PROVE t[i].kind \in StagingDeletes <=> i <= c
  <2>1. CASE i < k
    <3>1. i \in 1 .. n /\ t[i] = s[i]
      BY <1>1, <1>2, <2>1
    <3>2. QED BY <1>3, <3>1
  <2>2. CASE i = k
    BY <1>1, <1>3, <2>2
  <2>3. CASE i > k
    <3>1. i - 1 \in 1 .. n /\ t[i] = s[i - 1] /\ ~ (i <= c) /\ ~ (i - 1 <= c)
      BY <1>1, <1>2, <1>3, <2>3
    <3>2. QED BY <1>3, <3>1
  <2>4. QED BY <1>1, <2>1, <2>2, <2>3
<1>5. \A i \in 1 .. c : i \in 1 .. n + 1 /\ t[i] = s[i]
  BY <1>1, <1>2, <1>3
<1>6. QED BY <1>1, <1>3, <1>4, <1>5 DEF ClearsUpTo

LEMMA StagingDirHasRoom ==
  ASSUME NEW inp, SizesListed(inp), NEW s \in Seq(ActionsOf(inp)), NEW exists, NEW limit \in Int, NEW c,
         Roomy(inp, s, limit, c)
  PROVE  Roomy(inp, WithStagingDir(s, exists), limit, c)
<1> DEFINE needing == {i \in DOMAIN s : s[i].kind \in {"upload", "deactivate"}}
           k == Min(needing)
           x == MkdirStaging
           T == ActionsOf(inp)
<1>1. Len(s) \in Nat /\ DOMAIN s = 1 .. Len(s)
  OBVIOUS
<1>2. CASE exists \/ needing = {}
  <2>1. WithStagingDir(s, exists) = s
    BY <1>2 DEF WithStagingDir
  <2>2. QED BY <2>1
<1>3. CASE ~ (exists \/ needing = {})
  <2> DEFINE t == InsertAt(s, k, x)
  <2>1. WithStagingDir(s, exists) = t
    BY <1>3 DEF WithStagingDir
  <2>2. needing \subseteq Nat /\ needing \subseteq 1 .. Len(s)
    BY <1>1
  <2>3. \A i \in needing : s[i].kind \in {"upload", "deactivate"}
    OBVIOUS
  <2> HIDE DEF needing
  <2>4. k \in needing
    BY <1>3, <2>2, LeastNumber
  <2> HIDE DEF k
  <2>5. k \in 1 .. Len(s) /\ s[k].kind \notin StagingDeletes
    BY <2>2, <2>3, <2>4 DEF StagingDeletes
  <2>6. /\ x \in T /\ x.kind = "mkdir_staging"
        /\ x.kind \notin StagingDeletes /\ x.kind \notin RootDeletes \cup StagingDeletes \cup {"upload"}
    BY QuietActions DEF Quiet, MkdirStaging, Act, SizesListed, StagingDeletes, RootDeletes
  <2>7. Accounted(inp.remote, x)
    BY <2>6, ActionsAccounted DEF T
  <2>8. Delta(inp.remote, x) = 0
    BY <2>6, <2>7, DeltaIs DEF SizesListed
  <2> HIDE DEF x, t, T
  <2>9. PICK O : Inserted(s, k, x, t, O)
    BY <2>5, <2>6, InsertedAt DEF t, T
  <2>10. k > c
    BY <1>1, <2>5 DEF Roomy, ClearsUpTo
  <2>11. Room(inp.remote, t, limit)
    BY <1>1, <2>5, <2>7, <2>8, <2>9, RoomInserted DEF Roomy
  <2>12. ClearsUpTo(t, c)
    BY <1>1, <2>5, <2>6, <2>9, <2>10, ClearsInserted DEF Roomy
  <2>13. QED BY <2>1, <2>11, <2>12 DEF Roomy
<1>4. QED BY <1>2, <1>3

-----------------------------------------------------------------------------
(* What clears the staging folder                                          *)

(* What Classify says of a staged file.                                    *)
LEMMA StagedAre ==
  ASSUME NEW inp, InputOK(inp)
  PROVE  LET c == Classify(inp.remote, inp.library)
         IN  /\ \A x \in c.staged \cup c.corrupt \cup c.orphan : Staged(x) \in DOMAIN inp.remote.staging
             /\ c.staged \cap c.corrupt = {} /\ c.staged \cap c.orphan = {} /\ c.corrupt \cap c.orphan = {}
             /\ \A p \in c.parts : p \in DOMAIN inp.remote.staging /\ p = Part(p.sha)
<1> DEFINE remote      == inp.remote
           library     == inp.library
           whole       == {s \in DOMAIN remote.staging : ~ s.part}
           known(s)    == {v \in library : v.sha = s.sha}
           complete(s) == \E v \in known(s) : v.size = remote.staging[s].size
           c           == Classify(remote, library)
           A           == {t \in whole : complete(t)}
           B           == {t \in whole : known(t) # {} /\ ~ complete(t)}
           C           == {t \in whole : known(t) = {}}
<1>1. /\ c.staged = {s.sha : s \in A}
      /\ c.corrupt = {s.sha : s \in B}
      /\ c.orphan = {s.sha : s \in C}
      /\ c.parts = {s \in DOMAIN remote.staging : s.part}
  BY DEF Classify
<1>2. \A s \in DOMAIN remote.staging : s = [sha |-> s.sha, part |-> s.part] /\ s.part \in BOOLEAN
  BY DEF InputOK
<1>3. \A s \in whole : s = Staged(s.sha)
  BY <1>2 DEF Staged
<1>4. \A s \in DOMAIN remote.staging : s.part => s = Part(s.sha)
  BY <1>2 DEF Part
<1>5. /\ \A s \in A : s \in whole /\ complete(s)
      /\ \A s \in B : s \in whole /\ known(s) # {} /\ ~ complete(s)
      /\ \A s \in C : s \in whole /\ known(s) = {}
  OBVIOUS
<1>6. \A s \in whole : complete(s) => known(s) # {}
  OBVIOUS
<1>7. \A s \in whole : s \in DOMAIN remote.staging
  OBVIOUS
<1> HIDE DEF c, A, B, C, whole, complete, known
<1>8. /\ \A x \in c.staged : Staged(x) \in A
      /\ \A x \in c.corrupt : Staged(x) \in B
      /\ \A x \in c.orphan : Staged(x) \in C
  BY <1>1, <1>3, <1>5
<1>9. A \cap B = {} /\ A \cap C = {} /\ B \cap C = {}
  BY <1>5, <1>6
<1>10. QED BY <1>1, <1>4, <1>5, <1>7, <1>8, <1>9 DEF c

LEMMA EnumeratesJoined ==
  ASSUME NEW S, NEW U, S \cap U = {}, NEW s, Enumerates(s, S), NEW t, Enumerates(t, U)
  PROVE  Enumerates(s \o t, S \cup U)
<1> DEFINE X == S \cup U
           z == s \o t
<1>1. /\ s \in Seq(X) /\ t \in Seq(X) /\ Len(s) \in Nat /\ Len(t) \in Nat
      /\ \A k \in 1 .. Len(s) : s[k] \in S
      /\ \A k \in 1 .. Len(t) : t[k] \in U
  BY EnumeratedIn
<1> HIDE DEF X
<1>2. z \in Seq(X) /\ Joins(s, t, z)
  BY <1>1, Joined
<1> HIDE DEF z
<1>3. /\ Len(z) = Len(s) + Len(t)
      /\ \A i \in 1 .. Len(s) : z[i] = s[i]
      /\ \A i \in Len(s) + 1 .. Len(z) : i - Len(s) \in 1 .. Len(t) /\ z[i] = t[i - Len(s)]
  BY <1>2 DEF Joins
<1>4. \A i \in 1 .. Len(z) : i \in 1 .. Len(s) \/ i \in Len(s) + 1 .. Len(z)
  BY <1>1, <1>3
<1>5. ASSUME NEW x \in X PROVE \E i \in 1 .. Len(z) : z[i] = x
  <2>1. CASE x \in S
    <3>1. PICK i \in 1 .. Len(s) : s[i] = x
      BY <2>1 DEF Enumerates
    <3>2. i \in 1 .. Len(z) /\ z[i] = x
      BY <1>1, <1>3, <3>1
    <3>3. QED BY <3>2
  <2>2. CASE x \in U
    <3>1. PICK i \in 1 .. Len(t) : t[i] = x
      BY <2>2 DEF Enumerates
    <3>2. Len(s) + i \in 1 .. Len(z) /\ Len(s) + i \in Len(s) + 1 .. Len(z) /\ (Len(s) + i) - Len(s) = i
      BY <1>1, <1>3
    <3>3. z[Len(s) + i] = x
      BY <1>3, <3>1, <3>2
    <3>4. QED BY <3>2, <3>3
  <2>3. QED BY <2>1, <2>2 DEF X
<1>6. ASSUME NEW i \in 1 .. Len(z), NEW j \in 1 .. Len(z), z[i] = z[j] PROVE i = j
  <2>1. CASE i \in 1 .. Len(s) /\ j \in 1 .. Len(s)
    BY <1>3, <1>6, <2>1 DEF Enumerates
  <2>2. CASE i \in Len(s) + 1 .. Len(z) /\ j \in Len(s) + 1 .. Len(z)
    <3>1. /\ i - Len(s) \in 1 .. Len(t) /\ j - Len(s) \in 1 .. Len(t)
          /\ t[i - Len(s)] = t[j - Len(s)]
      BY <1>3, <1>6, <2>2
    <3>2. \A k, l \in 1 .. Len(t) : t[k] = t[l] => k = l
      BY DEF Enumerates
    <3>3. i - Len(s) = j - Len(s)
      BY <3>1, <3>2
    <3>4. QED BY <1>1, <3>3
  <2>3. CASE i \in 1 .. Len(s) /\ j \in Len(s) + 1 .. Len(z)
    BY <1>1, <1>3, <1>6, <2>3
  <2>4. CASE j \in 1 .. Len(s) /\ i \in Len(s) + 1 .. Len(z)
    BY <1>1, <1>3, <1>6, <2>4
  <2>5. QED BY <1>4, <2>1, <2>2, <2>3, <2>4
<1>7. QED BY <1>2, <1>5, <1>6 DEF Enumerates, X, z

(* Each action that clears staging deletes a file of its own.              *)
LEMMA CleanupClears ==
  ASSUME NEW inp, InputOK(inp), NEW d, DraftOK(inp, d), d.c = Classify(inp.remote, inp.library),
         NEW required
  PROVE  LET cleanup == Cleanup(d, required)
         IN  /\ ClearsUpTo(cleanup, Len(cleanup))
             /\ \A i \in 1 .. Len(cleanup) : Accounted(inp.remote, cleanup[i])
<1> DEFINE staging == d.inp.remote.staging
           overdue == {p \in d.c.parts : /\ d.inp.now - staging[p].mtime > PartMaxAge
                                         /\ \A i \in DOMAIN required : required[i].sha # p.sha}
           P       == {p.sha : p \in overdue}
           B       == d.c.corrupt
           A       == d.c.staged \ Needed(d)
           C       == d.c.orphan
           whole   == Ascending(B) \o Ascending(A) \o Ascending(C)
           parts   == Ascending(P)
           x       == [i \in DOMAIN whole |-> DeleteStaged(whole[i])]
           y       == [i \in DOMAIN parts |-> DeletePart(parts[i])]
           z       == x \o y
           listed  == DOMAIN inp.remote.staging
<1>1. Cleanup(d, required) = z
  BY DEF Cleanup, Mapped
<1>2. /\ \A s \in P : Part(s) \in listed
      /\ \A s \in B \cup A \cup C : Staged(s) \in listed
      /\ B \cap A = {} /\ (B \cup A) \cap C = {}
  <2>1. /\ \A s \in d.c.staged \cup d.c.corrupt \cup d.c.orphan : Staged(s) \in listed
        /\ d.c.staged \cap d.c.corrupt = {} /\ d.c.staged \cap d.c.orphan = {}
        /\ d.c.corrupt \cap d.c.orphan = {}
        /\ \A p \in d.c.parts : p \in listed /\ p = Part(p.sha)
    BY StagedAre
  <2>2. QED BY <2>1
<1>3. NumbersFinite(P)
  <2>1. overdue \subseteq DOMAIN inp.remote.staging
    BY DEF DraftOK, ClassOK
  <2> HIDE DEF overdue
  <2>2. QED BY <2>1, StagedNumbers
<1>4. NumbersFinite(B) /\ NumbersFinite(A) /\ NumbersFinite(C)
  <2>1. A \in SUBSET d.c.staged
    OBVIOUS
  <2>2. NumbersFinite(d.c.staged) /\ NumbersFinite(d.c.corrupt) /\ NumbersFinite(d.c.orphan)
    BY DEF DraftOK, ClassOK
  <2>3. QED BY <2>1, <2>2, FS_Subset DEF NumbersFinite
<1> HIDE DEF P, A, B, C, listed
<1> DEFINE BA == Ascending(B) \o Ascending(A)
           W  == B \cup A \cup C
<1>5. Enumerates(parts, P) /\ Enumerates(BA, B \cup A)
  BY <1>2, <1>3, <1>4, AscendingEnumerates, EnumeratesJoined DEF NumbersFinite
<1>6. whole = BA \o Ascending(C) /\ Enumerates(Ascending(C), C)
  BY <1>4, AscendingEnumerates DEF NumbersFinite
<1> HIDE DEF BA, whole, parts
<1>7. Enumerates(whole, W)
  BY <1>2, <1>5, <1>6, EnumeratesJoined
<1> DEFINE m == Len(whole)
           n == Len(parts)
<1>8. /\ m \in Nat /\ n \in Nat /\ DOMAIN whole = 1 .. m /\ DOMAIN parts = 1 .. n
      /\ \A i \in 1 .. m : whole[i] \in W
      /\ \A i \in 1 .. n : parts[i] \in P
      /\ \A i, j \in 1 .. m : whole[i] = whole[j] => i = j
      /\ \A i, j \in 1 .. n : parts[i] = parts[j] => i = j
  BY <1>5, <1>7 DEF Enumerates
<1> HIDE DEF W, m, n
<1>9. /\ x \in Seq({DeleteStaged(whole[i]) : i \in 1 .. m}) /\ Len(x) = m
      /\ y \in Seq({DeletePart(parts[i]) : i \in 1 .. n}) /\ Len(y) = n
      /\ \A i \in 1 .. m : x[i] = DeleteStaged(whole[i])
      /\ \A i \in 1 .. n : y[i] = DeletePart(parts[i])
  BY <1>8, SMTT(30)
<1> DEFINE T == {DeleteStaged(whole[i]) : i \in 1 .. m} \cup {DeletePart(parts[i]) : i \in 1 .. n}
<1>10. x \in Seq(T) /\ y \in Seq(T)
  BY <1>9, SMTT(30)
<1> HIDE DEF x, y, T
<1>11. z \in Seq(T) /\ Joins(x, y, z)
  BY <1>10, Joined
<1> HIDE DEF z
<1>12. /\ Len(z) = m + n
       /\ \A i \in 1 .. m : z[i] = DeleteStaged(whole[i])
       /\ \A i \in m + 1 .. Len(z) : i - m \in 1 .. n /\ z[i] = DeletePart(parts[i - m])
  <2>1. /\ Len(z) = m + n
        /\ \A i \in 1 .. m : z[i] = x[i]
        /\ \A i \in m + 1 .. Len(z) : i - m \in 1 .. n /\ z[i] = y[i - m]
    BY <1>9, <1>11 DEF Joins
  <2>2. QED BY <1>9, <2>1
<1>13. \A s : /\ DeleteStaged(s).kind = "delete_staged" /\ DeleteStaged(s).src = Staged(s)
              /\ DeletePart(s).kind = "delete_part" /\ DeletePart(s).src = Part(s)
  BY DEF DeleteStaged, DeletePart, Act
<1>14. ASSUME NEW i \in 1 .. Len(z)
       PROVE  /\ z[i].kind \in StagingDeletes /\ z[i].src \in listed
              /\ i \in 1 .. m => z[i].src = Staged(whole[i])
              /\ i \notin 1 .. m => i - m \in 1 .. n /\ z[i].src = Part(parts[i - m])
  <2>1. CASE i \in 1 .. m
    BY <1>2, <1>8, <1>12, <1>13, <2>1 DEF StagingDeletes, W
  <2>2. CASE i \notin 1 .. m
    <3>1. i \in m + 1 .. Len(z)
      BY <1>8, <1>12, <2>2
    <3>2. QED BY <1>2, <1>8, <1>12, <1>13, <2>2, <3>1 DEF StagingDeletes
  <2>3. QED BY <2>1, <2>2
<1>15. /\ \A s, t : Staged(s) = Staged(t) => s = t
       /\ \A s, t : Part(s) = Part(t) => s = t
       /\ \A s, t : Staged(s) # Part(t)
  <2>1. \A s : /\ Staged(s).sha = s /\ Staged(s).part = FALSE
               /\ Part(s).sha = s /\ Part(s).part = TRUE
    BY DEF Staged, Part
  <2>2. QED BY <2>1
<1>16. ASSUME NEW i \in 1 .. Len(z), NEW j \in 1 .. Len(z), z[i].src = z[j].src PROVE i = j
  <2>1. CASE i \in 1 .. m /\ j \in 1 .. m
    BY <1>8, <1>14, <1>15, <1>16, <2>1
  <2>2. CASE i \notin 1 .. m /\ j \notin 1 .. m
    <3>1. i - m = j - m
      BY <1>8, <1>14, <1>15, <1>16, <2>2
    <3>2. QED BY <1>8, <3>1
  <2>3. CASE i \in 1 .. m /\ j \notin 1 .. m
    BY <1>14, <1>15, <1>16, <2>3
  <2>4. CASE i \notin 1 .. m /\ j \in 1 .. m
    BY <1>14, <1>15, <1>16, <2>4
  <2>5. QED BY <2>1, <2>2, <2>3, <2>4
<1>17. Len(z) \in Nat /\ \A i \in 1 .. Len(z) : i <= Len(z)
  BY <1>8, <1>12
<1>18. ClearsUpTo(z, Len(z))
  BY <1>14, <1>16, <1>17 DEF ClearsUpTo
<1>19. \A i \in 1 .. Len(z) : Accounted(inp.remote, z[i])
  BY <1>14 DEF Accounted, StagingDeletes, RootDeletes, listed
<1>20. QED BY <1>1, <1>18, <1>19

-----------------------------------------------------------------------------
(* The whole plan                                                          *)

LEMMA OpeningHasRoom ==
  ASSUME NEW inp, SizesListed(inp), NEW d, DraftOK(inp, d), NEW late,
         NEW limit \in Int, inp.maxBytes \in Int, inp.maxBytes <= limit,
         BytesOf(inp.remote) \in Int, BytesOf(inp.remote) <= limit,
         NEW cleanup \in Seq(Quiet(inp)), NEW c, c = Len(cleanup), ClearsUpTo(cleanup, c),
         \A i \in 1 .. Len(cleanup) : Accounted(inp.remote, cleanup[i]),
         NEW inTime \in Seq(inp.library),
         inTime = <<>> \/ Usage(inp.remote, cleanup) + SizeOf(inTime) <= inp.maxBytes
  PROVE  Roomy(inp, Opening(d, cleanup, inTime, late), limit, c)
<1> DEFINE remote == inp.remote
           I == {m \in DOMAIN d.items : /\ d.items[m].video \notin late
                                        /\ CurrentName(d.items[m].video, d.c) = None}
           x == Entering(d, late)
           U == [k \in DOMAIN inTime |-> Upload(inTime[k])]
           X == [k \in DOMAIN x |-> Activate(x[k])]
           T == ActionsOf(inp)
           h == cleanup \o U
<1>1. InputOK(inp) /\ SizesOK(remote)
  BY DEF SizesListed
<1>2. Opening(d, cleanup, inTime, late) = h \o X
  BY DEF Opening
<1>3. /\ Len(x) \in Nat /\ DOMAIN x = 1 .. Len(x)
      /\ \A k \in 1 .. Len(x) : Enters(inp, x[k])
  <2>1. d.items \in Seq(ItemsFor(inp)) /\ OncePerVideo(d.items) /\ I \subseteq 1 .. Len(d.items)
        /\ DOMAIN d.items = 1 .. Len(d.items)
    BY <1>1, DraftItems
  <2>2. x = Picked(d.items, I)
    BY DEF Entering
  <2>3. \A m \in I : Enters(inp, d.items[m])
    BY <1>1, <2>1, DraftItems
  <2> HIDE DEF I, x
  <2>4. Some(x, d.items, I)
    BY <2>1, <2>2, ItemsPicked
  <2>5. QED BY <2>3, <2>4 DEF Some
<1> HIDE DEF x, I
<1>4. X \in Seq(T) /\ Len(X) = Len(x) /\ \A k \in 1 .. Len(x) : X[k] = Activate(x[k]) /\ X[k] \in T
  <2> DEFINE n == Len(x)
  <2>1. X = [k \in 1 .. n |-> Activate(x[k])] /\ n \in Nat
    BY <1>3
  <2>2. \A k \in 1 .. n : Activate(x[k]) \in T
    BY <1>1, <1>3, EntersQuietly DEF Quiet
  <2> HIDE DEF n, T, X
  <2>3. QED BY <2>1, <2>2 DEF n
<1>5. /\ \A v \in inp.library : v.size \in Nat /\ Upload(v) \in T
      /\ \A v \in inp.library : Upload(v).kind = "upload"
  BY <1>1, QuietActions DEF Quiet, InputOK, LibraryOK, Videos, Upload, Act
<1>6. U \in Seq(T) /\ Len(U) = Len(inTime) /\ Len(inTime) \in Nat
      /\ \A k \in 1 .. Len(inTime) : U[k].kind = "upload"
  <2> HIDE DEF T
  <2>1. \A k \in 1 .. Len(inTime) : inTime[k] \in inp.library
    OBVIOUS
  <2>2. QED BY <1>5, <2>1, SMTT(30)
<1>7. cleanup \in Seq(T)
  <2> DEFINE Q == Quiet(inp)
  <2>1. cleanup \in Seq(Q) /\ Q \subseteq T
    BY DEF Quiet
  <2> HIDE DEF Q, T
  <2>2. QED BY <2>1
<1>8. /\ "upload" \notin StagingDeletes /\ "activate" \notin StagingDeletes
      /\ \A k \in 1 .. Len(x) : Activate(x[k]).kind = "activate"
  BY DEF StagingDeletes, Activate, Act
<1>9. Room(remote, cleanup, limit)
  <2>1. Room(remote, <<>>, limit)
    BY RoomAtFirst
  <2>2. \A i \in 1 .. Len(cleanup) : cleanup[i].kind # "upload"
    <3>1. \A i \in 1 .. Len(cleanup) : cleanup[i].kind \in StagingDeletes
      BY DEF ClearsUpTo
    <3>2. QED BY <3>1, <1>8
  <2>3. <<>> \o cleanup = cleanup /\ <<>> \in Seq(T)
    <3> HIDE DEF T
    <3>1. QED BY <1>7
  <2> HIDE DEF T, remote
  <2>4. Room(remote, <<>> \o cleanup, limit)
    BY <1>1, <1>7, <2>1, <2>2, <2>3, RoomOn DEF remote
  <2>5. QED BY <2>3, <2>4
<1> HIDE DEF T, X
<1>10. Room(remote, h, limit)
  <2>1. CASE inTime = <<>>
    <3> HIDE DEF U
    <3>1. \A i \in 1 .. Len(U) : Accounted(remote, U[i]) /\ U[i].kind # "upload"
      <4>1. Len(U) = 0
        BY <1>6, <2>1
      <4>2. QED BY <4>1
    <3>2. QED BY <1>1, <1>6, <1>7, <1>9, <3>1, RoomOn
  <2>2. CASE inTime # <<>>
    <3>1. Usage(remote, cleanup) + SizeOf(inTime) <= limit
      <4>1. Usage(remote, cleanup) \in Int
        BY <1>7, <1>9, RoomEnds
      <4>2. SizeOf(inTime) \in Int
        <5>1. PICK total \in [0 .. Len(inTime) -> Nat] : SizeOf(inTime) = total[Len(inTime)]
          BY <1>5, SizeOfIs
        <5>2. QED BY <1>6, <5>1
      <4>3. QED BY <2>2, <4>1, <4>2
    <3> HIDE DEF remote
    <3>2. QED BY <1>1, <1>5, <1>7, <1>9, <3>1, RoomUploads DEF remote
  <2>3. QED BY <2>1, <2>2
<1> HIDE DEF U
<1>11. h \in Seq(T) /\ ClearsUpTo(h, c)
  <2>1. \A i \in 1 .. Len(U) : U[i].kind \notin StagingDeletes
    BY <1>6, <1>8
  <2>2. QED BY <1>6, <1>7, <2>1, ClearsOn
<1> HIDE DEF h
<1>12. \A i \in 1 .. Len(X) : X[i].kind = "activate" /\ X[i] \in T
  BY <1>4, <1>8
<1>13. \A i \in 1 .. Len(X) : Accounted(remote, X[i]) /\ X[i].kind # "upload"
  BY <1>8, <1>12, ActionsAccounted DEF T
<1>14. Room(remote, h \o X, limit)
  BY <1>1, <1>4, <1>10, <1>11, <1>13, RoomOn
<1>15. ClearsUpTo(h \o X, c)
  BY <1>4, <1>8, <1>11, <1>12, ClearsOn
<1>16. QED BY <1>2, <1>14, <1>15 DEF Roomy

(* Actions that send nothing and clear nothing.                            *)
LEMMA RoomyOn ==
  ASSUME NEW inp, SizesListed(inp), NEW limit \in Int, NEW c,
         NEW s \in Seq(ActionsOf(inp)), Roomy(inp, s, limit, c),
         NEW t \in Seq(ActionsOf(inp)),
         \A i \in 1 .. Len(t) : t[i].kind \in Takes
  PROVE  Roomy(inp, s \o t, limit, c)
<1> DEFINE T == ActionsOf(inp)
<1>1. SizesOK(inp.remote)
  BY DEF SizesListed
<1>2. \A k \in Takes : k \notin StagingDeletes /\ k # "upload"
  BY DEF Takes, StagingDeletes
<1>3. \A i \in 1 .. Len(t) : t[i] \in T
  <2> HIDE DEF T
  <2>1. t \in Seq(T)
    BY DEF T
  <2>2. QED BY <2>1
<1>4. \A i \in 1 .. Len(t) :
        Accounted(inp.remote, t[i]) /\ t[i].kind # "upload" /\ t[i].kind \notin StagingDeletes
  BY <1>2, <1>3, ActionsAccounted
<1> HIDE DEF T
<1>5. Room(inp.remote, s \o t, limit)
  BY <1>1, <1>4, RoomOn DEF Roomy
<1>6. ClearsUpTo(s \o t, c)
  BY <1>4, ClearsOn DEF Roomy
<1>7. QED BY <1>5, <1>6 DEF Roomy

LEMMA CompletedHasRoom ==
  ASSUME NEW inp, SizesListed(inp), NEW d, DraftOK(inp, d), inp.maxBytes # None,
         NEW limit \in Int, inp.maxBytes \in Int, inp.maxBytes <= limit, NEW c,
         NEW late, \A v \in late : v.id \notin DOMAIN d.c.managed,
         NEW A \in Seq(Quiet(inp)), Roomy(inp, A, limit, c),
         NEW main, main.actions = A \o Mapped(DeleteActive, ByName(d.extra)) \o Reorders(d),
         NEW wished, TakesOf(inp, wished, Leaving(d))
  PROVE  Roomy(inp, Completed(d, late, main, wished), limit, c)
<1> DEFINE E        == Mapped(DeleteActive, ByName(d.extra))
           R        == Reorders(d)
           isLate(item)   == item.video \in late
           isOnTime(item) == item.video \notin late
           I        == {m \in DOMAIN d.items : d.items[m].video \in late}
           later    == Picked(d.items, I)
           playing  == d.c.playable \ {x.src : x \in ToSet(wished)}
           remains  == Len(ItemsWith(d, isOnTime)) + Cardinality(playing)
           W        == IF remains = 0 THEN <<>> ELSE wished
           kept     == main.ready \cup {x.dst.sha : x \in {y \in ToSet(W) : y.kind = "deactivate"}}
           s0       == main.actions \o W
           s1       == WithLate(d, later, remains, s0)
           s2       == WithStagedAhead(d, kept, s1)
           T        == ActionsOf(inp)
<1>1. Completed(d, late, main, wished) = WithStagingDir(s2, inp.remote.stagingExists)
  BY DEF Completed, ItemsWith, DraftOK
<1>2. InputOK(inp) /\ d.inp = inp /\ Schedule(d.keep, inp.wants)
  BY DEF SizesListed, DraftOK
<1>3. /\ TakesOf(inp, E, Extra(d))
      /\ TakesOf(inp, R, Moving(d))
  BY <1>2, ExtraTaken, ReordersTaken
<1>4. /\ Len(later) \in Nat
      /\ \A k \in 1 .. Len(later) : Enters(inp, later[k])
  <2>1. d.items \in Seq(ItemsFor(inp)) /\ OncePerVideo(d.items) /\ DOMAIN d.items = 1 .. Len(d.items)
    BY <1>2, DraftItems
  <2>2. \A m \in I : m \in 1 .. Len(d.items) /\ d.items[m].video.id \notin DOMAIN d.c.managed
    BY <2>1
  <2> HIDE DEF I
  <2>3. \A m \in I : Enters(inp, d.items[m])
    BY <1>2, <2>2, DraftItems
  <2>4. I \subseteq 1 .. Len(d.items)
    BY <2>2
  <2>5. Some(later, d.items, I)
    BY <2>1, <2>4, ItemsPicked
  <2> HIDE DEF later
  <2>6. QED BY <2>3, <2>5 DEF Some
<1>5. W \in Seq(T) /\ \A i \in 1 .. Len(W) : W[i].kind \in Takes
  <2> HIDE DEF remains
  <2>1. wished \in Seq(T) /\ \A i \in 1 .. Len(wished) : wished[i].kind \in Takes
    BY DEF TakesOf
  <2>2. <<>> \in Seq(T) /\ \A i \in 1 .. Len(<<>>) : FALSE
    OBVIOUS
  <2>3. QED BY <2>1, <2>2
<1> HIDE DEF later, W, remains, T
<1>6. /\ E \in Seq(T) /\ \A i \in 1 .. Len(E) : E[i].kind \in Takes
      /\ R \in Seq(T) /\ \A i \in 1 .. Len(R) : R[i].kind \in Takes
  BY <1>3 DEF TakesOf, T
<1>7. A \in Seq(T)
  <2> DEFINE Q == Quiet(inp)
  <2>1. A \in Seq(Q) /\ Q \subseteq T
    BY DEF Quiet, T
  <2> HIDE DEF Q
  <2>2. QED BY <2>1
<1>8. s0 = A \o E \o R \o W
  OBVIOUS
<1> HIDE DEF E, R, s0
<1> DEFINE x == A \o E
           y == x \o R
<1>9. x \in Seq(T) /\ Roomy(inp, x, limit, c)
  BY <1>6, <1>7, RoomyOn DEF T
<1> HIDE DEF x
<1>10. y \in Seq(T) /\ Roomy(inp, y, limit, c)
  BY <1>6, <1>9, RoomyOn DEF T
<1>11. s0 = y \o W
  BY <1>8 DEF x
<1> HIDE DEF y
<1>12. s0 \in Seq(T) /\ Roomy(inp, s0, limit, c)
  BY <1>5, <1>10, <1>11, RoomyOn DEF T
<1>13. Continues(inp, s0, s1)
  BY <1>2, <1>4, <1>12, LateContinues DEF T
<1>14. Roomy(inp, s1, limit, c)
  BY <1>2, <1>4, <1>12, LateHasRoom DEF T
<1> HIDE DEF s1, kept
<1>15. Continues(inp, s0, s2)
  BY <1>2, <1>12, <1>13, StagedAheadContinues DEF T
<1>16. s1 \in Seq(T)
  BY <1>13 DEF Continues, T
<1>17. Roomy(inp, s2, limit, c)
  BY <1>2, <1>14, <1>16, AheadHasRoom DEF T
<1> HIDE DEF s2
<1>18. s2 \in Seq(T)
  BY <1>15 DEF Continues, T
<1>19. QED BY <1>1, <1>17, <1>18, StagingDirHasRoom DEF T

LEMMA BytesKnown ==
  ASSUME NEW remote, SizesOK(remote)
  PROVE  BytesOf(remote) \in Nat
<1>1. RootBytes(remote.root) \in Nat /\ Space(remote.staging) \in Nat
  BY FilesInAre, SpaceKnown DEF SizesOK
<1>2. QED BY <1>1 DEF BytesOf, Space

(* Every plan made with a limit: whatever the Pi holds at first, after     *)
(* each of its actions the files take no more than the limit, or than they *)
(* took when it was made if that was more; and it clears the staging       *)
(* folder before it sends or moves anything (planner.py:605-733).          *)
THEOREM PlansFit ==
  ASSUME NEW inp, SizesListed(inp), inp.maxBytes # None, inp.maxBytes \in Nat,
         NEW limit \in Int, inp.maxBytes <= limit, BytesOf(inp.remote) <= limit
  PROVE  \E c : Roomy(inp, Plan(inp), limit, c)
<1> DEFINE d        == DraftIn(inp)
           required == Required(d)
           cleanup  == Cleanup(d, required)
           inTime   == Fitting(required, Usage(inp.remote, cleanup), inp.maxBytes)
           late     == ToSet(required) \ ToSet(inTime)
           main     == MainPart(d, cleanup, inTime, late)
           wished   == Removals(inp.remote, inp.library, d.c, inp.requests, Placed(d), d.keep, main.ready)
           c        == Len(cleanup)
<1>1. Plan(inp) = PlanUploading(d, cleanup, required, inTime)
  BY DEF Plan, DraftIn
<1>2. InputOK(inp) /\ BytesOf(inp.remote) \in Int
  BY BytesKnown DEF SizesListed
<1>3. d.c = Classify(inp.remote, inp.library) /\ d.inp = inp
  BY DEF DraftIn, DraftOf
<1>4. DraftOK(inp, d)
  BY <1>2, DraftIsOK
<1>5. PlanUploading(d, cleanup, required, inTime) = Completed(d, late, main, wished)
  BY <1>3 DEF PlanUploading
<1> HIDE DEF d
<1>6. required \in Seq(inp.library) /\ \A k \in 1 .. Len(required) : required[k].id \notin DOMAIN d.c.managed
  BY <1>2, <1>4, RequiredIsMissing
<1>7. cleanup \in Seq(Quiet(inp))
  BY <1>2, <1>4, CleanupIsQuiet
<1>8. ClearsUpTo(cleanup, c) /\ \A i \in 1 .. Len(cleanup) : Accounted(inp.remote, cleanup[i])
  BY <1>2, <1>3, <1>4, CleanupClears
<1> HIDE DEF required, cleanup, c
<1>9. inTime \in Seq(inp.library)
  BY <1>6, FittingIsSome
<1>10. inTime = <<>> \/ Usage(inp.remote, cleanup) + SizeOf(inTime) <= inp.maxBytes
  BY <1>6, FittingFits
<1>11. \A v \in late : v.id \notin DOMAIN d.c.managed
  BY <1>6 DEF ToSet
<1> HIDE DEF inTime, late
<1> DEFINE A == Opening(d, cleanup, inTime, late)
<1>12. A \in Seq(Quiet(inp))
  BY <1>2, <1>4, <1>7, <1>9, OpeningIsQuiet
<1>13. Roomy(inp, A, limit, c)
  BY <1>2, <1>4, <1>7, <1>8, <1>9, <1>10, OpeningHasRoom DEF c
<1>14. main.actions = A \o Mapped(DeleteActive, ByName(d.extra)) \o Reorders(d)
  BY MainPartOpens
<1> HIDE DEF main, A
<1>15. TakesOf(inp, wished, Leaving(d))
  BY <1>2, <1>4, RemovalsTaken
<1> HIDE DEF wished
<1>16. Roomy(inp, Completed(d, late, main, wished), limit, c)
  <2>1. inp.maxBytes \in Int
    OBVIOUS
  <2>2. QED BY <1>4, <1>11, <1>12, <1>13, <1>14, <1>15, <2>1, CompletedHasRoom
<1>17. QED BY <1>1, <1>5, <1>16

-----------------------------------------------------------------------------
(* What a plan leaves out                                                  *)

(* Something to play is on the screen, or a playable film that nobody      *)
(* asked to delete.                                                        *)
GoesOn(inp) ==
  \/ Showing(inp) # {}
  \/ \E n \in Classify(inp.remote, inp.library).playable : n \notin inp.requests

(* What an empty plan says, with a limit or without: if something goes on  *)
(* playing, the app's files in the folder are those of what should play    *)
(* that is there, in the schedule's order and once each, and each other    *)
(* video that should play does not fit beside all that is on the Pi        *)
(* (planner.py, plan: what is late is sent before or after the removals).  *)
THEOREM WhatFitsIsSent ==
  ASSUME NEW inp, SizesListed(inp), Plain(inp), Plan(inp) = <<>>, GoesOn(inp)
  PROVE  LET wants == DesiredWants(inp.wants, inp.now)
         IN  /\ ShowsOf(inp, wants, Showing(inp))
             /\ \A i \in 1 .. Len(wants) \ Showing(inp) :
                  /\ inp.maxBytes # None
                  /\ ~ (BytesOf(inp.remote) + wants[i].video.size <= inp.maxBytes)
<1> DEFINE d     == DraftIn(inp)
           c     == Classify(inp.remote, inp.library)
           wants == DesiredWants(inp.wants, inp.now)
           S     == Showing(inp)
<1>1. InputOK(inp) /\ SizesOK(inp.remote)
  BY DEF SizesListed
<1>2. d.wants = wants /\ d.c = c /\ d.inp = inp
  BY DEF DraftIn, DraftOf
<1>3. PICK late : NothingToDo(d, late)
  BY <1>1, EmptyPlan
<1>4. RisingItems(d)
  BY <1>1, ItemsRise
<1>5. S = {i \in 1 .. Len(wants) : wants[i].video.id \in DOMAIN c.managed}
  BY <1>1, ShowingAre
<1>6. S # {} \/ \E n \in c.playable : n \notin inp.requests
  BY DEF GoesOn
<1> HIDE DEF d, c, wants, S
<1>7. Len(d.items) = Len(wants) /\ \A i \in 1 .. Len(wants) : d.items[i].video = wants[i].video
  BY <1>2, <1>4 DEF RisingItems
<1>8. \A i \in 1 .. Len(wants) : i \in S <=> wants[i].video \notin late
  BY <1>2, <1>3, <1>5, <1>7 DEF NothingToDo
<1>9. Lasts(d, late)
  <2>1. CASE S # {}
    BY <1>5, <1>7, <1>8, <2>1 DEF Lasts
  <2>2. CASE \E n \in c.playable : n \notin inp.requests
    BY <1>2, <2>2 DEF Lasts
  <2>3. QED BY <1>6, <2>1, <2>2
<1>10. ShowsOf(inp, wants, S)
  BY <1>1, <1>3, <1>9, NamesShown DEF d, wants, S
<1>11. Usage(inp.remote, <<>>) = BytesOf(inp.remote)
  <2>1. BytesOf(inp.remote) \in Nat
    BY <1>1, BytesKnown
  <2>2. BytesOf(inp.remote) \in Int /\ BytesOf(inp.remote) <= BytesOf(inp.remote)
    BY <2>1
  <2>3. QED BY <2>2, RoomAtFirst
<1>12. ASSUME NEW i \in 1 .. Len(wants), i \notin S
       PROVE  /\ inp.maxBytes # None
              /\ ~ (BytesOf(inp.remote) + wants[i].video.size <= inp.maxBytes)
  <2>1. ~ Fits(d, <<>>, wants[i].video)
    BY <1>3, <1>7, <1>8, <1>9, <1>12 DEF NothingToDo
  <2>2. QED BY <1>2, <1>11, <2>1 DEF Fits
<1>13. QED BY <1>10, <1>12 DEF wants, S
=============================================================================
