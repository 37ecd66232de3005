-------------------------- MODULE RunFacadeProofs --------------------------
(***************************************************************************)
(* A number kept by an index or an environment store names the file it is  *)
(* kept for, as long as no Run is pickled with a store it has read from.   *)
(* It takes more than that to be inductive: a number is closed together    *)
(* with the cache that keeps it, so no two caches may keep the same one.   *)
(***************************************************************************)
EXTENDS RunFacade, TLAPS, FiniteSetTheorems, SequenceTheorems

\* A non-empty set of naturals has a least element, and Min finds it.
LEMMA MinProperties ==
  ASSUME NEW T, T \subseteq Nat, T # {}
  PROVE  Min(T) \in T /\ \A y \in T : Min(T) <= y
<1> DEFINE R == OpToRel(<, Nat)
<1>1. IsWellFoundedOn(R, Nat)
  BY NatLessThanWellFounded
<1>2. \A x, y \in Nat : x < y => <<x, y>> \in R
  BY DEF OpToRel
<1> HIDE DEF R
<1>3. PICK x \in T : \A y \in T : ~ (<<y, x>> \in R)
  BY <1>1, WFMin
<1>4. \A y \in T : x \in Nat /\ y \in Nat /\ ~ (y < x)
  BY <1>2, <1>3
<1>5. \A y \in T : x <= y
  BY <1>4
<1>6. QED
  BY <1>5 DEF Min

Paths == {DataPath, EnvPath}
Caches == UNION {[P -> Fds] : P \in SUBSET Paths}
Entries == [path : Paths, opener : 1 .. MaxPid]
IndexObjects == [gen : Nat, fds : Caches]

\* The numbers of a cache name their files in tab.
Sound(tab, c) == \A path \in DOMAIN c : tab[c[path]] # Nil /\ tab[c[path]].path = path

\* No number is in both caches.
Apart(c, d) == \A p \in DOMAIN c, q \in DOMAIN d : c[p] # d[q]

\* Every cache is sound, and no two share a number.
Good(tab, store, os) ==
    /\ tab \in [Fds -> {Nil} \cup Entries]
    /\ store \in Caches
    /\ Sound(tab, store)
    /\ DOMAIN os \subseteq Objects
    /\ os \in [DOMAIN os -> IndexObjects]
    /\ \A o \in DOMAIN os : Sound(tab, os[o].fds) /\ Apart(store, os[o].fds)
    /\ \A o, q \in DOMAIN os : o # q => Apart(os[o].fds, os[q].fds)

\* The inductive invariant: the caches are good, and what the Run and its
\* datasets refer to is there.
IInv ==
    /\ gen \in Nat
    /\ pid \in 1 .. MaxPid
    /\ Good(table, EnvCache, objs)
    /\ env = Nil \/ env \in [gen : Nat, fds : Caches]
    /\ index = Nil \/ index \in DOMAIN objs
    /\ datasets \in Seq([obj : Objects, pid : 1 .. MaxPid, clean : BOOLEAN])
    /\ \A i \in DOMAIN datasets : datasets[i].obj \in DOMAIN objs

-----------------------------------------------------------------------------
\* A cache is a function; the empty one is sound and apart from every other.
LEMMA EmptyCache ==
  /\ <<>> \in Caches
  /\ DOMAIN <<>> = {}
  /\ \A tab : Sound(tab, <<>>)
  /\ \A c : Apart(<<>>, c) /\ Apart(c, <<>>)
<1>1. <<>> \in [{} -> Fds] /\ DOMAIN <<>> = {}
  OBVIOUS
<1>2. QED
  BY <1>1 DEF Caches, Sound, Apart

\* A cache with a number for one more path.
LEMMA CacheWith ==
  ASSUME NEW c \in Caches, NEW path \in Paths, NEW fd \in Fds, path \notin DOMAIN c
  PROVE  /\ Put(c, path, fd) \in Caches
         /\ DOMAIN Put(c, path, fd) = DOMAIN c \cup {path}
         /\ Put(c, path, fd)[path] = fd
         /\ \A p \in DOMAIN c : Put(c, path, fd)[p] = c[p]
<1>1. PICK P \in SUBSET Paths : c \in [P -> Fds]
  BY DEF Caches
<1>2. Put(c, path, fd) \in [P \cup {path} -> Fds] /\ (P \cup {path}) \in SUBSET Paths
  BY <1>1 DEF Put
<1>3. QED
  BY <1>1, <1>2 DEF Caches, Put

\* The lowest free number is a number of the table, and free.
LEMMA LowestFree ==
  ASSUME NEW tab, FreeFds(tab) # {}
  PROVE  Min(FreeFds(tab)) \in Fds /\ tab[Min(FreeFds(tab))] = Nil
<1>1. FreeFds(tab) \subseteq Nat
  BY BoundsAssumption DEF FreeFds, Fds
<1>2. Min(FreeFds(tab)) \in FreeFds(tab)
  BY <1>1, MinProperties
<1>3. QED
  BY <1>2 DEF FreeFds

\* A sequence with one element taken out.
LEMMA WithoutOne ==
  ASSUME NEW S, NEW s \in Seq(S), NEW i \in DOMAIN s
  PROVE  LET t == SubSeq(s, 1, i - 1) \o SubSeq(s, i + 1, Len(s))
         IN t \in Seq(S) /\ \A j \in DOMAIN t : \E k \in DOMAIN s : t[j] = s[k]
<1> DEFINE n == Len(s)
           before == SubSeq(s, 1, i - 1)
           after == SubSeq(s, i + 1, n)
           t == before \o after
<1>1. n \in Nat /\ DOMAIN s = 1 .. n /\ i \in 1 .. n /\ \A j \in 1 .. n : s[j] \in S
  OBVIOUS
<1> HIDE DEF n
<1>2. /\ before \in Seq(S) /\ Len(before) = i - 1
      /\ \A j \in 1 .. i - 1 : before[j] = s[j]
  <2>1. (i - 1) \in Int /\ \A j \in 1 .. i - 1 : s[j] \in S
    BY <1>1
  <2>2. /\ before \in Seq(S) /\ Len(before) = IF 1 <= i - 1 THEN (i - 1) - 1 + 1 ELSE 0
        /\ \A j \in 1 .. (i - 1) - 1 + 1 : before[j] = s[1 + j - 1]
    BY <2>1, SubSeqProperties
  <2>3. QED
    BY <1>1, <2>2
<1>3. /\ after \in Seq(S) /\ Len(after) = n - i
      /\ \A j \in 1 .. n - i : after[j] = s[i + j]
  <2>1. (i + 1) \in Int /\ n \in Int /\ \A j \in (i + 1) .. n : s[j] \in S
    BY <1>1
  <2>2. /\ after \in Seq(S) /\ Len(after) = IF i + 1 <= n THEN n - (i + 1) + 1 ELSE 0
        /\ \A j \in 1 .. n - (i + 1) + 1 : after[j] = s[(i + 1) + j - 1]
    BY <2>1, SubSeqProperties
  <2>3. QED
    BY <1>1, <2>2
<1> HIDE DEF before, after
<1>4. /\ t \in Seq(S) /\ Len(t) = Len(before) + Len(after)
      /\ \A j \in 1 .. Len(before) + Len(after) :
             t[j] = IF j <= Len(before) THEN before[j] ELSE after[j - Len(before)]
  BY <1>2, <1>3, ConcatProperties
<1> HIDE DEF t
<1>5. \A j \in DOMAIN t : \E k \in DOMAIN s : t[j] = s[k]
  <2>1. DOMAIN t = 1 .. n - 1
    BY <1>1, <1>2, <1>3, <1>4
  <2>2. Len(before) = i - 1 /\ Len(before) + Len(after) = n - 1
    BY <1>1, <1>2, <1>3
  <2>3. \A j \in 1 .. n - 1 : t[j] = IF j <= i - 1 THEN before[j] ELSE after[j - (i - 1)]
    BY <1>4, <2>2
  <2> SUFFICES ASSUME NEW j \in 1 .. n - 1 PROVE \E k \in 1 .. n : t[j] = s[k]
    BY <1>1, <2>1
  <2>4. CASE j <= i - 1
    <3>1. t[j] = s[j]
      BY <1>1, <1>2, <2>3, <2>4
    <3>2. QED
      BY <1>1, <3>1
  <2>5. CASE ~(j <= i - 1)
    <3>1. j - (i - 1) \in 1 .. n - i
      BY <1>1, <2>5
    <3>2. t[j] = after[j - (i - 1)]
      BY <2>3, <2>5
    <3>3. after[j - (i - 1)] = s[i + (j - (i - 1))]
      BY <1>3, <3>1
    <3>4. i + (j - (i - 1)) \in 1 .. n
      BY <1>1, <3>1
    <3>5. QED
      BY <3>2, <3>3, <3>4
  <2>6. QED
    BY <2>4, <2>5
<1>6. QED
  BY <1>4, <1>5 DEF t, before, after, n

LEMMA NewObjectFree ==
  ASSUME Objects \ DOMAIN objs # {}
  PROVE  NewObject \in Objects \ DOMAIN objs
<1>1. Objects \ DOMAIN objs \subseteq Nat
  BY BoundsAssumption DEF Objects
<1>2. QED
  BY <1>1, MinProperties DEF NewObject

-----------------------------------------------------------------------------
\* Opening a file at a free number disturbs no cache, and no cache has it.
LEMMA OpenKeeps ==
  ASSUME NEW tab, NEW store, NEW os, Good(tab, store, os),
         NEW fd \in Fds, tab[fd] = Nil, NEW e \in Entries
  PROVE  /\ Good([tab EXCEPT ![fd] = e], store, os)
         /\ \A p \in DOMAIN store : store[p] # fd
         /\ \A o \in DOMAIN os : \A p \in DOMAIN os[o].fds : os[o].fds[p] # fd
<1>1. tab \in [Fds -> {Nil} \cup Entries] /\ [tab EXCEPT ![fd] = e] \in [Fds -> {Nil} \cup Entries]
  BY DEF Good
<1>2. \A c : Sound(tab, c) => \A p \in DOMAIN c : c[p] # fd
  BY DEF Sound
<1>3. \A c \in Caches : Sound(tab, c) => Sound([tab EXCEPT ![fd] = e], c)
  <2> SUFFICES ASSUME NEW c \in Caches, Sound(tab, c), NEW p \in DOMAIN c
               PROVE  /\ [tab EXCEPT ![fd] = e][c[p]] # Nil
                      /\ [tab EXCEPT ![fd] = e][c[p]].path = p
    BY DEF Sound
  <2>1. c[p] \in Fds
    BY DEF Caches
  <2>2. [tab EXCEPT ![fd] = e][c[p]] = tab[c[p]]
    BY <1>1, <1>2, <2>1
  <2>3. QED
    BY <2>2 DEF Sound
<1>4. \A o \in DOMAIN os : os[o].fds \in Caches
  BY DEF Good, IndexObjects
<1>5. QED
  BY <1>1, <1>2, <1>3, <1>4 DEF Good

\* A free number kept under its path makes a sound cache of a sound one.
LEMMA OpenExtends ==
  ASSUME NEW tab \in [Fds -> {Nil} \cup Entries], NEW c \in Caches, Sound(tab, c),
         NEW fd \in Fds, tab[fd] = Nil, NEW e \in Entries, e.path \notin DOMAIN c
  PROVE  Sound([tab EXCEPT ![fd] = e], Put(c, e.path, fd))
<1> DEFINE d == Put(c, e.path, fd)
           opened == [tab EXCEPT ![fd] = e]
<1>1. e.path \in Paths /\ e # Nil
  BY NilAssumption DEF Entries, Paths
<1>2. /\ DOMAIN d = DOMAIN c \cup {e.path} /\ d[e.path] = fd
      /\ \A p \in DOMAIN c : d[p] = c[p]
  BY <1>1, CacheWith
<1>3. opened[fd] = e
  OBVIOUS
<1>4. \A p \in DOMAIN c : opened[c[p]] = tab[c[p]]
  <2>1. \A p \in DOMAIN c : c[p] \in Fds /\ c[p] # fd
    BY DEF Caches, Sound
  <2>2. QED
    BY <2>1
<1> HIDE DEF d, opened
<1>5. Sound(opened, d)
  BY <1>1, <1>2, <1>3, <1>4 DEF Sound
<1>6. QED
  BY <1>5 DEF d, opened

\* An index may be given another sound cache that shares no number.
LEMMA PutKeeps ==
  ASSUME NEW tab, NEW store, NEW os, Good(tab, store, os),
         NEW o \in DOMAIN os, NEW c \in Caches, Sound(tab, c), Apart(store, c),
         \A q \in DOMAIN os \ {o} : Apart(c, os[q].fds)
  PROVE  Good(tab, store, [os EXCEPT ![o].fds = c])
<1> DEFINE ps == [os EXCEPT ![o].fds = c]
<1>1. os \in [DOMAIN os -> IndexObjects] /\ DOMAIN os \subseteq Objects
  BY DEF Good
<1>2. DOMAIN ps = DOMAIN os
  OBVIOUS
<1>3. ps[o].fds = c /\ ps[o] \in IndexObjects
  BY <1>1 DEF IndexObjects
<1>4. \A q \in DOMAIN os \ {o} : ps[q] = os[q]
  BY <1>1
<1>5. ps \in [DOMAIN ps -> IndexObjects]
  BY <1>1, <1>2, <1>3, <1>4
<1> HIDE DEF ps
<1>6. \A q \in DOMAIN ps : Sound(tab, ps[q].fds) /\ Apart(store, ps[q].fds)
  BY <1>2, <1>3, <1>4 DEF Good
<1>7. \A q, r \in DOMAIN ps : q # r => Apart(ps[q].fds, ps[r].fds)
  <2>1. \A a, b : Apart(a, b) => Apart(b, a)
    BY DEF Apart
  <2>2. \A q, r \in DOMAIN os : q # r => Apart(os[q].fds, os[r].fds)
    BY DEF Good
  <2>3. QED
    BY <1>2, <1>3, <1>4, <2>1, <2>2
<1>8. Good(tab, store, ps)
  BY <1>1, <1>2, <1>5, <1>6, <1>7 DEF Good
<1>9. QED
  BY <1>8 DEF ps

\* Forgetting a cache without closing it is harmless to the others.
LEMMA ClearKeeps ==
  ASSUME NEW tab, NEW store, NEW os, Good(tab, store, os), NEW o \in DOMAIN os
  PROVE  Good(tab, store, [os EXCEPT ![o].fds = <<>>])
BY PutKeeps, EmptyCache

LEMMA ForgetStore ==
  ASSUME NEW tab, NEW store, NEW os, Good(tab, store, os)
  PROVE  Good(tab, <<>>, os)
BY EmptyCache DEF Good

\* A new index has opened nothing.
LEMMA NewKeeps ==
  ASSUME NEW tab, NEW store, NEW os, Good(tab, store, os),
         NEW n \in Objects \ DOMAIN os, NEW g \in Nat
  PROVE  /\ Good(tab, store, Put(os, n, [gen |-> g, fds |-> <<>>]))
         /\ DOMAIN Put(os, n, [gen |-> g, fds |-> <<>>]) = DOMAIN os \cup {n}
<1> DEFINE new == [gen |-> g, fds |-> <<>>]
           ps == Put(os, n, new)
<1>1. new \in IndexObjects /\ new.fds = <<>>
  BY EmptyCache DEF IndexObjects
<1> HIDE DEF new
<1>2. DOMAIN ps = DOMAIN os \cup {n} /\ ps[n] = new /\ \A o \in DOMAIN os : ps[o] = os[o]
  BY DEF Put
<1>3. ps \in [DOMAIN ps -> IndexObjects] /\ DOMAIN ps \subseteq Objects
  BY <1>1 DEF Put, Good
<1> HIDE DEF ps
<1>4. \A o \in DOMAIN ps : Sound(tab, ps[o].fds) /\ Apart(store, ps[o].fds)
  BY <1>1, <1>2, EmptyCache DEF Good
<1>5. \A o, q \in DOMAIN ps : o # q => Apart(ps[o].fds, ps[q].fds)
  BY <1>1, <1>2, EmptyCache DEF Good
<1>6. Good(tab, store, ps)
  BY <1>3, <1>4, <1>5 DEF Good
<1>7. QED
  BY <1>2, <1>6 DEF ps, new

\* Closing numbers no cache keeps.
LEMMA ShutKeeps ==
  ASSUME NEW tab, NEW store, NEW os, Good(tab, store, os), NEW fds,
         \A p \in DOMAIN store : store[p] \notin fds,
         \A o \in DOMAIN os : \A p \in DOMAIN os[o].fds : os[o].fds[p] \notin fds
  PROVE  Good(Shut(tab, fds), store, os)
<1> DEFINE shut == Shut(tab, fds)
<1>1. shut \in [Fds -> {Nil} \cup Entries] /\ \A fd \in Fds \ fds : shut[fd] = tab[fd]
  BY DEF Good, Shut
<1> HIDE DEF shut
<1>2. \A c \in Caches : Sound(tab, c) /\ (\A p \in DOMAIN c : c[p] \notin fds) => Sound(shut, c)
  <2> SUFFICES ASSUME NEW c \in Caches, Sound(tab, c), \A p \in DOMAIN c : c[p] \notin fds
               PROVE  Sound(shut, c)
    OBVIOUS
  <2>1. \A p \in DOMAIN c : c[p] \in Fds \ fds
    BY DEF Caches
  <2>2. QED
    BY <1>1, <2>1 DEF Sound
<1>3. \A o \in DOMAIN os : os[o].fds \in Caches
  BY DEF Good, IndexObjects
<1>4. Good(shut, store, os)
  BY <1>1, <1>2, <1>3 DEF Good
<1>5. QED
  BY <1>4 DEF shut

\* What an index kept is closed when nothing refers to it, and only that.
LEMMA CollectKeeps ==
  ASSUME NEW tab, NEW store, NEW os, Good(tab, store, os), NEW live
  PROVE  Good(Shut(tab, UNION {Range(os[o].fds) : o \in DOMAIN os \ live}), store,
              [o \in DOMAIN os \cap live |-> os[o]])
<1> DEFINE ps == [o \in DOMAIN os \cap live |-> os[o]]
           fds == UNION {Range(os[o].fds) : o \in DOMAIN os \ live}
<1>1. DOMAIN ps = DOMAIN os \cap live /\ \A o \in DOMAIN ps : ps[o] = os[o]
  OBVIOUS
<1>2. ps \in [DOMAIN ps -> IndexObjects]
  BY DEF Good
<1>3. \A fd \in fds : \E o \in DOMAIN os \ live : \E p \in DOMAIN os[o].fds : fd = os[o].fds[p]
  BY DEF Range
<1> HIDE DEF ps, fds
<1>4. Good(tab, store, ps)
  BY <1>1, <1>2 DEF Good
<1>5. \A p \in DOMAIN store : store[p] \notin fds
  BY <1>3 DEF Good, Apart
<1>6. \A o \in DOMAIN ps : \A p \in DOMAIN ps[o].fds : ps[o].fds[p] \notin fds
  <2> SUFFICES ASSUME NEW o \in DOMAIN ps, NEW p \in DOMAIN ps[o].fds, ps[o].fds[p] \in fds
               PROVE  FALSE
    OBVIOUS
  <2>1. PICK q \in DOMAIN os \ live : \E r \in DOMAIN os[q].fds : ps[o].fds[p] = os[q].fds[r]
    BY <1>3
  <2>2. o # q /\ o \in DOMAIN os /\ ps[o] = os[o]
    BY <1>1, <2>1
  <2>3. Apart(os[o].fds, os[q].fds)
    BY <2>1, <2>2 DEF Good
  <2>4. QED
    BY <2>1, <2>2, <2>3 DEF Apart
<1>7. Good(Shut(tab, fds), store, ps)
  BY <1>4, <1>5, <1>6, ShutKeeps
<1>8. QED
  BY <1>7 DEF ps, fds

-----------------------------------------------------------------------------
\* A new index for the Run.
LEMMA NewIndexKeeps ==
  ASSUME IInv, NewObject \in Objects \ DOMAIN objs
  PROVE  /\ Good(table, EnvCache, Put(objs, NewObject, [gen |-> gen, fds |-> <<>>]))
         /\ DOMAIN Put(objs, NewObject, [gen |-> gen, fds |-> <<>>]) = DOMAIN objs \cup {NewObject}
<1>1. Good(table, EnvCache, objs) /\ gen \in Nat
  BY DEF IInv
<1>2. Good(table, EnvCache, Put(objs, NewObject, [gen |-> gen, fds |-> <<>>]))
  BY <1>1, NewKeeps
<1>3. QED
  BY <1>2 DEF Put

\* The index a read begins with, new or cached.
LEMMA BuiltKeeps ==
  ASSUME IInv, CanBuild
  PROVE  /\ Good(table, EnvCache, BuiltObjs)
         /\ Built \in DOMAIN BuiltObjs
         /\ DOMAIN objs \subseteq DOMAIN BuiltObjs
<1>1. CASE index = Nil
  <2>1. NewObject \in Objects \ DOMAIN objs
    BY <1>1, NewObjectFree DEF CanBuild
  <2>2. Good(table, EnvCache, objs) /\ gen \in Nat
    BY DEF IInv
  <2>3. BuiltObjs = Put(objs, NewObject, [gen |-> gen, fds |-> <<>>]) /\ Built = NewObject
    BY <1>1 DEF BuiltObjs, Built
  <2>4. QED
    <3> DEFINE new == Put(objs, NewObject, [gen |-> gen, fds |-> <<>>])
    <3>1. Good(table, EnvCache, new) /\ DOMAIN new = DOMAIN objs \cup {NewObject}
      BY <2>1, <2>2, NewKeeps
    <3>2. QED
      BY <2>3, <3>1
<1>2. CASE index # Nil
  BY <1>2 DEF IInv, BuiltObjs, Built
<1>3. QED
  BY <1>1, <1>2

\* A read through an index o that keeps c or has forgotten it.
LEMMA ReadKeeps ==
  ASSUME NEW store, NEW os, Good(table, store, os), NEW o \in DOMAIN os,
         NEW c \in {os[o].fds, <<>>}, NEW path \in Paths, CanOpen(c, path), Open(c, path),
         pid \in 1 .. MaxPid
  PROVE  Good(table', store, [os EXCEPT ![o].fds = Cached(c, path)])
<1> DEFINE fd == Min(FreeFds(table))
           e == [path |-> path, opener |-> pid]
<1>1. Good(table, store, [os EXCEPT ![o].fds = c])
  <2>1. CASE c = os[o].fds
    <3>1. os \in [DOMAIN os -> IndexObjects]
      BY DEF Good
    <3>2. [os EXCEPT ![o].fds = os[o].fds] = os
      BY <3>1 DEF IndexObjects
    <3>3. QED
      BY <2>1, <3>2
  <2>2. CASE c = <<>>
    BY <2>2, ClearKeeps
  <2>3. QED
    BY <2>1, <2>2
<1>2. c \in Caches /\ Sound(table, c) /\ Apart(store, c)
      /\ \A q \in DOMAIN os \ {o} : Apart(c, os[q].fds)
  <2>1. os[o].fds \in Caches
    BY DEF Good, IndexObjects
  <2>2. QED
    BY <2>1, EmptyCache DEF Good
<1>3. CASE path \in DOMAIN c
  BY <1>1, <1>3 DEF Cached, Open
<1>4. CASE path \notin DOMAIN c
  <2>1. fd \in Fds /\ table[fd] = Nil /\ e \in Entries
    BY <1>4, LowestFree DEF CanOpen, Entries
  <2>2. Cached(c, path) = Put(c, path, fd) /\ table' = [table EXCEPT ![fd] = e]
    BY <1>4 DEF Cached, Open
  <2>3. e.path = path /\ table \in [Fds -> {Nil} \cup Entries]
    BY DEF Good
  <2> HIDE DEF fd, e
  <2>4. /\ Good(table', store, os)
        /\ \A p \in DOMAIN store : store[p] # fd
        /\ \A q \in DOMAIN os : \A p \in DOMAIN os[q].fds : os[q].fds[p] # fd
    BY <2>1, <2>2, OpenKeeps
  <2>5. Sound(table', Put(c, path, fd))
    BY <1>2, <1>4, <2>1, <2>2, <2>3, OpenExtends
  <2>6. /\ Put(c, path, fd) \in Caches /\ DOMAIN Put(c, path, fd) = DOMAIN c \cup {path}
        /\ Put(c, path, fd)[path] = fd
        /\ \A p \in DOMAIN c : Put(c, path, fd)[p] = c[p]
    <3>1. c \in Caches /\ fd \in Fds
      BY <1>2, <2>1
    <3>2. Put(c, path, fd) \in Caches
      BY <1>4, <3>1, CacheWith
    <3>3. QED
      BY <1>4, <3>2 DEF Put
  <2>7. Apart(store, Put(c, path, fd))
    BY <1>2, <2>4, <2>6 DEF Apart
  <2>8. \A q \in DOMAIN os \ {o} : Apart(Put(c, path, fd), os[q].fds)
    BY <1>2, <2>4, <2>6 DEF Apart
  <2>9. QED
    BY <2>2, <2>4, <2>5, <2>6, <2>7, <2>8, PutKeeps
<1>5. QED
  BY <1>3, <1>4

\* A read through the environment store.
LEMMA StoreReadKeeps ==
  ASSUME NEW c, NEW os, Good(table, c, os), NEW path \in Paths,
         CanOpen(c, path), Open(c, path), pid \in 1 .. MaxPid
  PROVE  Good(table', Cached(c, path), os)
<1> DEFINE fd == Min(FreeFds(table))
           e == [path |-> path, opener |-> pid]
<1>1. CASE path \in DOMAIN c
  BY <1>1 DEF Cached, Open
<1>2. CASE path \notin DOMAIN c
  <2>1. fd \in Fds /\ table[fd] = Nil /\ e \in Entries
    BY <1>2, LowestFree DEF CanOpen, Entries
  <2>2. Cached(c, path) = Put(c, path, fd) /\ table' = [table EXCEPT ![fd] = e]
    BY <1>2 DEF Cached, Open
  <2>3. e.path = path /\ c \in Caches /\ Sound(table, c)
        /\ table \in [Fds -> {Nil} \cup Entries]
    BY DEF Good
  <2> HIDE DEF fd, e
  <2>4. /\ Good(table', c, os)
        /\ \A q \in DOMAIN os : \A p \in DOMAIN os[q].fds : os[q].fds[p] # fd
    BY <2>1, <2>2, OpenKeeps
  <2>5. Sound(table', Put(c, path, fd))
    BY <1>2, <2>1, <2>2, <2>3, OpenExtends
  <2>6. Put(c, path, fd) \in Caches
    BY <1>2, <2>1, <2>3, CacheWith
  <2>7. /\ DOMAIN Put(c, path, fd) = DOMAIN c \cup {path} /\ Put(c, path, fd)[path] = fd
        /\ \A p \in DOMAIN c : Put(c, path, fd)[p] = c[p]
    BY <1>2 DEF Put
  <2>8. \A q \in DOMAIN os : Apart(Put(c, path, fd), os[q].fds)
    BY <2>4, <2>7 DEF Apart, Good
  <2>9. QED
    BY <2>2, <2>4, <2>5, <2>6, <2>8 DEF Good
<1>3. QED
  BY <1>1, <1>2

-----------------------------------------------------------------------------
LEMMA InitIInv == Init => IInv
<1> SUFFICES ASSUME Init PROVE IInv
  OBVIOUS
<1>1. EnvCache = <<>>
  BY DEF Init, EnvCache
<1>2. table \in [Fds -> {Nil} \cup Entries]
  BY DEF Init
<1>3. DOMAIN objs = {} /\ objs \in [DOMAIN objs -> IndexObjects]
  BY EmptyCache DEF Init
<1>4. Good(table, EnvCache, objs)
  BY <1>1, <1>2, <1>3, EmptyCache DEF Good
<1>5. QED
  BY <1>4, BoundsAssumption DEF Init, IInv

\* What Collect leaves is good, and what is referred to is left.
LEMMA CollectStep ==
  ASSUME NEW tab, NEW store, NEW os, Good(tab, store, os), Collect(os, tab)
  PROVE  /\ Good(table', store, objs')
         /\ DOMAIN objs' = DOMAIN os \cap Live
BY CollectKeeps DEF Collect

LEMMA GrowStep == IInv /\ Grow => IInv'
BY DEF IInv, Grow, handle, EnvCache

LEMMA RebuildStep == IInv /\ Rebuild => IInv'
<1> SUFFICES ASSUME IInv, Rebuild PROVE IInv'
  OBVIOUS
<1> DEFINE os == Put(objs, NewObject, [gen |-> gen, fds |-> <<>>])
<1>1. NewObject \in Objects \ DOMAIN objs
  BY NewObjectFree DEF Rebuild
<1>2. Good(table, EnvCache, os) /\ DOMAIN os = DOMAIN objs \cup {NewObject}
  BY <1>1, NewIndexKeeps
<1>3. Collect(os, table)
  BY DEF Rebuild
<1> HIDE DEF os
<1>4. Good(table', EnvCache, objs') /\ DOMAIN objs' = DOMAIN os \cap Live
  BY <1>2, <1>3, CollectStep
<1>5. EnvCache' = EnvCache
  BY DEF Rebuild, EnvCache
<1>6. index' \in DOMAIN objs'
  BY <1>2, <1>4 DEF Rebuild, Live
<1>7. \A i \in DOMAIN datasets' : datasets'[i].obj \in DOMAIN objs'
  BY <1>2, <1>4 DEF Rebuild, Live, IInv
<1>8. QED
  BY <1>4, <1>5, <1>6, <1>7 DEF IInv, Rebuild

LEMMA ReadEventStep == IInv /\ ReadEvent => IInv'
<1> SUFFICES ASSUME IInv, ReadEvent PROVE IInv'
  OBVIOUS
<1> DEFINE cache == BuiltObjs[Built].fds
<1>1. Good(table, EnvCache, BuiltObjs) /\ Built \in DOMAIN BuiltObjs
      /\ DOMAIN objs \subseteq DOMAIN BuiltObjs
  BY BuiltKeeps DEF ReadEvent
<1>2. /\ CanOpen(cache, DataPath) /\ Open(cache, DataPath)
      /\ objs' = [BuiltObjs EXCEPT ![Built].fds = Cached(cache, DataPath)]
  BY DEF ReadEvent
<1>3. DataPath \in Paths /\ pid \in 1 .. MaxPid
  BY DEF Paths, IInv
<1>4. Good(table', EnvCache, objs')
  BY <1>1, <1>2, <1>3, ReadKeeps
<1>5. DOMAIN objs' = DOMAIN BuiltObjs
  BY <1>2
<1>6. EnvCache' = EnvCache
  BY DEF ReadEvent, EnvCache
<1>7. QED
  BY <1>1, <1>4, <1>5, <1>6 DEF IInv, ReadEvent

LEMMA ReadEnvStep == IInv /\ ReadEnv => IInv'
<1> SUFFICES ASSUME IInv, ReadEnv PROVE IInv'
  OBVIOUS
<1> DEFINE store == IF env = Nil THEN [gen |-> BuiltGen, fds |-> <<>>] ELSE env
<1>1. store.fds = EnvCache
  BY DEF EnvCache
<1>2. /\ CanOpen(EnvCache, EnvPath) /\ Open(EnvCache, EnvPath)
      /\ env' = [store EXCEPT !.fds = Cached(EnvCache, EnvPath)]
  BY <1>1 DEF ReadEnv
<1>3. /\ Good(table, EnvCache, objs') /\ DOMAIN objs \subseteq DOMAIN objs'
      /\ index' = Nil \/ index' \in DOMAIN objs'
      /\ store.gen \in Nat /\ store = [gen |-> store.gen, fds |-> EnvCache]
  <2>1. CASE env = Nil
    <3>1. Good(table, EnvCache, BuiltObjs) /\ Built \in DOMAIN BuiltObjs
          /\ DOMAIN objs \subseteq DOMAIN BuiltObjs
      BY <2>1, BuiltKeeps DEF ReadEnv
    <3>2. BuiltGen \in Nat
      BY <3>1 DEF BuiltGen, Good, IndexObjects
    <3>3. objs' = BuiltObjs /\ index' = Built
      BY <2>1 DEF ReadEnv
    <3>4. QED
      BY <1>1, <2>1, <3>1, <3>2, <3>3
  <2>2. CASE env # Nil
    <3>1. objs' = objs /\ index' = index
      BY <2>2 DEF ReadEnv
    <3>2. env \in [gen : Nat, fds : Caches]
      BY <2>2 DEF IInv
    <3>3. QED
      BY <1>1, <2>2, <3>1, <3>2 DEF IInv
  <2>3. QED
    BY <2>1, <2>2
<1> HIDE DEF store
<1>4. EnvPath \in Paths /\ pid \in 1 .. MaxPid
  BY DEF Paths, IInv
<1>5. Good(table', Cached(EnvCache, EnvPath), objs')
  BY <1>2, <1>3, <1>4, StoreReadKeeps
<1>6. env' = [gen |-> store.gen, fds |-> Cached(EnvCache, EnvPath)]
  BY <1>2, <1>3
<1>7. env' \in [gen : Nat, fds : Caches]
  BY <1>3, <1>5, <1>6 DEF Good
<1>8. Good(table', EnvCache', objs')
  <2>1. CASE env' = Nil
    BY <1>5, <2>1, ForgetStore DEF EnvCache
  <2>2. CASE env' # Nil
    BY <1>5, <1>6, <2>2 DEF EnvCache
  <2>3. QED
    BY <2>1, <2>2
<1>9. QED
  BY <1>3, <1>7, <1>8 DEF IInv, ReadEnv

LEMMA SegConfigStepsStep == IInv /\ SegConfigSteps => IInv'
<1> SUFFICES ASSUME IInv, SegConfigSteps PROVE IInv'
  OBVIOUS
<1>1. Good(table, EnvCache, BuiltObjs) /\ Built \in DOMAIN BuiltObjs
      /\ DOMAIN objs \subseteq DOMAIN BuiltObjs
  BY BuiltKeeps DEF SegConfigSteps
<1>2. EnvCache' = EnvCache
  BY DEF SegConfigSteps, EnvCache
<1>3. QED
  BY <1>1, <1>2 DEF IInv, SegConfigSteps

LEMMA CloseStep == IInv /\ Close => IInv'
<1> SUFFICES ASSUME IInv, Close PROVE IInv'
  OBVIOUS
<1> DEFINE fds == Range(EnvCache) \cup Range(objs[index].fds)
<1>1. index \in DOMAIN objs /\ Good(table, EnvCache, objs)
  BY DEF IInv, Close
<1>2. Good(table, <<>>, IndexCleared)
  BY <1>1, ForgetStore, ClearKeeps DEF IndexCleared
<1>3. DOMAIN IndexCleared = DOMAIN objs
  BY DEF IndexCleared
<1>4. \A o \in DOMAIN IndexCleared : \A p \in DOMAIN IndexCleared[o].fds :
          IndexCleared[o].fds[p] \notin fds
  <2> SUFFICES ASSUME NEW o \in DOMAIN objs, NEW p \in DOMAIN IndexCleared[o].fds
               PROVE  IndexCleared[o].fds[p] \notin fds
    BY <1>3
  <2>1. objs \in [DOMAIN objs -> IndexObjects]
    BY <1>1 DEF Good
  <2>2. o # index
    <3>1. IndexCleared[index].fds = <<>>
      BY <1>1, <2>1 DEF IndexCleared, IndexObjects
    <3>2. QED
      BY <3>1, EmptyCache
  <2>3. IndexCleared[o] = objs[o]
    BY <2>1, <2>2 DEF IndexCleared
  <2>4. Apart(EnvCache, objs[o].fds) /\ Apart(objs[o].fds, objs[index].fds)
    BY <1>1, <2>2 DEF Good
  <2>5. QED
    BY <2>3, <2>4 DEF Apart, Range
<1>5. \A p \in DOMAIN <<>> : <<>>[p] \notin fds
  BY EmptyCache
<1> HIDE DEF fds
<1>6. Good(Shut(table, fds), <<>>, IndexCleared)
  BY <1>2, <1>4, <1>5, ShutKeeps
<1>7. Collect(IndexCleared, Shut(table, fds))
  BY DEF Close, fds
<1>8. Good(table', <<>>, objs') /\ DOMAIN objs' = DOMAIN IndexCleared \cap Live
  BY <1>6, <1>7, CollectStep
<1>9. EnvCache' = <<>>
  BY DEF Close, EnvCache
<1>10. \A i \in DOMAIN datasets' : datasets'[i].obj \in DOMAIN objs'
  BY <1>3, <1>8 DEF Close, Live, IInv
<1>11. QED
  BY <1>8, <1>9, <1>10 DEF IInv, Close

LEMMA MakeDatasetStep == IInv /\ MakeDataset => IInv'
<1> SUFFICES ASSUME IInv, MakeDataset PROVE IInv'
  OBVIOUS
<1> DEFINE d == [obj |-> Built, pid |-> pid, clean |-> Own(BuiltObjs[Built].fds)]
           Datasets == [obj : Objects, pid : 1 .. MaxPid, clean : BOOLEAN]
<1>1. Good(table, EnvCache, BuiltObjs) /\ Built \in DOMAIN BuiltObjs
      /\ DOMAIN objs \subseteq DOMAIN BuiltObjs
  BY BuiltKeeps DEF MakeDataset
<1>2. EnvCache' = EnvCache
  BY DEF MakeDataset, EnvCache
<1>3. d.obj \in DOMAIN BuiltObjs /\ d \in Datasets
  <2>1. Own(BuiltObjs[Built].fds) \in BOOLEAN
    BY DEF Own
  <2>2. Built \in Objects /\ pid \in 1 .. MaxPid
    BY <1>1 DEF Good, IInv
  <2>3. QED
    BY <1>1, <2>1, <2>2
<1>4. datasets' = Append(datasets, d)
  BY DEF MakeDataset
<1> HIDE DEF d
<1>5. datasets' \in Seq(Datasets)
  BY <1>3, <1>4 DEF IInv
<1>6. \A i \in DOMAIN datasets' : datasets'[i].obj \in DOMAIN BuiltObjs
  <2>1. datasets \in Seq(Datasets)
    BY DEF IInv
  <2>2. \A i \in DOMAIN datasets' : datasets'[i] = d \/ (i \in DOMAIN datasets /\ datasets'[i] = datasets[i])
    BY <1>3, <1>4, <2>1
  <2>3. QED
    BY <1>1, <1>3, <2>2 DEF IInv
<1>7. QED
  BY <1>1, <1>2, <1>5, <1>6 DEF IInv, MakeDataset

LEMMA GetItemStep ==
  ASSUME IInv, NEW i \in DOMAIN datasets, GetItem(i)
  PROVE  IInv'
<1> DEFINE o == datasets[i].obj
           cache == ForkSafe(datasets[i])
           Datasets == [obj : Objects, pid : 1 .. MaxPid, clean : BOOLEAN]
<1>1. o \in DOMAIN objs /\ Good(table, EnvCache, objs) /\ pid \in 1 .. MaxPid
      /\ datasets \in Seq(Datasets) /\ DataPath \in Paths
  BY DEF IInv, Paths
<1>2. cache \in {objs[o].fds, <<>>}
  BY DEF ForkSafe
<1>3. /\ CanOpen(cache, DataPath) /\ Open(cache, DataPath)
      /\ objs' = [objs EXCEPT ![o].fds = Cached(cache, DataPath)]
      /\ datasets' = [datasets EXCEPT ![i].pid = pid]
  BY DEF GetItem
<1> HIDE DEF o, cache
<1>4. Good(table', EnvCache, objs') /\ DOMAIN objs' = DOMAIN objs
  BY <1>1, <1>2, <1>3, ReadKeeps
<1>5. datasets' \in Seq(Datasets) /\ DOMAIN datasets' = DOMAIN datasets
  <2> HIDE DEF Datasets
  <2>1. datasets[i] \in Datasets
    BY <1>1
  <2>2. [datasets[i] EXCEPT !.pid = pid] \in Datasets
    BY <1>1, <2>1 DEF Datasets
  <2>3. datasets' = [datasets EXCEPT ![i] = [datasets[i] EXCEPT !.pid = pid]]
    BY <1>3
  <2>4. QED
    BY <1>1, <2>2, <2>3
<1>6. \A j \in DOMAIN datasets : datasets'[j].obj = datasets[j].obj
  BY <1>1, <1>3
<1>7. EnvCache' = EnvCache
  BY DEF GetItem, handle, EnvCache
<1>8. QED
  BY <1>4, <1>5, <1>6, <1>7 DEF IInv, GetItem, handle

LEMMA DropDatasetStep ==
  ASSUME IInv, NEW i \in DOMAIN datasets, DropDataset(i)
  PROVE  IInv'
<1> DEFINE Datasets == [obj : Objects, pid : 1 .. MaxPid, clean : BOOLEAN]
<1>1. datasets \in Seq(Datasets) /\ Good(table, EnvCache, objs)
      /\ datasets' = SubSeq(datasets, 1, i - 1) \o SubSeq(datasets, i + 1, Len(datasets))
  BY DEF IInv, DropDataset
<1>2. Good(table', EnvCache, objs') /\ DOMAIN objs' = DOMAIN objs \cap Live
  BY <1>1, CollectStep DEF DropDataset
<1> HIDE DEF Datasets
<1>3. datasets' \in Seq(Datasets) /\ \A j \in DOMAIN datasets' : \E k \in DOMAIN datasets : datasets'[j] = datasets[k]
  BY <1>1, WithoutOne
<1> USE DEF Datasets
<1>4. \A j \in DOMAIN datasets' : datasets'[j].obj \in DOMAIN objs'
  BY <1>2, <1>3 DEF Live, IInv
<1>5. index' = Nil \/ index' \in DOMAIN objs'
  BY <1>2 DEF DropDataset, Live, IInv
<1>6. EnvCache' = EnvCache
  BY DEF DropDataset, EnvCache
<1>7. QED
  BY <1>2, <1>3, <1>4, <1>5, <1>6 DEF IInv, DropDataset

LEMMA ForkStep == IInv /\ Fork => IInv'
<1> SUFFICES ASSUME IInv, Fork PROVE IInv'
  OBVIOUS
<1>1. pid' \in 1 .. MaxPid
  BY BoundsAssumption DEF IInv, Fork
<1>2. EnvCache' = EnvCache
  BY DEF Fork, handle, EnvCache
<1>3. QED
  BY <1>1, <1>2 DEF IInv, Fork, handle

\* One index, fresh out of a pickle, in an empty table.
LEMMA Arrived ==
  ASSUME NEW o \in Objects, NEW obj \in IndexObjects
  PROVE  /\ Good([fd \in Fds |-> Nil], <<>>, Put(<<>>, o, PersistState(obj)))
         /\ Good([fd \in Fds |-> Nil], <<>>, <<>>)
         /\ DOMAIN Put(<<>>, o, PersistState(obj)) = {o}
<1> DEFINE os == Put(<<>>, o, PersistState(obj))
<1>1. PersistState(obj) \in IndexObjects /\ PersistState(obj).fds = <<>>
  BY EmptyCache DEF PersistState, IndexObjects
<1>2. DOMAIN os = {o} /\ os[o] = PersistState(obj)
  BY EmptyCache DEF Put
<1>3. os \in [DOMAIN os -> IndexObjects]
  BY <1>1, EmptyCache DEF Put
<1> HIDE DEF os
<1>4. Good([fd \in Fds |-> Nil], <<>>, os)
  BY <1>1, <1>2, <1>3, EmptyCache DEF Good
<1>5. Good([fd \in Fds |-> Nil], <<>>, <<>>)
  BY EmptyCache DEF Good
<1>6. QED
  BY <1>2, <1>4, <1>5 DEF os

LEMMA ShipDatasetStep ==
  ASSUME IInv, NEW i \in DOMAIN datasets, ShipDataset(i)
  PROVE  IInv'
<1> DEFINE o == datasets[i].obj
           Datasets == [obj : Objects, pid : 1 .. MaxPid, clean : BOOLEAN]
<1>1. o \in DOMAIN objs /\ o \in Objects /\ objs[o] \in IndexObjects
  BY DEF IInv, Good
<1>2. objs' = Put(<<>>, o, PersistState(objs[o])) /\ table' = [fd \in Fds |-> Nil]
  BY DEF ShipDataset, Spawn
<1> HIDE DEF o
<1>3. Good(table', <<>>, objs') /\ DOMAIN objs' = {o}
  BY <1>1, <1>2, Arrived
<1>4. EnvCache' = <<>>
  BY DEF ShipDataset, EnvCache
<1>5. datasets' = <<datasets[i]>> /\ datasets[i] \in Datasets
  <2> HIDE DEF Datasets
  <2>1. datasets \in Seq(Datasets)
    BY DEF IInv, Datasets
  <2>2. QED
    BY <2>1 DEF ShipDataset
<1>6. datasets' \in Seq(Datasets) /\ \A j \in DOMAIN datasets' : datasets'[j].obj = o
  BY <1>5 DEF o
<1>7. pid' \in 1 .. MaxPid /\ gen' \in Nat
  BY BoundsAssumption DEF IInv, ShipDataset, Spawn
<1>8. QED
  BY <1>3, <1>4, <1>6, <1>7 DEF IInv, ShipDataset

LEMMA ShipRunStep ==
  ASSUME ~ShipsReadEnv, IInv, ShipRun
  PROVE  IInv'
<1>1. EnvCache' = <<>>
  BY DEF ShipRun, handle, EnvCache
<1>2. table' = [fd \in Fds |-> Nil] /\ index' = index
  BY DEF ShipRun, Spawn, handle
<1>3. Good(table', <<>>, objs') /\ (index' = Nil \/ index' \in DOMAIN objs')
  <2>1. CASE index = Nil
    <3>1. objs' = <<>>
      BY <2>1 DEF ShipRun
    <3>2. QED
      BY <1>2, <2>1, <3>1, EmptyCache DEF Good
  <2>2. CASE index # Nil
    <3>1. index \in Objects /\ objs[index] \in IndexObjects
      BY <2>2 DEF IInv, Good
    <3>2. objs' = Put(<<>>, index, PersistState(objs[index]))
      BY <2>2 DEF ShipRun
    <3>3. QED
      BY <1>2, <3>1, <3>2, Arrived
  <2>3. QED
    BY <2>1, <2>2
<1>4. pid' \in 1 .. MaxPid /\ gen' \in Nat
  BY BoundsAssumption DEF IInv, ShipRun, Spawn, handle
<1>5. datasets' = <<>> /\ env' = env
  BY DEF ShipRun, handle
<1>6. datasets' \in Seq([obj : Objects, pid : 1 .. MaxPid, clean : BOOLEAN])
  BY <1>5
<1>7. \A i \in DOMAIN datasets' : datasets'[i].obj \in DOMAIN objs'
  BY <1>5
<1>8. QED
  BY <1>1, <1>3, <1>4, <1>5, <1>6, <1>7 DEF IInv

-----------------------------------------------------------------------------
\* Every step keeps the caches good: opening takes a number nobody keeps,
\* closing takes the numbers of one cache and with them the cache, and only
\* empty caches reach a worker with a table of its own.
THEOREM Inductive ==
  ASSUME ~ShipsReadEnv
  PROVE  Spec => []IInv
<1>1. Init => IInv
  BY InitIInv
<1>2. IInv /\ [Next]_vars => IInv'
  <2> SUFFICES ASSUME IInv, [Next]_vars PROVE IInv'
    OBVIOUS
  <2>1. CASE Grow
    BY <2>1, GrowStep
  <2>2. CASE Rebuild
    BY <2>2, RebuildStep
  <2>3. CASE ReadEvent
    BY <2>3, ReadEventStep
  <2>4. CASE ReadEnv
    BY <2>4, ReadEnvStep
  <2>5. CASE SegConfigSteps
    BY <2>5, SegConfigStepsStep
  <2>6. CASE Close
    BY <2>6, CloseStep
  <2>7. CASE MakeDataset
    BY <2>7, MakeDatasetStep
  <2>8. CASE \E i \in DOMAIN datasets : GetItem(i) \/ DropDataset(i) \/ ShipDataset(i)
    BY <2>8, GetItemStep, DropDatasetStep, ShipDatasetStep
  <2>9. CASE Fork
    BY <2>9, ForkStep
  <2>10. CASE ShipRun
    BY <2>10, ShipRunStep
  <2>11. CASE UNCHANGED vars
    BY <2>11 DEF vars, handle, IInv, EnvCache
  <2>12. QED
    BY <2>1, <2>2, <2>3, <2>4, <2>5, <2>6, <2>7, <2>8, <2>9, <2>10, <2>11 DEF Next
<1>3. QED
  BY <1>1, <1>2, PTL DEF Spec

\* In every process and after any history of reads, closes, forks and
\* pickles, a number kept by an index or an environment store names the file
\* it is kept for, if no Run is pickled after its store was read.
THEOREM DescriptorsAlwaysNameTheirFile ==
  ASSUME ~ShipsReadEnv
  PROVE  Spec => []DescriptorsNameTheirFile
<1>1. IInv => DescriptorsNameTheirFile
  BY DEF IInv, Good, Sound, DescriptorsNameTheirFile, EnvDescriptorsNameTheirFile, Names
<1>2. QED
  BY <1>1, Inductive, PTL

-----------------------------------------------------------------------------
\* The generation of the index a read begins with.
LEMMA BuiltGenIs ==
  ASSUME IInv, CanBuild
  PROVE  /\ Built # Nil
         /\ BuiltObjs[Built].gen = BuiltGen
         /\ index # Nil => Built = index /\ BuiltGen = objs[index].gen
         /\ \A o \in DOMAIN objs : BuiltObjs[o] = objs[o]
<1>1. CASE index = Nil
  <2>1. NewObject \notin DOMAIN objs
    BY <1>1, NewObjectFree DEF CanBuild
  <2>2. \A o \in DOMAIN objs : BuiltObjs[o] = objs[o]
    BY <1>1, <2>1 DEF BuiltObjs, Put
  <2>3. Built # Nil
    BY <1>1, NewObjectFree, NilAssumption DEF CanBuild, Built
  <2>4. QED
    BY <1>1, <2>2, <2>3 DEF BuiltGen
<1>2. CASE index # Nil
  BY <1>2 DEF BuiltGen, BuiltObjs, Built
<1>3. QED
  BY <1>1, <1>2

-----------------------------------------------------------------------------
\* The numbers of a cache were opened by p.
OpenedBy(tab, p, c) == \A path \in DOMAIN c : tab[c[path]] # Nil /\ tab[c[path]].opener = p

\* What OwnDescriptors needs to be inductive: no dataset is of a process that
\* has not begun, so a fork leaves every dataset to be guarded.
Begun == \A i \in DOMAIN datasets : datasets[i].pid <= pid

LEMMA OwnIsOpenedBy ==
  /\ \A c : Own(c) <=> OpenedBy(table, pid, c)
  /\ \A c : Own(c)' <=> OpenedBy(table', pid', c)
BY DEF Own, OpenedBy, Range

\* An opened number is the process's own; the others are as they were.
LEMMA OpenOwn ==
  ASSUME NEW store, NEW os, Good(table, store, os), NEW path \in Paths, NEW cache \in Caches,
         Sound(table, cache), CanOpen(cache, path), Open(cache, path), pid \in 1 .. MaxPid
  PROVE  /\ \A c \in Caches : Sound(table, c) /\ OpenedBy(table, pid, c) => OpenedBy(table', pid, c)
         /\ OpenedBy(table, pid, cache) => OpenedBy(table', pid, Cached(cache, path))
<1> DEFINE fd == Min(FreeFds(table))
           e == [path |-> path, opener |-> pid]
<1>1. CASE path \in DOMAIN cache
  BY <1>1 DEF Cached, Open
<1>2. CASE path \notin DOMAIN cache
  <2>1. fd \in Fds /\ table[fd] = Nil /\ table \in [Fds -> {Nil} \cup Entries]
    BY <1>2, LowestFree DEF CanOpen, Good
  <2>2. Cached(cache, path) = Put(cache, path, fd) /\ table' = [table EXCEPT ![fd] = e]
    BY <1>2 DEF Cached, Open
  <2>3. e # Nil /\ e.opener = pid
    BY NilAssumption DEF Paths
  <2> HIDE DEF fd, e
  <2>4. \A c \in Caches : Sound(table, c) => \A p \in DOMAIN c : table'[c[p]] = table[c[p]]
    <3> SUFFICES ASSUME NEW c \in Caches, Sound(table, c), NEW p \in DOMAIN c
                 PROVE  table'[c[p]] = table[c[p]]
      OBVIOUS
    <3>1. c[p] \in Fds /\ c[p] # fd
      BY <2>1 DEF Caches, Sound
    <3>2. QED
      BY <2>1, <2>2, <3>1
  <2>5. table'[fd] = e
    BY <2>1, <2>2
  <2>6. /\ DOMAIN Put(cache, path, fd) = DOMAIN cache \cup {path} /\ Put(cache, path, fd)[path] = fd
        /\ \A p \in DOMAIN cache : Put(cache, path, fd)[p] = cache[p]
    BY <1>2 DEF Put
  <2>7. OpenedBy(table, pid, cache) => OpenedBy(table', pid, Put(cache, path, fd))
    BY <2>3, <2>4, <2>5, <2>6 DEF OpenedBy
  <2>8. QED
    BY <2>2, <2>4, <2>7 DEF OpenedBy
<1>3. QED
  BY <1>1, <1>2

\* Closing other numbers changes nothing.
LEMMA ShutOwn ==
  ASSUME NEW tab, NEW fds, NEW c \in Caches, NEW p,
         OpenedBy(tab, p, c), \A path \in DOMAIN c : c[path] \notin fds
  PROVE  OpenedBy(Shut(tab, fds), p, c)
<1>1. \A path \in DOMAIN c : c[path] \in Fds
  BY DEF Caches
<1>2. QED
  BY <1>1 DEF OpenedBy, Shut

\* The collector leaves what is referred to, and closes none of its numbers.
LEMMA CollectOwn ==
  ASSUME NEW tab, NEW store, NEW os, Good(tab, store, os), Collect(os, tab), NEW p,
         NEW o \in DOMAIN os, o \in Live, OpenedBy(tab, p, os[o].fds)
  PROVE  objs'[o] = os[o] /\ OpenedBy(table', p, os[o].fds)
<1> DEFINE fds == UNION {Range(os[q].fds) : q \in DOMAIN os \ Live}
<1>1. table' = Shut(tab, fds) /\ objs'[o] = os[o]
  BY DEF Collect
<1>2. \A fd \in fds : \E q \in DOMAIN os \ Live : \E r \in DOMAIN os[q].fds : fd = os[q].fds[r]
  BY DEF Range
<1>3. \A q \in DOMAIN os \ Live : Apart(os[o].fds, os[q].fds)
  BY DEF Good
<1> HIDE DEF fds
<1>4. \A path \in DOMAIN os[o].fds : os[o].fds[path] \notin fds
  BY <1>2, <1>3 DEF Apart
<1>5. os[o].fds \in Caches
  BY DEF Good, IndexObjects
<1>6. QED
  BY <1>1, <1>4, <1>5, ShutOwn

\* A dataset reads in a process only after the guard has emptied what the
\* process inherited, and from then on every number its index is given there
\* was opened there.
THEOREM OwnDescriptorsAlways ==
  ASSUME ~ShipsReadEnv
  PROVE  Spec => []OwnDescriptors
<1> DEFINE OInv == Begun /\ OwnDescriptors
           Opened(i) == OpenedBy(table, pid, objs[datasets[i].obj].fds)
<1>1. Init => OInv
  BY DEF Init, Begun, OwnDescriptors
<1>2. IInv /\ OInv /\ [Next]_vars => OInv'
  <2> SUFFICES ASSUME IInv, OInv, [Next]_vars PROVE OInv'
    OBVIOUS
  <2>1. /\ Good(table, EnvCache, objs) /\ pid \in 1 .. MaxPid
        /\ DataPath \in Paths /\ EnvPath \in Paths
        /\ \A o \in DOMAIN objs : objs[o].fds \in Caches /\ Sound(table, objs[o].fds)
    BY DEF IInv, Good, IndexObjects, Paths
  <2>2. \A i \in DOMAIN datasets :
            /\ datasets[i].obj \in DOMAIN objs /\ datasets[i].pid <= pid
            /\ datasets[i].pid = pid /\ datasets[i].clean => Opened(i)
    BY OwnIsOpenedBy DEF IInv, Begun, OwnDescriptors
  <2>3. ASSUME pid' = pid, datasets' = datasets,
               \A i \in DOMAIN datasets :
                   Opened(i) => OpenedBy(table', pid, objs'[datasets[i].obj].fds)
        PROVE  OInv'
    BY <2>2, <2>3, OwnIsOpenedBy DEF Begun, OwnDescriptors
  <2>4. CASE Grow
    BY <2>3, <2>4 DEF Grow, handle
  <2>5. CASE Rebuild
    <3> DEFINE os == Put(objs, NewObject, [gen |-> gen, fds |-> <<>>])
    <3>1. NewObject \in Objects \ DOMAIN objs
      BY <2>5, NewObjectFree DEF Rebuild
    <3>2. IInv
      OBVIOUS
    <3>3. Good(table, EnvCache, os) /\ DOMAIN os = DOMAIN objs \cup {NewObject}
      BY <3>1, <3>2, NewIndexKeeps
    <3>4. \A o \in DOMAIN objs : os[o] = objs[o]
      BY <3>1 DEF Put
    <3>5. Collect(os, table) /\ pid' = pid /\ datasets' = datasets
      BY <2>5 DEF Rebuild
    <3> HIDE DEF os
    <3>6. \A i \in DOMAIN datasets : Opened(i) => OpenedBy(table', pid, objs'[datasets[i].obj].fds)
      <4> SUFFICES ASSUME NEW i \in DOMAIN datasets, Opened(i)
                   PROVE  OpenedBy(table', pid, objs'[datasets[i].obj].fds)
        OBVIOUS
      <4>1. datasets[i].obj \in DOMAIN os /\ datasets[i].obj \in Live
        BY <2>2, <3>3, <3>5 DEF Live
      <4>2. QED
        BY <2>2, <3>3, <3>4, <3>5, <4>1, CollectOwn
    <3>7. QED
      BY <2>3, <3>5, <3>6
  <2>6. CASE ReadEvent
    <3> DEFINE cache == BuiltObjs[Built].fds
    <3>1. /\ CanBuild /\ CanOpen(cache, DataPath) /\ Open(cache, DataPath)
          /\ objs' = [BuiltObjs EXCEPT ![Built].fds = Cached(cache, DataPath)]
          /\ pid' = pid /\ datasets' = datasets
      BY <2>6 DEF ReadEvent
    <3>2. Good(table, EnvCache, BuiltObjs) /\ Built \in DOMAIN BuiltObjs
          /\ DOMAIN objs \subseteq DOMAIN BuiltObjs /\ (\A o \in DOMAIN objs : BuiltObjs[o] = objs[o])
      BY <3>1, BuiltKeeps, BuiltGenIs
    <3>3. cache \in Caches /\ Sound(table, cache)
      BY <3>2 DEF Good, IndexObjects
    <3>4. \A o \in DOMAIN objs :
              objs'[o].fds = IF o = Built THEN Cached(cache, DataPath) ELSE objs[o].fds
      BY <3>1, <3>2 DEF Good, IndexObjects
    <3>5. \A o \in DOMAIN objs : o = Built => cache = objs[o].fds
      BY <3>2
    <3> HIDE DEF cache
    <3>6. /\ \A c \in Caches : Sound(table, c) /\ OpenedBy(table, pid, c) => OpenedBy(table', pid, c)
          /\ OpenedBy(table, pid, cache) => OpenedBy(table', pid, Cached(cache, DataPath))
      BY <2>1, <3>1, <3>2, <3>3, OpenOwn
    <3>7. QED
      BY <2>1, <2>2, <2>3, <3>1, <3>4, <3>5, <3>6
  <2>7. CASE ReadEnv
    <3>1. CanOpen(EnvCache, EnvPath) /\ Open(EnvCache, EnvPath) /\ pid' = pid /\ datasets' = datasets
      BY <2>7 DEF ReadEnv, EnvCache
    <3>2. \A o \in DOMAIN objs : objs'[o] = objs[o]
      BY <2>7, BuiltGenIs DEF ReadEnv
    <3>3. EnvCache \in Caches /\ Sound(table, EnvCache)
      BY <2>1 DEF Good
    <3>4. \A c \in Caches : Sound(table, c) /\ OpenedBy(table, pid, c) => OpenedBy(table', pid, c)
      BY <2>1, <3>1, <3>3, OpenOwn
    <3>5. QED
      BY <2>1, <2>2, <2>3, <3>1, <3>2, <3>4
  <2>8. CASE SegConfigSteps
    <3>1. CanBuild /\ table' = table /\ pid' = pid /\ datasets' = datasets /\ objs' = BuiltObjs
      BY <2>8 DEF SegConfigSteps
    <3>2. \A o \in DOMAIN objs : objs'[o] = objs[o]
      BY <3>1, BuiltGenIs
    <3>3. QED
      BY <2>2, <2>3, <3>1, <3>2
  <2>9. CASE Close
    <3> DEFINE fds == Range(EnvCache) \cup Range(objs[index].fds)
    <3>1. index \in DOMAIN objs /\ pid' = pid /\ datasets' = datasets
          /\ Collect(IndexCleared, Shut(table, fds))
      BY <2>9 DEF IInv, Close
    <3>2. objs \in [DOMAIN objs -> IndexObjects]
      BY <2>1 DEF Good
    <3>3. /\ DOMAIN IndexCleared = DOMAIN objs /\ IndexCleared[index].fds = <<>>
          /\ \A o \in DOMAIN objs \ {index} : IndexCleared[o] = objs[o]
      BY <3>1, <3>2 DEF IndexCleared, IndexObjects
    <3>4. \A o \in DOMAIN objs \ {index} :
              Apart(EnvCache, objs[o].fds) /\ Apart(objs[o].fds, objs[index].fds)
      BY <2>1, <3>1 DEF Good
    <3>5. \A o \in DOMAIN objs : \A p \in DOMAIN IndexCleared[o].fds : IndexCleared[o].fds[p] \notin fds
      BY <3>3, <3>4, EmptyCache DEF Apart, Range
    <3> HIDE DEF fds
    <3>6. \A o \in DOMAIN objs :
              OpenedBy(table, pid, objs[o].fds) => OpenedBy(Shut(table, fds), pid, IndexCleared[o].fds)
      <4> SUFFICES ASSUME NEW o \in DOMAIN objs, OpenedBy(table, pid, objs[o].fds)
                   PROVE  OpenedBy(Shut(table, fds), pid, IndexCleared[o].fds)
        OBVIOUS
      <4>1. CASE o = index
        BY <3>3, <4>1, EmptyCache DEF OpenedBy
      <4>2. CASE o # index
        <5>1. IndexCleared[o].fds \in Caches /\ OpenedBy(table, pid, IndexCleared[o].fds)
          BY <2>1, <3>3, <4>2
        <5>2. QED
          BY <3>5, <5>1, ShutOwn
      <4>3. QED
        BY <4>1, <4>2
    <3>7. Good(Shut(table, fds), <<>>, IndexCleared)
      <4>1. Good(table, <<>>, IndexCleared)
        BY <2>1, <3>1, ForgetStore, ClearKeeps DEF IndexCleared
      <4>2. \A p \in DOMAIN <<>> : <<>>[p] \notin fds
        BY EmptyCache
      <4>3. QED
        BY <3>3, <3>5, <4>1, <4>2, ShutKeeps
    <3>8. \A i \in DOMAIN datasets : Opened(i) => OpenedBy(table', pid, objs'[datasets[i].obj].fds)
      <4> SUFFICES ASSUME NEW i \in DOMAIN datasets, Opened(i)
                   PROVE  OpenedBy(table', pid, objs'[datasets[i].obj].fds)
        OBVIOUS
      <4>1. datasets[i].obj \in DOMAIN IndexCleared /\ datasets[i].obj \in Live
        BY <2>2, <3>1, <3>3 DEF Live
      <4>2. OpenedBy(Shut(table, fds), pid, IndexCleared[datasets[i].obj].fds)
        BY <2>2, <3>6
      <4>3. QED
        BY <3>1, <3>7, <4>1, <4>2, CollectOwn
    <3>9. QED
      BY <2>3, <3>1, <3>8
  <2>10. CASE MakeDataset
    <3> DEFINE d == [obj |-> Built, pid |-> pid, clean |-> Own(BuiltObjs[Built].fds)]
    <3>1. CanBuild /\ table' = table /\ pid' = pid /\ datasets' = Append(datasets, d) /\ objs' = BuiltObjs
      BY <2>10 DEF MakeDataset
    <3>2. \A o \in DOMAIN objs : objs'[o] = objs[o]
      BY <3>1, BuiltGenIs
    <3>3. d.obj = Built /\ d.pid = pid /\ (d.clean <=> OpenedBy(table, pid, objs'[Built].fds))
      BY <3>1, OwnIsOpenedBy
    <3> HIDE DEF d
    <3>4. \A i \in DOMAIN datasets' :
              datasets'[i] = d \/ (i \in DOMAIN datasets /\ datasets'[i] = datasets[i])
      <4> DEFINE Datasets == [obj : Objects, pid : 1 .. MaxPid, clean : BOOLEAN]
      <4>1. datasets \in Seq(Datasets)
        BY DEF IInv
      <4> HIDE DEF Datasets
      <4>2. QED
        BY <3>1, <4>1
    <3>5. \A i \in DOMAIN datasets' :
              /\ datasets'[i].pid <= pid
              /\ datasets'[i].pid = pid /\ datasets'[i].clean =>
                     OpenedBy(table', pid, objs'[datasets'[i].obj].fds)
      BY <2>1, <2>2, <3>1, <3>2, <3>3, <3>4
    <3>6. QED
      BY <3>1, <3>5, OwnIsOpenedBy DEF Begun, OwnDescriptors
  <2>11. ASSUME NEW i \in DOMAIN datasets, GetItem(i) PROVE OInv'
    <3> DEFINE o == datasets[i].obj
               cache == ForkSafe(datasets[i])
    <3>1. /\ CanOpen(cache, DataPath) /\ Open(cache, DataPath) /\ pid' = pid
          /\ objs' = [objs EXCEPT ![o].fds = Cached(cache, DataPath)]
          /\ datasets' = [datasets EXCEPT ![i].pid = pid]
      BY <2>11 DEF GetItem
    <3>2. o \in DOMAIN objs /\ (cache = objs[o].fds \/ cache = <<>>)
          /\ (datasets[i].pid # pid => cache = <<>>)
      BY <2>2 DEF ForkSafe
    <3> HIDE DEF o, cache
    <3>3. cache \in Caches /\ Sound(table, cache)
      BY <2>1, <3>2, EmptyCache
    <3>4. /\ \A c \in Caches : Sound(table, c) /\ OpenedBy(table, pid, c) => OpenedBy(table', pid, c)
          /\ OpenedBy(table, pid, cache) => OpenedBy(table', pid, Cached(cache, DataPath))
      BY <2>1, <3>1, <3>3, OpenOwn
    <3>5. \A q \in DOMAIN objs :
              objs'[q].fds = IF q = o THEN Cached(cache, DataPath) ELSE objs[q].fds
      BY <2>1, <3>1 DEF Good, IndexObjects
    <3>6. OpenedBy(table, pid, <<>>)
      BY EmptyCache DEF OpenedBy
    <3>7. \A q \in DOMAIN objs :
              OpenedBy(table, pid, objs[q].fds) => OpenedBy(table', pid, objs'[q].fds)
      BY <2>1, <3>2, <3>4, <3>5, <3>6
    <3>8. datasets[i].pid # pid => OpenedBy(table', pid, objs'[o].fds)
      BY <3>2, <3>4, <3>5, <3>6
    <3>9. DOMAIN datasets' = DOMAIN datasets
          /\ \A j \in DOMAIN datasets :
                 /\ datasets'[j].obj = datasets[j].obj /\ datasets'[j].clean = datasets[j].clean
                 /\ datasets'[j].pid = IF j = i THEN pid ELSE datasets[j].pid
      <4> DEFINE Datasets == [obj : Objects, pid : 1 .. MaxPid, clean : BOOLEAN]
      <4>1. datasets \in Seq(Datasets)
        BY DEF IInv
      <4> HIDE DEF Datasets
      <4>2. datasets[i] \in Datasets
        BY <4>1
      <4>3. datasets' = [datasets EXCEPT ![i] = [datasets[i] EXCEPT !.pid = pid]]
        BY <3>1
      <4>4. DOMAIN datasets' = DOMAIN datasets /\ datasets'[i] = [datasets[i] EXCEPT !.pid = pid]
            /\ \A j \in DOMAIN datasets \ {i} : datasets'[j] = datasets[j]
        BY <4>1, <4>3
      <4>5. QED
        BY <4>2, <4>4 DEF Datasets
    <3>10. \A j \in DOMAIN datasets' :
              /\ datasets'[j].pid <= pid
              /\ datasets'[j].pid = pid /\ datasets'[j].clean =>
                     OpenedBy(table', pid, objs'[datasets'[j].obj].fds)
      <4> SUFFICES ASSUME NEW j \in DOMAIN datasets
                   PROVE  /\ datasets'[j].pid <= pid
                          /\ datasets'[j].pid = pid /\ datasets'[j].clean =>
                                 OpenedBy(table', pid, objs'[datasets'[j].obj].fds)
        BY <3>9
      <4>1. CASE j = i
        BY <2>1, <2>2, <3>7, <3>8, <3>9, <4>1 DEF o
      <4>2. CASE j # i
        BY <2>2, <3>7, <3>9, <4>2
      <4>3. QED
        BY <4>1, <4>2
    <3>11. QED
      BY <3>1, <3>10, OwnIsOpenedBy DEF Begun, OwnDescriptors
  <2>12. ASSUME NEW i \in DOMAIN datasets, DropDataset(i) PROVE OInv'
    <3> DEFINE Datasets == [obj : Objects, pid : 1 .. MaxPid, clean : BOOLEAN]
    <3>1. /\ datasets' = SubSeq(datasets, 1, i - 1) \o SubSeq(datasets, i + 1, Len(datasets))
          /\ Collect(objs, table) /\ pid' = pid
      BY <2>12 DEF DropDataset
    <3>2. datasets \in Seq(Datasets)
      BY DEF IInv
    <3> HIDE DEF Datasets
    <3>3. \A j \in DOMAIN datasets' : \E k \in DOMAIN datasets : datasets'[j] = datasets[k]
      BY <3>1, <3>2, WithoutOne
    <3>4. \A j \in DOMAIN datasets' :
              /\ datasets'[j].pid <= pid
              /\ datasets'[j].pid = pid /\ datasets'[j].clean =>
                     OpenedBy(table', pid, objs'[datasets'[j].obj].fds)
      <4> SUFFICES ASSUME NEW j \in DOMAIN datasets'
                   PROVE  /\ datasets'[j].pid <= pid
                          /\ datasets'[j].pid = pid /\ datasets'[j].clean =>
                                 OpenedBy(table', pid, objs'[datasets'[j].obj].fds)
        OBVIOUS
      <4>1. PICK k \in DOMAIN datasets : datasets'[j] = datasets[k]
        BY <3>3
      <4>2. datasets[k].obj \in DOMAIN objs /\ datasets[k].obj \in Live
        BY <2>2, <4>1 DEF Live
      <4>3. Opened(k) => OpenedBy(table', pid, objs'[datasets[k].obj].fds)
        BY <2>1, <3>1, <4>2, CollectOwn
      <4>4. QED
        BY <2>2, <4>1, <4>3
    <3>5. QED
      BY <3>1, <3>4, OwnIsOpenedBy DEF Begun, OwnDescriptors
  <2>13. ASSUME pid' = pid + 1, \A j \in DOMAIN datasets' : datasets'[j].pid \in Nat /\ datasets'[j].pid <= pid
         PROVE  OInv'
    BY <2>1, <2>13 DEF Begun, OwnDescriptors
  <2>14. \A i \in DOMAIN datasets : datasets[i].pid \in Nat
    <3> DEFINE Datasets == [obj : Objects, pid : 1 .. MaxPid, clean : BOOLEAN]
    <3>1. datasets \in Seq(Datasets) /\ \A d \in Datasets : d.pid \in Nat
      BY BoundsAssumption DEF IInv
    <3> HIDE DEF Datasets
    <3>2. QED
      BY <3>1
  <2>15. CASE Fork
    BY <2>2, <2>13, <2>14, <2>15 DEF Fork
  <2>16. ASSUME NEW i \in DOMAIN datasets, ShipDataset(i) PROVE OInv'
    BY <2>2, <2>13, <2>14, <2>16 DEF ShipDataset, Spawn
  <2>17. CASE ShipRun
    BY <2>13, <2>17 DEF ShipRun, Spawn
  <2>18. CASE UNCHANGED vars
    BY <2>3, <2>18 DEF vars
  <2>19. QED
    BY <2>4, <2>5, <2>6, <2>7, <2>8, <2>9, <2>10, <2>11, <2>12, <2>15, <2>16, <2>17, <2>18 DEF Next
<1>3. QED
  BY <1>1, <1>2, Inductive, PTL DEF Spec

-----------------------------------------------------------------------
\* What process p opened and did not close is in a cache of `store` or `os`.
KeptBy(tab, p, store, os) ==
    \A fd \in Fds :
        tab[fd] # Nil /\ tab[fd].opener = p =>
            fd \in Range(store) \/ \E o \in DOMAIN os : fd \in Range(os[o].fds)

NothingLostIsKept == ~lost => KeptBy(table, pid, EnvCache, objs)

\* No descriptor is of a process that has not begun.
OpenedByNow == \A fd \in Fds : table[fd] # Nil => table[fd].opener <= pid

LEMMA NothingLostMeans == NothingLost <=> NothingLostIsKept
BY DEF NothingLost, NothingLostIsKept, KeptBy

\* What a process opens is kept in the cache it was opened for.
LEMMA OpenIsKept ==
    ASSUME NEW path, NEW cache, DOMAIN cache \subseteq Paths, table \in [Fds -> {Nil} \cup Entries],
           CanOpen(cache, path), Open(cache, path)
    PROVE  /\ Range(cache) \subseteq Range(Cached(cache, path))
           /\ \A fd \in Fds : \/ table'[fd] = table[fd]
                              \/ fd \in Range(Cached(cache, path)) /\ table'[fd].opener = pid
<1>1. CASE path \in DOMAIN cache
    <2>1. Cached(cache, path) = cache /\ table' = table
        BY <1>1 DEF Cached, Open
    <2>2. QED
        BY <2>1
<1>2. CASE path \notin DOMAIN cache
    <2> DEFINE f == Min(FreeFds(table))
    <2>1. f \in Fds
        BY <1>2, LowestFree DEF CanOpen
    <2>2. PICK c : c = Cached(cache, path)
        OBVIOUS
    <2>3. c = Put(cache, path, f) /\ table' = [table EXCEPT ![f] = [path |-> path, opener |-> pid]]
        BY <1>2, <2>2 DEF Cached, Open
    <2> HIDE DEF f
    <2>4. DOMAIN c = DOMAIN cache \cup {path} /\ c[path] = f /\ \A p \in DOMAIN cache : c[p] = cache[p]
        BY <1>2, <2>3 DEF Put
    <2>5. Range(cache) \subseteq Range(c) /\ f \in Range(c)
        BY <2>4 DEF Range
    <2>6. \A fd \in Fds : table'[fd] = IF fd = f THEN [path |-> path, opener |-> pid] ELSE table[fd]
        BY <2>1, <2>3
    <2>7. QED
        BY <2>2, <2>5, <2>6
<1>3. QED
    BY <1>1, <1>2

\* The collector closes what goes.
LEMMA CollectIsKept ==
    ASSUME NEW tab, NEW p, NEW store, NEW os, KeptBy(tab, p, store, os), Collect(os, tab)
    PROVE  KeptBy(table', p, store, objs')
<1> DEFINE fds == UNION {Range(os[o].fds) : o \in DOMAIN os \ Live}
<1>1. table' = Shut(tab, fds) /\ objs' = [o \in DOMAIN os \cap Live |-> os[o]]
    BY DEF Collect
<1> HIDE DEF fds
<1>2. \A fd \in Fds : table'[fd] = IF fd \in fds THEN Nil ELSE tab[fd]
    BY <1>1 DEF Shut
<1>3. DOMAIN objs' = DOMAIN os \cap Live /\ \A o \in DOMAIN os \cap Live : objs'[o] = os[o]
    BY <1>1
<1>4. \A o \in DOMAIN os \ Live : \A fd \in Range(os[o].fds) : fd \in fds
    BY DEF fds
<1>5. QED
    BY <1>2, <1>3, <1>4 DEF KeptBy

LEMMA CollectOpensNothing ==
    ASSUME NEW tab, NEW os, Collect(os, tab)
    PROVE  \A fd \in Fds : table'[fd] = Nil \/ table'[fd] = tab[fd]
BY DEF Collect, Shut

\* The strengthening of NothingLost.
LostInv == OpenedByNow /\ NothingLostIsKept

LEMMA LostInvNext ==
    ASSUME IInv, LostInv, [Next]_vars
    PROVE  LostInv'
<1>1. /\ Good(table, EnvCache, objs) /\ pid \in 1 .. MaxPid /\ pid \in Nat
      /\ table \in [Fds -> {Nil} \cup Entries]
      /\ \A o \in DOMAIN objs : objs[o] \in IndexObjects /\ DOMAIN objs[o].fds \subseteq Paths
      /\ DOMAIN EnvCache \subseteq Paths
    BY BoundsAssumption DEF IInv, Good, IndexObjects, Caches
<1>2. ~lost => KeptBy(table, pid, EnvCache, objs)
    BY DEF LostInv, NothingLostIsKept
<1>3. \A fd \in Fds : table[fd] # Nil => table[fd].opener \in Nat /\ table[fd].opener <= pid
    BY <1>1, BoundsAssumption DEF LostInv, OpenedByNow, Entries
\* The table and the caches stay, or caches are added.
<1>4. ASSUME UNCHANGED <<table, pid, lost, env>>, DOMAIN objs \subseteq DOMAIN objs',
             \A o \in DOMAIN objs : objs'[o] = objs[o]
      PROVE  LostInv'
    <2>1. EnvCache' = EnvCache
        BY <1>4 DEF EnvCache
    <2>2. QED
        BY <1>2, <1>3, <1>4, <2>1 DEF LostInv, OpenedByNow, NothingLostIsKept, KeptBy
<1>5. ASSUME CanBuild
      PROVE  /\ \A o \in DOMAIN objs : BuiltObjs[o] = objs[o]
             /\ DOMAIN objs \subseteq DOMAIN BuiltObjs
             /\ Built \in DOMAIN BuiltObjs /\ Good(table, EnvCache, BuiltObjs)
    BY <1>5, BuiltGenIs, BuiltKeeps
<1>6. ASSUME pid' = pid,
             \A fd \in Fds : table'[fd] = Nil \/ table'[fd] = table[fd] \/ table'[fd].opener = pid
      PROVE  OpenedByNow'
    BY <1>1, <1>3, <1>6 DEF OpenedByNow
<1>7. CASE Grow
    BY <1>4, <1>7 DEF Grow, handle
<1>8. CASE Rebuild
    <2> DEFINE os == Put(objs, NewObject, [gen |-> gen, fds |-> <<>>])
    <2>1. Collect(os, table) /\ UNCHANGED <<pid, lost, env>>
        BY <1>8 DEF Rebuild
    <2>2. NewObject \notin DOMAIN objs
        BY <1>8, NewObjectFree DEF Rebuild
    <2>3. DOMAIN objs \subseteq DOMAIN os /\ \A o \in DOMAIN objs : os[o] = objs[o]
        BY <2>2 DEF Put
    <2> HIDE DEF os
    <2>4. ~lost => KeptBy(table, pid, EnvCache, os)
        BY <1>2, <2>3 DEF KeptBy
    <2>5. ~lost => KeptBy(table', pid, EnvCache, objs')
        BY <2>1, <2>4, CollectIsKept
    <2>6. OpenedByNow'
        BY <1>6, <2>1, CollectOpensNothing
    <2>7. EnvCache' = EnvCache
        BY <2>1 DEF EnvCache
    <2>8. QED
        BY <2>1, <2>5, <2>6, <2>7 DEF LostInv, NothingLostIsKept
<1>9. CASE ReadEvent
    <2>1. PICK cache, os, b : cache = BuiltObjs[Built].fds /\ os = BuiltObjs /\ b = Built
        OBVIOUS
    <2>2. /\ CanOpen(cache, DataPath) /\ Open(cache, DataPath) /\ UNCHANGED <<pid, lost, env>>
          /\ objs' = [os EXCEPT ![b].fds = Cached(cache, DataPath)] /\ CanBuild
        BY <1>9, <2>1 DEF ReadEvent
    <2>3. /\ \A o \in DOMAIN objs : os[o] = objs[o]
          /\ DOMAIN objs \subseteq DOMAIN os /\ b \in DOMAIN os /\ Good(table, EnvCache, os)
        BY <1>5, <2>1, <2>2
    <2>4. os \in [DOMAIN os -> IndexObjects] /\ DOMAIN cache \subseteq Paths
        BY <2>1, <2>3 DEF Good, IndexObjects, Caches
    <2>5. /\ Range(cache) \subseteq Range(Cached(cache, DataPath))
          /\ \A fd \in Fds : \/ table'[fd] = table[fd]
                             \/ fd \in Range(Cached(cache, DataPath)) /\ table'[fd].opener = pid
        BY <1>1, <2>2, <2>4, OpenIsKept
    <2>6. DOMAIN objs' = DOMAIN os
          /\ \A o \in DOMAIN os : objs'[o].fds = IF o = b THEN Cached(cache, DataPath) ELSE os[o].fds
        BY <2>2, <2>3, <2>4 DEF IndexObjects
    <2>7. \A o \in DOMAIN objs : Range(objs[o].fds) \subseteq Range(objs'[o].fds)
        BY <2>1, <2>3, <2>5, <2>6
    <2>8. OpenedByNow'
        BY <1>6, <2>2, <2>5
    <2>9. EnvCache' = EnvCache
        BY <2>2 DEF EnvCache
    <2>10. QED
        BY <1>2, <2>2, <2>3, <2>5, <2>6, <2>7, <2>8, <2>9 DEF LostInv, NothingLostIsKept, KeptBy
<1>10. CASE ReadEnv
    <2>1. /\ CanOpen(EnvCache, EnvPath) /\ Open(EnvCache, EnvPath) /\ UNCHANGED <<pid, lost>>
        BY <1>10 DEF ReadEnv, EnvCache
    <2>2. EnvCache' = Cached(EnvCache, EnvPath)
        <3> DEFINE store == IF env = Nil THEN [gen |-> BuiltGen, fds |-> <<>>] ELSE env
        <3>1. env' = [store EXCEPT !.fds = Cached(EnvCache, EnvPath)]
            BY <1>10 DEF ReadEnv, EnvCache
        <3>2. store = [gen |-> store.gen, fds |-> store.fds]
            BY DEF IInv
        <3> HIDE DEF store
        <3>3. env' = [gen |-> store.gen, fds |-> Cached(EnvCache, EnvPath)]
            BY <3>1, <3>2
        <3>4. PICK fds : fds = Cached(EnvCache, EnvPath)
            OBVIOUS
        <3>5. fds \in Caches
            BY <1>1, <2>1, StoreReadKeeps, <3>4 DEF Good, Paths
        <3>6. store.gen \in Nat
            BY <1>10, <1>5, BuiltGenIs DEF ReadEnv, IInv, Good, IndexObjects, store
        <3>7. env' # Nil
            BY <3>6, <3>3, <3>4, <3>5, NilAssumption DEF Caches, Paths
        <3>8. QED
            BY <3>3, <3>7 DEF EnvCache
    <2>3. /\ Range(EnvCache) \subseteq Range(EnvCache')
          /\ \A fd \in Fds : \/ table'[fd] = table[fd]
                             \/ fd \in Range(EnvCache') /\ table'[fd].opener = pid
        BY <1>1, <2>1, <2>2, OpenIsKept
    <2>4. DOMAIN objs \subseteq DOMAIN objs' /\ \A o \in DOMAIN objs : objs'[o] = objs[o]
        BY <1>5, <1>10 DEF ReadEnv
    <2>5. OpenedByNow'
        BY <1>6, <2>1, <2>3
    <2>6. QED
        BY <1>2, <2>1, <2>3, <2>4, <2>5 DEF LostInv, NothingLostIsKept, KeptBy
<1>11. CASE SegConfigSteps
    BY <1>4, <1>5, <1>11 DEF SegConfigSteps
<1>12. CASE Close
    <2> DEFINE fds == Range(EnvCache) \cup Range(objs[index].fds)
    <2>1. PICK os : os = IndexCleared
        OBVIOUS
    <2>2. /\ Collect(os, Shut(table, fds)) /\ UNCHANGED <<pid, lost>> /\ env' = Nil
          /\ index \in DOMAIN objs
        BY <1>12, <2>1 DEF Close, IInv
    <2>3. /\ DOMAIN os = DOMAIN objs
          /\ \A o \in DOMAIN objs \ {index} : os[o] = objs[o]
        BY <1>1, <2>1, <2>2 DEF IndexCleared
    <2>4. \A fd \in Fds : Shut(table, fds)[fd] = IF fd \in fds THEN Nil ELSE table[fd]
        BY DEF Shut
    <2>5. \A fd \in Range(EnvCache) \cup Range(objs[index].fds) : fd \in fds
        OBVIOUS
    <2> HIDE DEF fds
    <2>6. ~lost => KeptBy(Shut(table, fds), pid, <<>>, os)
        BY <1>2, <2>3, <2>4, <2>5 DEF KeptBy
    <2>7. ~lost => KeptBy(table', pid, <<>>, objs')
        BY <2>2, <2>6, CollectIsKept
    <2>8. EnvCache' = <<>>
        BY <2>2 DEF EnvCache
    <2>9. OpenedByNow'
        BY <1>6, <2>2, <2>4, CollectOpensNothing
    <2>10. QED
        BY <2>2, <2>7, <2>8, <2>9 DEF LostInv, NothingLostIsKept
<1>13. CASE MakeDataset
    BY <1>4, <1>5, <1>13 DEF MakeDataset
<1>14. ASSUME NEW i \in DOMAIN datasets, GetItem(i)
       PROVE  LostInv'
    <2>1. PICK cache, b : cache = ForkSafe(datasets[i]) /\ b = datasets[i].obj
        OBVIOUS
    <2>2. /\ CanOpen(cache, DataPath) /\ Open(cache, DataPath) /\ UNCHANGED <<pid, env>>
          /\ objs' = [objs EXCEPT ![b].fds = Cached(cache, DataPath)]
          /\ lost' = (lost \/ \E fd \in Range(objs[b].fds) \ Range(cache) : table[fd].opener = pid)
        BY <1>14, <2>1 DEF GetItem, handle
    <2>3. b \in DOMAIN objs /\ (cache = objs[b].fds \/ cache = <<>>)
        BY <2>1 DEF ForkSafe, IInv
    <2>4. DOMAIN cache \subseteq Paths
        BY <1>1, <2>3, EmptyCache
    <2>5. /\ Range(cache) \subseteq Range(Cached(cache, DataPath))
          /\ \A fd \in Fds : \/ table'[fd] = table[fd]
                             \/ fd \in Range(Cached(cache, DataPath)) /\ table'[fd].opener = pid
        BY <1>1, <2>2, <2>4, OpenIsKept
    <2>6. DOMAIN objs' = DOMAIN objs
          /\ \A o \in DOMAIN objs : objs'[o].fds = IF o = b THEN Cached(cache, DataPath) ELSE objs[o].fds
        BY <1>1, <2>2, <2>3 DEF IndexObjects
    <2>7. OpenedByNow'
        BY <1>6, <2>2, <2>5
    <2>8. EnvCache' = EnvCache
        BY <2>2 DEF EnvCache
    <2>9. ASSUME ~lost', NEW fd \in Fds, table'[fd] # Nil, table'[fd].opener = pid
          PROVE  fd \in Range(EnvCache) \/ \E o \in DOMAIN objs' : fd \in Range(objs'[o].fds)
        <3>1. CASE fd \in Range(Cached(cache, DataPath))
            BY <2>3, <2>6, <3>1
        <3>2. CASE fd \notin Range(Cached(cache, DataPath))
            <4>1. table'[fd] = table[fd] /\ fd \notin Range(cache) /\ ~lost
                BY <2>2, <2>5, <2>9, <3>2
            <4>2. fd \notin Range(objs[b].fds)
                BY <2>2, <2>9, <4>1
            <4>3. fd \in Range(EnvCache) \/ \E o \in DOMAIN objs \ {b} : fd \in Range(objs[o].fds)
                BY <1>2, <2>9, <4>1, <4>2 DEF KeptBy
            <4>4. QED
                BY <2>6, <4>3
        <3>3. QED
            BY <3>1, <3>2
    <2>10. QED
        BY <2>2, <2>7, <2>8, <2>9 DEF LostInv, NothingLostIsKept, KeptBy
<1>15. ASSUME NEW i \in DOMAIN datasets, DropDataset(i)
       PROVE  LostInv'
    <2>1. Collect(objs, table) /\ UNCHANGED <<pid, lost, env>>
        BY <1>15 DEF DropDataset
    <2>2. ~lost => KeptBy(table', pid, EnvCache, objs')
        BY <1>2, <2>1, CollectIsKept
    <2>3. OpenedByNow'
        BY <1>6, <2>1, CollectOpensNothing
    <2>4. EnvCache' = EnvCache
        BY <2>1 DEF EnvCache
    <2>5. QED
        BY <2>1, <2>2, <2>3, <2>4 DEF LostInv, NothingLostIsKept
<1>16. CASE Fork
    <2>1. table' = table /\ pid' = pid + 1
        BY <1>16 DEF Fork
    <2>2. \A fd \in Fds : table'[fd] # Nil => table'[fd].opener <= pid' /\ table'[fd].opener # pid'
        BY <1>1, <1>3, <2>1
    <2>3. QED
        BY <2>2 DEF LostInv, OpenedByNow, NothingLostIsKept, KeptBy
<1>17. ASSUME Spawn
       PROVE  LostInv'
    BY <1>17 DEF Spawn, LostInv, OpenedByNow, NothingLostIsKept, KeptBy
<1>18. CASE UNCHANGED vars
    BY <1>4, <1>18 DEF vars, handle
<1>19. QED
    BY <1>7, <1>8, <1>9, <1>10, <1>11, <1>12, <1>13, <1>14, <1>15, <1>16, <1>17, <1>18
       DEF Next, ShipDataset, ShipRun

\* What a process opened and did not close is in a cache that close or the
\* collector empties, in any number of processes and through any history of
\* reads, closes, rebuilds, forks and pickles; or the guard of a dataset took
\* its own process's descriptors for the parent's.
THEOREM NeverLost ==
    ASSUME ~ShipsReadEnv
    PROVE  Spec => []NothingLost
<1>1. Init => LostInv
    BY DEF Init, LostInv, OpenedByNow, NothingLostIsKept, KeptBy
<1>2. LostInv => NothingLost
    BY NothingLostMeans DEF LostInv
<1>3. QED
    BY <1>1, <1>2, LostInvNext, Inductive, PTL DEF Spec
=============================================================================
