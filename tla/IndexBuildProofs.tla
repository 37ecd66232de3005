-------------------------- MODULE IndexBuildProofs --------------------------
(***************************************************************************)
(* For any streams and files: a build that does not tolerate truncation    *)
(* ends with the canonical index and the slow-data timestamps of the run,  *)
(* the same from the sidecars as from the bigdata headers, and refuses     *)
(* exactly the files that cannot be indexed.                               *)
(*                                                                         *)
(* Both scans go through places of dgrams in order.  What a scan has       *)
(* found is the listing, by that order, of the places it has passed.       *)
(***************************************************************************)
EXTENDS IndexBuild, TLAPS, FiniteSetTheorems, SequenceTheorems, FunctionTheorems

-----------------------------------------------------------------------------
(* The order of places                                                     *)

\* A non-empty set of naturals has a least element, and Min finds it.
LEMMA MinProperties ==
  ASSUME NEW T, T \subseteq Nat, T # {}
  PROVE  Min(T) \in T /\ \A y \in T : Min(T) <= y
<1> DEFINE R == OpToRel(<, Nat)
<1>1. IsWellFoundedOn(R, Nat)
  BY NatLessThanWellFounded
<1>2. \A x, y \in Nat : x < y => <<x, y>> \in R
  BY DEF OpToRel
<1> HIDE DEF R
<1>3. PICK x \in T : \A y \in T : ~ (<<y, x>> \in R)
  BY <1>1, WFMin
<1>4. \A y \in T : x \in Nat /\ y \in Nat /\ ~ (y < x)
  BY <1>2, <1>3
<1>5. \A y \in T : x <= y
  BY <1>4
<1>6. QED
  BY <1>5 DEF Min

Pairs == Nat \X Nat

LEMMA PrecedesOrders ==
  ASSUME NEW p \in Pairs, NEW q \in Pairs, NEW r \in Pairs
  PROVE  /\ ~Precedes(p, p)
         /\ Precedes(p, q) /\ Precedes(q, r) => Precedes(p, r)
         /\ Precedes(p, q) => ~Precedes(q, p)
         /\ p # q => Precedes(p, q) \/ Precedes(q, p)
<1>1. /\ p = <<p[1], p[2]>> /\ p[1] \in Nat /\ p[2] \in Nat
      /\ q = <<q[1], q[2]>> /\ q[1] \in Nat /\ q[2] \in Nat
      /\ r[1] \in Nat /\ r[2] \in Nat
  BY DEF Pairs
<1>2. p # q => p[1] # q[1] \/ p[2] # q[2]
  BY <1>1
<1>3. QED
  BY <1>1, <1>2 DEF Precedes

\* Ranks number the places of a finite set, in their order.
LEMMA RankFacts ==
  ASSUME NEW P, P \subseteq Pairs, IsFiniteSet(P)
  PROVE  /\ Cardinality(P) \in Nat
         /\ \A p \in P : Rank(P, p) \in 1..Cardinality(P)
         /\ \A p, q \in P : Precedes(p, q) <=> Rank(P, p) < Rank(P, q)
         /\ \A p, q \in P : Rank(P, p) = Rank(P, q) => p = q
<1> DEFINE Below(p) == {q \in P : Precedes(q, p)}
<1>1. Cardinality(P) \in Nat
  BY FS_CardinalityType
<1>2. \A p \in P : IsFiniteSet(Below(p)) /\ Cardinality(Below(p)) \in Nat
  BY FS_Subset, FS_CardinalityType
<1>3. \A p \in P : Cardinality(Below(p)) < Cardinality(P)
  <2> SUFFICES ASSUME NEW p \in P
               PROVE  Cardinality(Below(p)) < Cardinality(P)
    OBVIOUS
  <2>1. p \notin Below(p)
    BY PrecedesOrders
  <2>2. Below(p) \in SUBSET P /\ Below(p) # P
    BY <2>1
  <2>3. Cardinality(Below(p)) <= Cardinality(P) /\ Cardinality(Below(p)) # Cardinality(P)
    BY <2>2, FS_Subset
  <2>4. QED
    BY <1>1, <1>2, <2>3
<1>4. \A p, q \in P : Precedes(p, q) => Cardinality(Below(p)) < Cardinality(Below(q))
  <2> SUFFICES ASSUME NEW p \in P, NEW q \in P, Precedes(p, q)
               PROVE  Cardinality(Below(p)) < Cardinality(Below(q))
    OBVIOUS
  <2>1. p \notin Below(p) /\ p \in Below(q)
    BY PrecedesOrders
  <2>2. \A r \in Below(p) : r \in Below(q)
    BY PrecedesOrders
  <2>3. Below(p) \in SUBSET Below(q) /\ Below(p) # Below(q)
    BY <2>1, <2>2
  <2>4. Cardinality(Below(p)) <= Cardinality(Below(q)) /\ Cardinality(Below(p)) # Cardinality(Below(q))
    BY <1>2, <2>3, FS_Subset
  <2>5. QED
    BY <1>2, <2>4
<1>5. \A p \in P : Rank(P, p) = Cardinality(Below(p)) + 1
  BY DEF Rank
<1> HIDE DEF Below
<1>6. \A p \in P : Rank(P, p) \in 1..Cardinality(P)
  BY <1>1, <1>2, <1>3, <1>5
<1>7. \A p, q \in P : Precedes(p, q) => Rank(P, p) < Rank(P, q)
  BY <1>2, <1>4, <1>5
<1>8. \A p, q \in P : /\ Rank(P, p) \in Int /\ Rank(P, q) \in Int
                      /\ p # q => Precedes(p, q) \/ Precedes(q, p)
                      /\ ~Precedes(p, p)
  BY <1>6, PrecedesOrders
<1>9. \A p, q \in P : Rank(P, p) = Rank(P, q) => p = q
  BY <1>7, <1>8
<1>10. \A p, q \in P : Rank(P, p) < Rank(P, q) => Precedes(p, q)
  BY <1>7, <1>8
<1>11. QED
  BY <1>1, <1>6, <1>7, <1>9, <1>10

\* Every number up to the size of the set is the rank of a place.
LEMMA RankOnto ==
  ASSUME NEW P, P \subseteq Pairs, IsFiniteSet(P), NEW k \in 1..Cardinality(P)
  PROVE  \E p \in P : Rank(P, p) = k
<1> DEFINE N == 1..Cardinality(P)
           f == [p \in P |-> Rank(P, p)]
<1>1. Cardinality(P) \in Nat /\ (\A p \in P : Rank(P, p) \in N)
      /\ \A p, q \in P : Rank(P, p) = Rank(P, q) => p = q
  BY RankFacts
<1>2. f \in [P -> N] /\ \A p, q \in P : f[p] = f[q] => p = q
  BY <1>1
<1>3. IsFiniteSet(N) /\ Cardinality(N) = Cardinality(P)
  BY <1>1, FS_Interval
<1> HIDE DEF N
<1>4. f \in Injection(P, N)
  BY <1>2 DEF Injection, IsInjective
<1> HIDE DEF f
<1>5. f \in Surjection(P, N)
  BY <1>3, <1>4, FS_Injection
<1>6. \E p \in P : f[p] = k
  BY <1>5 DEF Surjection, N
<1>7. QED
  BY <1>6 DEF f

\* InOrder lists each value once, at the rank of its place.
LEMMA InOrderAt ==
  ASSUME NEW P, P \subseteq Pairs, IsFiniteSet(P), NEW val, DOMAIN val = P
  PROVE  \A p \in P : InOrder(val)[Rank(P, p)] = val[p]
<1>1. \A p \in P : Rank(P, p) \in 1..Cardinality(P)
  BY RankFacts
<1>2. \A p \in P : (CHOOSE q \in P : Rank(P, q) = Rank(P, p)) = p
  BY RankFacts
<1>3. InOrder(val) = [k \in 1..Cardinality(P) |-> val[CHOOSE q \in P : Rank(P, q) = k]]
  BY DEF InOrder
<1>4. QED
  BY <1>1, <1>2, <1>3

LEMMA InOrderIs ==
  ASSUME NEW P, P \subseteq Pairs, IsFiniteSet(P), NEW val, DOMAIN val = P
  PROVE  InOrder(val) \in Seq({val[p] : p \in P}) /\ Len(InOrder(val)) = Cardinality(P)
<1> DEFINE nth(k) == CHOOSE p \in P : Rank(P, p) = k
<1>1. Cardinality(P) \in Nat
  BY FS_CardinalityType
<1>2. \A k \in 1..Cardinality(P) : nth(k) \in P
  BY RankOnto
<1>3. InOrder(val) = [k \in 1..Cardinality(P) |-> val[nth(k)]]
  BY DEF InOrder
<1> HIDE DEF nth
<1>4. \A k \in 1..Cardinality(P) : val[nth(k)] \in {val[p] : p \in P}
  BY <1>2
<1>5. QED
  BY <1>1, <1>3, <1>4, IsASeq

LEMMA InOrderFrom ==
  ASSUME NEW P, P \subseteq Pairs, IsFiniteSet(P), NEW val, DOMAIN val = P,
         NEW k \in 1..Cardinality(P)
  PROVE  \E p \in P : Rank(P, p) = k /\ InOrder(val)[k] = val[p]
<1>1. PICK p \in P : Rank(P, p) = k
  BY RankOnto
<1>2. InOrder(val)[Rank(P, p)] = val[p]
  BY InOrderAt
<1>3. QED
  BY <1>1, <1>2

\* A place behind all others adds its value at the end.
LEMMA InOrderAppend ==
  ASSUME NEW was, NEW val, NEW p,
         /\ p \in Pairs /\ DOMAIN was \subseteq Pairs /\ IsFiniteSet(DOMAIN was)
         /\ DOMAIN val = DOMAIN was \cup {p}
         /\ \A q \in DOMAIN was : Precedes(q, p) /\ val[q] = was[q]
  PROVE  InOrder(val) = Append(InOrder(was), val[p])
<1> PICK P : P = DOMAIN was
  OBVIOUS
<1>a. /\ P \subseteq Pairs /\ IsFiniteSet(P) /\ DOMAIN was = P /\ DOMAIN val = P \cup {p}
      /\ \A q \in P : Precedes(q, p) /\ val[q] = was[q]
  OBVIOUS
<1>0. PICK Q : Q = P \cup {p}
  OBVIOUS
<1>1. p \notin P /\ Q \subseteq Pairs /\ IsFiniteSet(Q)
  BY <1>0, PrecedesOrders, FS_AddElement
<1>2. Cardinality(P) \in Nat /\ Cardinality(Q) = Cardinality(P) + 1
  BY <1>0, <1>1, FS_AddElement, FS_CardinalityType
<1>3. \A q \in P : Rank(Q, q) = Rank(P, q)
  <2> SUFFICES ASSUME NEW q \in P
               PROVE  {r \in Q : Precedes(r, q)} = {r \in P : Precedes(r, q)}
    BY DEF Rank
  <2>1. ~Precedes(p, q)
    BY PrecedesOrders
  <2>2. QED
    BY <1>0, <2>1
<1>4. Rank(Q, p) = Cardinality(P) + 1
  <2>1. {r \in Q : Precedes(r, p)} = P
    BY <1>0, PrecedesOrders
  <2>2. QED
    BY <2>1 DEF Rank
<1>5. /\ InOrder(was) \in Seq({was[q] : q \in P}) /\ Len(InOrder(was)) = Cardinality(P)
      /\ \A k \in 1..Len(InOrder(was)) : \E q \in P : Rank(P, q) = k /\ InOrder(was)[k] = was[q]
  <2>1. InOrder(was) \in Seq({was[q] : q \in P}) /\ Len(InOrder(was)) = Cardinality(P)
    BY InOrderIs
  <2>2. \A k \in 1..Cardinality(P) : \E q \in P : Rank(P, q) = k /\ InOrder(was)[k] = was[q]
    BY InOrderFrom
  <2>3. QED
    BY <2>1, <2>2
<1>6. DOMAIN val = Q
  BY <1>0
<1>7. /\ InOrder(val) \in Seq({val[q] : q \in Q}) /\ Len(InOrder(val)) = Cardinality(Q)
      /\ \A q \in Q : InOrder(val)[Rank(Q, q)] = val[q]
  <2>1. InOrder(val) \in Seq({val[q] : q \in Q}) /\ Len(InOrder(val)) = Cardinality(Q)
    BY ONLY <1>1, <1>6, InOrderIs
  <2>2. \A q \in Q : InOrder(val)[Rank(Q, q)] = val[q]
    BY <1>1, <1>6, InOrderAt
  <2>3. QED
    BY <2>1, <2>2
<1>8. P \subseteq Q /\ p \in Q
  BY <1>0
<1>9. InOrder(val)[Cardinality(P) + 1] = val[p]
  BY <1>4, <1>7, <1>8
<1>10. \A k \in 1..Cardinality(P) : InOrder(val)[k] = InOrder(was)[k]
  <2> SUFFICES ASSUME NEW k \in 1..Cardinality(P)
               PROVE  InOrder(val)[k] = InOrder(was)[k]
    OBVIOUS
  <2>1. PICK q \in P : Rank(P, q) = k /\ InOrder(was)[k] = was[q]
    BY <1>5
  <2>2. InOrder(val)[k] = val[q]
    BY <1>3, <1>7, <1>8, <2>1
  <2>3. QED
    BY <2>1, <2>2
<1> DEFINE o == InOrder(was)
           w == InOrder(val)
           x == val[p]
           S == {was[q] : q \in P} \cup {val[q] : q \in Q}
<1>11. o \in Seq(S) /\ w \in Seq(S) /\ x \in S
  <2>1. {was[q] : q \in P} \subseteq S /\ {val[q] : q \in Q} \subseteq S /\ x \in S
    BY <1>8
  <2> HIDE DEF S
  <2>2. QED
    BY <1>5, <1>7, <2>1, SeqMonotonic
<1>12. Len(w) = Len(o) + 1 /\ Len(o) \in Nat /\ w[Len(o) + 1] = x
       /\ \A k \in 1..Len(o) : w[k] = o[k]
  BY <1>2, <1>5, <1>7, <1>9, <1>10
<1> HIDE DEF o, w, x, S
<1>13. Append(o, x) \in Seq(S) /\ Len(Append(o, x)) = Len(o) + 1
       /\ Append(o, x)[Len(o) + 1] = x /\ \A k \in 1..Len(o) : Append(o, x)[k] = o[k]
  BY <1>11, AppendProperties
<1>14. \A k \in 1..Len(w) : w[k] = Append(o, x)[k]
  BY <1>12, <1>13
<1>15. w = Append(o, x)
  BY <1>11, <1>12, <1>13, <1>14, SeqEqual
<1>e. QED
  BY <1>15 DEF o, w, x

-----------------------------------------------------------------------------
(* What there is to read                                                   *)

Files(s) == run.chunks[s]

Chunks == [dgs : Seq(Dgram), tail : Tails] \cup {NoFile}

LEMMA PlacesAre ==
  ASSUME NEW files, files \in Seq(Chunks)
  PROVE  /\ Places(files) \subseteq Pairs /\ IsFiniteSet(Places(files))
         /\ \A p : p \in Places(files) <=>
              /\ p = <<p[1], p[2]>>
              /\ p[1] \in 1..Len(files) /\ files[p[1]] # NoFile
              /\ p[2] \in 1..Len(files[p[1]].dgs)
         /\ \A c \in 1..Len(files) : files[c] # NoFile =>
              Len(files[c].dgs) \in Nat /\ \A i \in 1..Len(files[c].dgs) : <<c, i>> \in Places(files)
         /\ \A p \in Places(files) : At(files, p) \in Dgram
<1> DEFINE K == {k \in 1..Len(files) : files[k] # NoFile}
           Of(c) == {c} \X (1..Len(files[c].dgs))
           f == [c \in K |-> Of(c)]
           T == {Of(c) : c \in K}
<1>1. Len(files) \in Nat
  OBVIOUS
<1>2. \A c \in K : files[c] \in [dgs : Seq(Dgram), tail : Tails]
  BY DEF Chunks
<1>3. \A c \in K : c \in Nat /\ files[c].dgs \in Seq(Dgram) /\ Len(files[c].dgs) \in Nat
  BY <1>2
<1>4. Places(files) = UNION T
  BY DEF Places
<1>5. IsFiniteSet(K)
  <2>1. IsFiniteSet(1..Len(files))
    BY <1>1, FS_Interval
  <2>2. K \in SUBSET (1..Len(files))
    OBVIOUS
  <2>3. QED
    BY <2>1, <2>2, FS_Subset
<1>6. \A c \in K : IsFiniteSet(Of(c))
  <2> SUFFICES ASSUME NEW c \in K
               PROVE  IsFiniteSet({c} \X (1..Len(files[c].dgs)))
    OBVIOUS
  <2>1. \A m \in Nat : IsFiniteSet(1..m)
    BY FS_Interval
  <2>2. IsFiniteSet(1..Len(files[c].dgs))
    BY <1>3, <2>1
  <2>3. IsFiniteSet({c})
    BY FS_Singleton
  <2>4. QED
    BY <2>2, <2>3, FS_Product
<1>7. f \in Surjection(K, T)
  BY DEF Surjection
<1>8. IsFiniteSet(T) /\ \A S \in T : IsFiniteSet(S)
  BY <1>5, <1>6, <1>7, FS_Surjection
<1>9. IsFiniteSet(Places(files))
  BY <1>4, <1>8, FS_UNION
<1>10. \A p : p \in Places(files) <=>
         p = <<p[1], p[2]>> /\ p[1] \in K /\ p[2] \in 1..Len(files[p[1]].dgs)
  BY <1>4
<1>11. \A p \in Places(files) : p[1] \in Nat /\ p[2] \in Nat /\ p = <<p[1], p[2]>>
  BY <1>3, <1>10
<1>12. Places(files) \subseteq Pairs
  BY <1>11 DEF Pairs
<1>13. \A p \in Places(files) : At(files, p) \in Dgram
  BY <1>3, <1>10 DEF At
<1>14. \A c \in K : \A i \in 1..Len(files[c].dgs) : <<c, i>> \in Places(files)
  BY <1>10
<1>15. QED
  BY <1>3, <1>9, <1>10, <1>12, <1>13, <1>14

\* The places a scan of stream s goes through.
ToRead(s) ==
  IF source = "smd" THEN Kept(run.chunks, run.timing, s) ELSE Places(Files(s))

\* Those it has passed once it is k dgrams into the file of chunk c.
Passed(s, k, c) ==
  {p \in ToRead(s) :
     IF source = "smd" THEN Rank(ToRead(s), p) <= k
     ELSE p[1] <= c \/ (p[1] = c + 1 /\ p[2] <= k)}

\* What a scan finds at a set of places.
RecordAt(files, p) ==
  [ts |-> At(files, p).ts, chunk |-> p[1] - 1,
   off |-> OffsetOf(files[p[1]], p[2]), size |-> At(files, p).size]

RecordsOf(files, P) == InOrder([p \in P \cap EventPlaces(files) |-> RecordAt(files, p)])

Feeding(store, files) ==
  {p \in Places(files) : At(files, p).svc \in DOMAIN EnvServiceStore
                         /\ EnvServiceStore[At(files, p).svc] = store}

EnvOf(store, files, P) == InOrder([p \in P \cap Feeding(store, files) |-> At(files, p).ts])

Stores == {"epics", "scan"}

Found(s, P) ==
  /\ recs[s] = RecordsOf(Files(s), P)
  /\ \A store \in Stores : env[store][s] = EnvOf(store, Files(s), P)

\* The sidecar is there and not cut.
Mirrored(s) == run.smd[s] # NoFile /\ run.smd[s].tail = "clean"

\* The run is one of the runs, and the source the one build_index chooses.
Chosen == run \in Runs /\ source = Source

LEMMA RunFacts ==
  ASSUME run \in Runs
  PROVE  /\ run.timing \subseteq Streams
         /\ \A s \in Streams :
              /\ Files(s) \in Seq(Chunks) /\ Len(Files(s)) \in Nat /\ Len(Files(s)) >= 1
              /\ run.smd[s] \in [dgs : Seq(SmdDgram), tail : Tails] \cup {NoFile}
              /\ Mirrored(s) => /\ run.smd[s].dgs = SmdOf(run.chunks, run.timing, s)
                                /\ RollsAnnounced(Files(s))
<1>1. \A s \in Streams : Files(s) \in Seq(Chunks) /\ Files(s) # <<>>
  BY RunsAssumption DEF Files, Chunks
<1>2. \A s \in Streams : Len(Files(s)) \in Nat /\ Len(Files(s)) >= 1
  BY <1>1, EmptySeq, LenProperties
<1>3. QED
  BY <1>1, <1>2, RunsAssumption DEF Files, Mirrored

LEMMA ToReadFacts ==
  ASSUME run \in Runs, NEW s \in Streams
  PROVE  /\ ToRead(s) \subseteq Places(Files(s))
         /\ ToRead(s) \subseteq Pairs /\ IsFiniteSet(ToRead(s))
         /\ \A p \in Places(Files(s)) \ ToRead(s) : At(Files(s), p).svc = L1Accept
<1>1. Files(s) \in Seq(Chunks)
  BY RunFacts
<1>2. ToRead(s) \subseteq Places(Files(s))
  BY DEF ToRead, Kept, Files
<1>3. Places(Files(s)) \subseteq Pairs /\ IsFiniteSet(Places(Files(s)))
  BY <1>1, PlacesAre
<1>4. IsFiniteSet(ToRead(s))
  BY <1>2, <1>3, FS_Subset
<1>5. \A p \in Places(Files(s)) \ ToRead(s) : At(Files(s), p).svc = L1Accept
  BY DEF ToRead, Kept, Files
<1>6. QED
  BY <1>2, <1>3, <1>4, <1>5

-----------------------------------------------------------------------------
(* The inductive invariant                                                 *)

\* Stream s is fit for an index.
Sound(s) ==
  IF source = "smd" THEN Mirrored(s)
  ELSE ~Hole(s) /\ \A c \in 1..Len(Files(s)) : Files(s)[c].tail = "clean"

\* The chunk of the SMD scan is the highest that was announced.
ChunkFollows ==
  LET passed == Passed(cur, n, chunk)
  IN  /\ \A p \in passed : Announced(Files(cur), p) <= chunk
      /\ chunk = 0 \/ \E p \in passed : Announced(Files(cur), p) = chunk

\* The scan is inside a file that is there, and has refused no file behind it.
Inside ==
  /\ n <= Len(File.dgs)
  /\ source = "bigdata" =>
       /\ chunk < Len(Files(cur))
       /\ \A c \in 1..chunk : Files(cur)[c].tail = "clean"

\* What is found so far is what was passed, unless the sidecar ends cut.
Scanning ==
  /\ cur \in Streams /\ chunk \in Nat /\ n \in Nat
  /\ \A s \in Streams : s < cur => Sound(s) /\ Found(s, ToRead(s))
  /\ \A s \in Streams : s > cur => Found(s, {})
  /\ Opens => Inside
  /\ source = "bigdata" /\ Opens => Found(cur, Passed(cur, n, chunk))
  /\ source = "smd" /\ Mirrored(cur) => Found(cur, Passed(cur, n, chunk)) /\ ChunkFollows

Scanned == \A s \in Streams : Sound(s) /\ Found(s, ToRead(s))

Domains ==
  /\ DOMAIN recs = Streams
  /\ DOMAIN env = Stores /\ \A store \in Stores : DOMAIN env[store] = Streams

IInv ==
  /\ status \in {"select", "scan", "merge", "done", "raised"}
  /\ run \in Runs /\ Domains
  /\ status # "select" => Chosen
  /\ status = "select" =>
       /\ cur = Min(Streams) /\ chunk = 0 /\ n = 0
       /\ \A s \in Streams : recs[s] = <<>> /\ \A store \in Stores : env[store][s] = <<>>
  /\ status = "scan" => Scanning
  /\ status \in {"merge", "done"} => Scanned
  /\ status = "done" => ~Duplicate /\ index = Merged
  /\ status = "raised" => Defective

-----------------------------------------------------------------------------
(* What one more place adds                                                *)

LEMMA FoundNothing ==
  ASSUME NEW files
  PROVE  RecordsOf(files, {}) = <<>> /\ \A store : EnvOf(store, files, {}) = <<>>
<1>1. Cardinality({}) = 0
  BY FS_EmptySet
<1>2. \A val : DOMAIN val = {} => InOrder(val) = <<>>
  BY <1>1 DEF InOrder
<1>3. QED
  BY <1>2 DEF RecordsOf, EnvOf

LEMMA FoundMore ==
  ASSUME run \in Runs, NEW s \in Streams, NEW P, P \subseteq Places(Files(s)),
         NEW p \in Places(Files(s)), \A q \in P : Precedes(q, p)
  PROVE  /\ RecordsOf(Files(s), P \cup {p}) =
              IF At(Files(s), p).svc = L1Accept
              THEN Append(RecordsOf(Files(s), P), RecordAt(Files(s), p)) ELSE RecordsOf(Files(s), P)
         /\ \A store : EnvOf(store, Files(s), P \cup {p}) =
              IF p \in Feeding(store, Files(s))
              THEN Append(EnvOf(store, Files(s), P), At(Files(s), p).ts) ELSE EnvOf(store, Files(s), P)
<1>1. Places(Files(s)) \subseteq Pairs /\ IsFiniteSet(Places(Files(s)))
  BY RunFacts, PlacesAre
<1>2. p \in Pairs
  BY <1>1
<1>3. \A S : P \cap S \subseteq Pairs /\ IsFiniteSet(P \cap S)
  <2> SUFFICES ASSUME NEW S
               PROVE  P \cap S \subseteq Pairs /\ IsFiniteSet(P \cap S)
    OBVIOUS
  <2>1. P \cap S \in SUBSET Places(Files(s))
    OBVIOUS
  <2>2. QED
    BY <1>1, <2>1, FS_Subset
<1>4. RecordsOf(Files(s), P \cup {p}) =
        IF At(Files(s), p).svc = L1Accept
        THEN Append(RecordsOf(Files(s), P), RecordAt(Files(s), p)) ELSE RecordsOf(Files(s), P)
  <2> DEFINE E == EventPlaces(Files(s))
  <2>1. p \in E <=> At(Files(s), p).svc = L1Accept
    BY DEF EventPlaces
  <2>6. PICK was, val : /\ was = [q \in P \cap E |-> RecordAt(Files(s), q)]
                        /\ val = [q \in (P \cup {p}) \cap E |-> RecordAt(Files(s), q)]
    OBVIOUS
  <2>2. RecordsOf(Files(s), P) = InOrder(was) /\ RecordsOf(Files(s), P \cup {p}) = InOrder(val)
    BY <2>6 DEF RecordsOf
  <2> HIDE DEF E
  <2>3. CASE p \notin E
    <3>1. (P \cup {p}) \cap E = P \cap E
      BY <2>3
    <3>2. QED
      BY <2>1, <2>2, <2>3, <2>6, <3>1
  <2>4. CASE p \in E
    <3>1. (P \cup {p}) \cap E = (P \cap E) \cup {p}
      BY <2>4
    <3>2. /\ DOMAIN was = P \cap E /\ DOMAIN val = (P \cap E) \cup {p}
          /\ \A q \in P \cap E : val[q] = was[q]
          /\ val[p] = RecordAt(Files(s), p)
      BY <2>4, <2>6, <3>1
    <3>3. \A q \in P \cap E : Precedes(q, p)
      OBVIOUS
    <3>4. InOrder(val) = Append(InOrder(was), val[p])
      <4>1. /\ p \in Pairs /\ DOMAIN was \subseteq Pairs /\ IsFiniteSet(DOMAIN was)
            /\ DOMAIN val = DOMAIN was \cup {p}
            /\ \A q \in DOMAIN was : Precedes(q, p) /\ val[q] = was[q]
        BY <1>2, <1>3, <3>2, <3>3
      <4>2. QED
        BY ONLY <4>1, InOrderAppend
    <3>5. QED
      BY <2>1, <2>2, <2>4, <3>2, <3>4
  <2>5. QED
    BY <2>3, <2>4
<1>5. ASSUME NEW store
      PROVE  EnvOf(store, Files(s), P \cup {p}) =
               IF p \in Feeding(store, Files(s))
               THEN Append(EnvOf(store, Files(s), P), At(Files(s), p).ts) ELSE EnvOf(store, Files(s), P)
  <2> DEFINE E == Feeding(store, Files(s))
  <2>6. PICK was, val : /\ was = [q \in P \cap E |-> At(Files(s), q).ts]
                        /\ val = [q \in (P \cup {p}) \cap E |-> At(Files(s), q).ts]
    OBVIOUS
  <2>2. EnvOf(store, Files(s), P) = InOrder(was) /\ EnvOf(store, Files(s), P \cup {p}) = InOrder(val)
    BY <2>6 DEF EnvOf
  <2> HIDE DEF E
  <2>3. CASE p \notin E
    <3>1. (P \cup {p}) \cap E = P \cap E
      BY <2>3
    <3>2. QED
      BY <2>2, <2>3, <2>6, <3>1 DEF E
  <2>4. CASE p \in E
    <3>1. (P \cup {p}) \cap E = (P \cap E) \cup {p}
      BY <2>4
    <3>2. /\ DOMAIN was = P \cap E /\ DOMAIN val = (P \cap E) \cup {p}
          /\ \A q \in P \cap E : val[q] = was[q]
          /\ val[p] = At(Files(s), p).ts
      BY <2>4, <2>6, <3>1
    <3>3. \A q \in P \cap E : Precedes(q, p)
      OBVIOUS
    <3>4. InOrder(val) = Append(InOrder(was), val[p])
      <4>1. /\ p \in Pairs /\ DOMAIN was \subseteq Pairs /\ IsFiniteSet(DOMAIN was)
            /\ DOMAIN val = DOMAIN was \cup {p}
            /\ \A q \in DOMAIN was : Precedes(q, p) /\ val[q] = was[q]
        BY <1>2, <1>3, <3>2, <3>3
      <4>2. QED
        BY ONLY <4>1, InOrderAppend
    <3>5. QED
      BY <2>2, <2>4, <3>2, <3>4 DEF E
  <2>5. QED
    BY <2>3, <2>4
<1>6. QED
  BY <1>4, <1>5

\* The sidecar lists the places to be read, in order.
LEMMA SidecarLists ==
  ASSUME run \in Runs, source = "smd", NEW s \in Streams, Mirrored(s)
  PROVE  /\ Len(run.smd[s].dgs) = Cardinality(ToRead(s))
         /\ \A p \in ToRead(s) :
              LET d == run.smd[s].dgs[Rank(ToRead(s), p)]
              IN  /\ d.ts = At(Files(s), p).ts /\ d.svc = At(Files(s), p).svc
                  /\ d.roll = At(Files(s), p).roll
                  /\ d.svc = L1Accept =>
                       d.info = <<OffsetOf(Files(s)[p[1]], p[2]), At(Files(s), p).size>>
<1> DEFINE info(p) == <<OffsetOf(Files(s)[p[1]], p[2]), At(Files(s), p).size>>
           entry(p) == [ts |-> At(Files(s), p).ts, svc |-> At(Files(s), p).svc,
                        roll |-> At(Files(s), p).roll,
                        info |-> IF At(Files(s), p).svc = L1Accept THEN info(p) ELSE NoInfo]
<1>1. PICK val : val = [p \in ToRead(s) |-> entry(p)]
  OBVIOUS
<1>2. run.smd[s].dgs = InOrder(val)
  BY <1>1, RunFacts DEF SmdOf, ToRead, Files
<1>3. DOMAIN val = ToRead(s) /\ \A p \in ToRead(s) : val[p] = entry(p)
  BY <1>1
<1>4. ToRead(s) \subseteq Pairs /\ IsFiniteSet(ToRead(s))
  BY ToReadFacts
<1>5. Len(InOrder(val)) = Cardinality(ToRead(s))
  BY ONLY <1>3, <1>4, InOrderIs
<1>6. \A p \in ToRead(s) : InOrder(val)[Rank(ToRead(s), p)] = val[p]
  BY ONLY <1>3, <1>4, InOrderAt
<1>7. QED
  BY <1>2, <1>3, <1>5, <1>6

\* The place the head of the SMD scan stands for.
LEMMA NextOfSidecar ==
  ASSUME run \in Runs, source = "smd", cur \in Streams, Mirrored(cur),
         n \in Nat, n < Len(run.smd[cur].dgs)
  PROVE  \E p \in ToRead(cur) :
           /\ \A c : Passed(cur, n, c) = {q \in ToRead(cur) : Precedes(q, p)}
           /\ \A c, d : Passed(cur, n + 1, d) = Passed(cur, n, c) \cup {p}
           /\ HeadDgram.ts = At(Files(cur), p).ts /\ HeadDgram.svc = At(Files(cur), p).svc
           /\ HeadDgram.roll = At(Files(cur), p).roll
           /\ HeadDgram.svc = L1Accept =>
                /\ HeadSpan = <<OffsetOf(Files(cur)[p[1]], p[2]), At(Files(cur), p).size>>
                /\ Indexable
<1> DEFINE R == ToRead(cur)
<1>1. R \subseteq Pairs /\ IsFiniteSet(R)
  BY ToReadFacts
<1>2. Cardinality(R) \in Nat /\ n + 1 \in 1..Cardinality(R)
  BY <1>1, SidecarLists, FS_CardinalityType
<1>3. PICK p \in R : Rank(R, p) = n + 1
  BY <1>1, <1>2, RankOnto
<1>4. \A q \in R : /\ Rank(R, q) \in Nat
                    /\ (Precedes(q, p) <=> Rank(R, q) < Rank(R, p))
                    /\ (Rank(R, q) = Rank(R, p) => q = p)
  <2>1. \A q \in R : Rank(R, q) \in 1..Cardinality(R)
    BY <1>1, RankFacts
  <2>2. \A q \in R : /\ (Precedes(q, p) <=> Rank(R, q) < Rank(R, p))
                      /\ (Rank(R, q) = Rank(R, p) => q = p)
    BY <1>1, RankFacts
  <2>3. QED
    BY <1>2, <2>1, <2>2
<1>5. \A k, c : Passed(cur, k, c) = {q \in R : Rank(R, q) <= k}
  BY DEF Passed
<1> HIDE DEF R
<1>6. \A q \in R : /\ (Rank(R, q) <= n <=> Precedes(q, p))
                    /\ (Rank(R, q) <= n + 1 <=> (Precedes(q, p) \/ q = p))
  BY <1>3, <1>4
<1> USE DEF R
<1>7. /\ HeadDgram = run.smd[cur].dgs[Rank(R, p)]
      /\ source = "smd" /\ HeadSpan = HeadDgram.info
  BY <1>3 DEF HeadDgram, File, HeadSpan
<1>8. /\ HeadDgram.ts = At(Files(cur), p).ts /\ HeadDgram.svc = At(Files(cur), p).svc
      /\ HeadDgram.roll = At(Files(cur), p).roll
      /\ HeadDgram.svc = L1Accept =>
           HeadSpan = <<OffsetOf(Files(cur)[p[1]], p[2]), At(Files(cur), p).size>>
  BY <1>7, SidecarLists
<1>9. HeadDgram.svc = L1Accept => Indexable
  <2>1. \A a, b : <<a, b>> # <<>>
    OBVIOUS
  <2>2. QED
    BY <1>7, <1>8, <2>1 DEF Indexable, NoInfo
<1>10. /\ \A c : Passed(cur, n, c) = {q \in R : Precedes(q, p)}
       /\ \A c, d : Passed(cur, n + 1, d) = Passed(cur, n, c) \cup {p}
  BY <1>5, <1>6
<1>11. QED
  BY <1>8, <1>9, <1>10

\* The place the head of the bigdata scan stands at.
LEMMA NextOfBigdata ==
  ASSUME run \in Runs, source = "bigdata", cur \in Streams, ~Hole(cur),
         chunk \in Nat, chunk < Len(Files(cur)), n \in Nat, n < Len(File.dgs)
  PROVE  LET p == <<chunk + 1, n + 1>>
         IN  /\ p \in ToRead(cur) /\ At(Files(cur), p) = HeadDgram /\ Indexable
             /\ \A q \in Passed(cur, n, chunk) : Precedes(q, p)
             /\ Passed(cur, n + 1, chunk) = Passed(cur, n, chunk) \cup {p}
             /\ HeadSpan = <<OffsetOf(Files(cur)[chunk + 1], n + 1), HeadDgram.size>>
<1> DEFINE p == <<chunk + 1, n + 1>>
<1>1. ToRead(cur) = Places(Files(cur)) /\ Files(cur) \in Seq(Chunks) /\ File = Files(cur)[chunk + 1]
  BY RunFacts DEF ToRead, File, Files
<1>2. chunk + 1 \in 1..Len(Files(cur)) /\ File # NoFile
  BY <1>1, RunFacts DEF Hole, Files
<1>3. Len(File.dgs) \in Nat
  BY <1>1, <1>2, PlacesAre
<1>4. n + 1 \in 1..Len(File.dgs)
  BY <1>3
<1>5. p \in ToRead(cur)
  BY <1>1, <1>2, <1>4, PlacesAre
<1>6. At(Files(cur), p) = HeadDgram
  BY <1>1 DEF At, HeadDgram
<1>7. \A q \in ToRead(cur) : q = <<q[1], q[2]>> /\ q[1] \in Nat /\ q[2] \in Nat
  BY <1>1, PlacesAre
<1>8. \A q \in Passed(cur, n, chunk) : Precedes(q, p)
  BY <1>7 DEF Passed, Precedes
<1>9. Passed(cur, n + 1, chunk) = Passed(cur, n, chunk) \cup {p}
  BY <1>5, <1>7 DEF Passed
<1>10. QED
  BY <1>1, <1>5, <1>6, <1>8, <1>9 DEF HeadSpan, Indexable

-----------------------------------------------------------------------------
(* What depends on the run alone stays as it is in every step.             *)

Holds(rs, es, s, P) ==
  /\ rs[s] = RecordsOf(Files(s), P)
  /\ \A store \in Stores : es[store][s] = EnvOf(store, Files(s), P)

LEMMA SameRun ==
  ASSUME run' = run, source' = source
  PROVE  /\ \A s : Sound(s)' <=> Sound(s)
         /\ \A s : Mirrored(s)' <=> Mirrored(s)
         /\ \A s : Found(s, ToRead(s))' <=> Holds(recs', env', s, ToRead(s))
         /\ \A s : Found(s, {})' <=> Holds(recs', env', s, {})
         /\ Found(cur, Passed(cur, n, chunk))' <=>
              Holds(recs', env', cur', Passed(cur', n', chunk'))
         /\ ChunkFollows' <=>
              /\ \A p \in Passed(cur', n', chunk') : Announced(Files(cur'), p) <= chunk'
              /\ chunk' = 0 \/ \E p \in Passed(cur', n', chunk') : Announced(Files(cur'), p) = chunk'
<1>1. \A s : Files(s)' = Files(s) /\ ToRead(s)' = ToRead(s)
  BY DEF Files, ToRead
<1>2. \A s : Mirrored(s)' <=> Mirrored(s)
  BY DEF Mirrored
<1>3. \A s : Sound(s)' <=> Sound(s)
  BY <1>1, <1>2 DEF Sound, Hole
<1>4. \A s : Found(s, ToRead(s))' <=> Holds(recs', env', s, ToRead(s))
  BY <1>1 DEF Found, Holds
<1>5. \A s : Found(s, {})' <=> Holds(recs', env', s, {})
  BY <1>1 DEF Found, Holds
<1>6. Passed(cur, n, chunk)' = Passed(cur', n', chunk')
  BY DEF Passed, ToRead, Files
<1>7. Files(cur)' = Files(cur')
  BY DEF Files
<1>8. Found(cur, Passed(cur, n, chunk))' <=>
              Holds(recs', env', cur', Passed(cur', n', chunk'))
  BY <1>6, <1>7 DEF Found, Holds
<1>9. ChunkFollows' <=>
              /\ \A p \in Passed(cur', n', chunk') : Announced(Files(cur'), p) <= chunk'
              /\ chunk' = 0 \/ \E p \in Passed(cur', n', chunk') : Announced(Files(cur'), p) = chunk'
  BY <1>6, <1>7 DEF ChunkFollows
<1>10. QED
  BY <1>2, <1>3, <1>4, <1>5, <1>8, <1>9

-----------------------------------------------------------------------------
(* Reading one dgram                                                       *)

\* What reading the head dgram changes, in one formula.
Advance ==
  /\ Reading /\ n' = n + 1
  /\ recs' = IF HeadDgram.svc = L1Accept /\ Indexable
             THEN [recs EXCEPT ![cur] = Append(@,
                    [ts |-> HeadDgram.ts, chunk |-> chunk, off |-> HeadSpan[1], size |-> HeadSpan[2]])]
             ELSE recs
  /\ env' = IF HeadDgram.svc \in DOMAIN EnvServiceStore
            THEN [env EXCEPT ![EnvServiceStore[HeadDgram.svc]][cur] = Append(@, HeadDgram.ts)]
            ELSE env
  /\ chunk' = IF source = "smd" /\ HeadDgram.svc = "Enable" /\ HeadDgram.roll > chunk
              THEN HeadDgram.roll ELSE chunk
  /\ UNCHANGED <<run, source, cur, index, status>>

LEMMA ReadsAdvance ==
  ASSUME RecordEvent \/ FollowRoll \/ RecordEnv \/ SkipDgram
  PROVE  Advance
<1>1. DOMAIN EnvServiceStore = {"SlowUpdate", "BeginStep", "BeginRun"}
  BY DEF EnvServiceStore
<1>2. CASE RecordEvent
  BY <1>1, <1>2 DEF RecordEvent, Advance, L1Accept
<1>3. CASE FollowRoll
  BY <1>1, <1>3 DEF FollowRoll, Advance, L1Accept
<1>4. CASE RecordEnv
  BY <1>1, <1>4 DEF RecordEnv, Advance, L1Accept
<1>5. CASE SkipDgram
  BY <1>1, <1>5 DEF SkipDgram, Advance, L1Accept
<1>6. QED
  BY <1>2, <1>3, <1>4, <1>5

\* Only the stream being scanned finds anything.
LEMMA OthersKeep ==
  ASSUME Domains, cur \in Streams, Advance
  PROVE  /\ Domains'
         /\ \A s \in Streams : s # cur =>
              recs'[s] = recs[s] /\ \A store \in Stores : env'[store][s] = env[store][s]
<1>1. DOMAIN EnvServiceStore = {"SlowUpdate", "BeginStep", "BeginRun"}
      /\ \A svc \in DOMAIN EnvServiceStore : EnvServiceStore[svc] \in Stores
  BY DEF EnvServiceStore, Stores
<1>2. DOMAIN recs' = Streams /\ \A s \in Streams : s # cur => recs'[s] = recs[s]
  BY DEF Advance, Domains
<1>3. /\ DOMAIN env' = Stores /\ \A store \in Stores : DOMAIN env'[store] = Streams
      /\ \A s \in Streams : s # cur => \A store \in Stores : env'[store][s] = env[store][s]
  BY <1>1 DEF Advance, Domains
<1>4. QED
  BY <1>2, <1>3 DEF Domains

\* The head, if it stands for the place p behind what was passed, adds p.
LEMMA AdvanceFinds ==
  ASSUME run \in Runs, Domains, cur \in Streams, Advance,
         NEW P, P \subseteq Places(Files(cur)), Found(cur, P),
         NEW p \in Places(Files(cur)), \A q \in P : Precedes(q, p),
         HeadDgram.ts = At(Files(cur), p).ts, HeadDgram.svc = At(Files(cur), p).svc,
         HeadDgram.svc = L1Accept =>
           /\ HeadSpan = <<OffsetOf(Files(cur)[p[1]], p[2]), At(Files(cur), p).size>>
           /\ Indexable /\ chunk = p[1] - 1
  PROVE  Holds(recs', env', cur, P \cup {p})
<1>1. /\ RecordsOf(Files(cur), P \cup {p}) =
              IF At(Files(cur), p).svc = L1Accept
              THEN Append(RecordsOf(Files(cur), P), RecordAt(Files(cur), p)) ELSE RecordsOf(Files(cur), P)
      /\ \A store : EnvOf(store, Files(cur), P \cup {p}) =
              IF p \in Feeding(store, Files(cur))
              THEN Append(EnvOf(store, Files(cur), P), At(Files(cur), p).ts)
              ELSE EnvOf(store, Files(cur), P)
  BY FoundMore
<1>2. recs'[cur] = RecordsOf(Files(cur), P \cup {p})
  <2>1. recs[cur] = RecordsOf(Files(cur), P)
    BY DEF Found
  <2>2. CASE HeadDgram.svc = L1Accept
    <3>1. [ts |-> HeadDgram.ts, chunk |-> chunk, off |-> HeadSpan[1], size |-> HeadSpan[2]]
            = RecordAt(Files(cur), p)
      BY <2>2 DEF RecordAt
    <3>2. recs'[cur] = Append(recs[cur], RecordAt(Files(cur), p))
      BY <2>2, <3>1 DEF Advance, Domains
    <3>3. QED
      BY <1>1, <2>1, <2>2, <3>2
  <2>3. CASE HeadDgram.svc # L1Accept
    BY <1>1, <2>1, <2>3 DEF Advance
  <2>4. QED
    BY <2>2, <2>3
<1>3. ASSUME NEW store \in Stores
      PROVE  env'[store][cur] = EnvOf(store, Files(cur), P \cup {p})
  <2>1. env[store][cur] = EnvOf(store, Files(cur), P)
    BY DEF Found
  <2>2. p \in Feeding(store, Files(cur)) <=>
          HeadDgram.svc \in DOMAIN EnvServiceStore /\ EnvServiceStore[HeadDgram.svc] = store
    BY DEF Feeding
  <2>3. env'[store][cur] = IF HeadDgram.svc \in DOMAIN EnvServiceStore
                              /\ EnvServiceStore[HeadDgram.svc] = store
                           THEN Append(env[store][cur], HeadDgram.ts) ELSE env[store][cur]
    <3>1. \A svc \in DOMAIN EnvServiceStore : EnvServiceStore[svc] \in Stores
      BY DEF EnvServiceStore, Stores
    <3>2. QED
      BY <3>1 DEF Advance, Domains
  <2>4. QED
    BY <1>1, <2>1, <2>2, <2>3
<1>4. QED
  BY <1>2, <1>3 DEF Holds

\* At an event the SMD scan is in the chunk the event lies in.
LEMMA RollsFollow ==
  ASSUME run \in Runs, source = "smd", cur \in Streams, Mirrored(cur),
         chunk \in Nat, ChunkFollows,
         NEW p \in ToRead(cur), At(Files(cur), p).svc = L1Accept,
         Passed(cur, n, chunk) = {q \in ToRead(cur) : Precedes(q, p)}
  PROVE  chunk = p[1] - 1
<1> DEFINE before == {q \in Places(Files(cur)) : Precedes(q, p)}
<1>1. p \in EventPlaces(Files(cur)) /\ p[1] \in Nat /\ p[1] >= 1
  <2>1. p \in Places(Files(cur)) /\ Files(cur) \in Seq(Chunks)
    BY ToReadFacts, RunFacts
  <2>2. p[1] \in 1..Len(Files(cur))
    BY <2>1, PlacesAre
  <2>3. QED
    BY <2>1, <2>2 DEF EventPlaces
<1>2. /\ \A q \in before : Announced(Files(cur), q) <= p[1] - 1
      /\ p[1] = 1 \/ \E q \in before : Announced(Files(cur), q) = p[1] - 1
  BY <1>1, RunFacts DEF RollsAnnounced
<1>3. \A q \in before : q \notin ToRead(cur) => Announced(Files(cur), q) = 0
  BY ToReadFacts DEF Announced, L1Accept
<1>4. Passed(cur, n, chunk) \subseteq before
  BY ToReadFacts
<1>5. chunk <= p[1] - 1
  BY <1>1, <1>2, <1>4 DEF ChunkFollows
<1>6. p[1] - 1 <= chunk
  <2>1. CASE p[1] = 1
    BY <2>1
  <2>2. ASSUME NEW q \in before, Announced(Files(cur), q) = p[1] - 1, p[1] # 1
        PROVE  p[1] - 1 <= chunk
    <3>1. q \in Passed(cur, n, chunk)
      BY <1>1, <1>3, <2>2
    <3>2. QED
      BY <2>2, <3>1 DEF ChunkFollows
  <2>3. QED
    BY <1>2, <2>1, <2>2
<1>7. QED
  BY <1>1, <1>5, <1>6

\* Reading goes on with the invariant: the place read is found.
LEMMA AdvancePreserves ==
  ASSUME IInv, Advance
  PROVE  IInv'
<1>1. status = "scan" /\ status' = "scan" /\ run \in Runs /\ Domains /\ Chosen /\ Scanning
      /\ run' = run /\ source' = source /\ cur' = cur /\ n' = n + 1
  BY DEF IInv, Advance, Reading
<1>2. source \in {"smd", "bigdata"} /\ cur \in Streams /\ chunk \in Nat /\ n \in Nat
  BY <1>1 DEF Chosen, Source, Scanning
<1>3. Domains' /\ \A s \in Streams : s # cur =>
        recs'[s] = recs[s] /\ \A store \in Stores : env'[store][s] = env[store][s]
  BY <1>1, <1>2, OthersKeep
<1>4. \A s \in Streams : \A P : s # cur => (Holds(recs', env', s, P) <=> Found(s, P))
  BY <1>3 DEF Holds, Found
<1>5. \A s \in Streams : cur \in Nat /\ s \in Nat
  BY <1>2, StreamsAssumption
<1>6. /\ \A s \in Streams : s < cur => Sound(s)' /\ Found(s, ToRead(s))'
      /\ \A s \in Streams : s > cur => Found(s, {})'
  <2>1. \A s \in Streams : s < cur => Sound(s) /\ Found(s, ToRead(s)) /\ s # cur
    BY <1>1, <1>5 DEF Scanning
  <2>2. \A s \in Streams : s > cur => Found(s, {}) /\ s # cur
    BY <1>1, <1>5 DEF Scanning
  <2>3. QED
    BY <1>1, <1>4, <2>1, <2>2, SameRun
<1>7. n < Len(File.dgs) /\ Opens
  BY DEF Advance, Reading
<1>8. CASE source = "bigdata"
  <2>1. chunk < Len(Files(cur)) /\ Inside /\ Found(cur, Passed(cur, n, chunk)) /\ ~Hole(cur)
    BY <1>1, <1>7, <1>8 DEF Scanning, Inside, Opens
  <2>2. chunk' = chunk
    BY <1>8 DEF Advance
  <2> DEFINE p == <<chunk + 1, n + 1>>
             P == Passed(cur, n, chunk)
  <2>3. /\ p \in ToRead(cur) /\ At(Files(cur), p) = HeadDgram /\ Indexable
        /\ \A q \in P : Precedes(q, p)
        /\ Passed(cur, n + 1, chunk) = P \cup {p}
        /\ HeadSpan = <<OffsetOf(Files(cur)[chunk + 1], n + 1), HeadDgram.size>>
    BY <1>1, <1>2, <1>7, <1>8, <2>1, NextOfBigdata
  <2>4. p[1] = chunk + 1 /\ p[2] = n + 1 /\ chunk = p[1] - 1
    BY <1>2
  <2>5. P \subseteq Places(Files(cur)) /\ p \in Places(Files(cur))
    BY <1>1, <1>2, <2>3, ToReadFacts DEF Passed
  <2> HIDE DEF p, P
  <2>6. Holds(recs', env', cur, P \cup {p})
    BY <1>1, <1>2, <2>1, <2>3, <2>4, <2>5, AdvanceFinds DEF P
  <2>7. Found(cur, Passed(cur, n, chunk))'
    BY <1>1, <2>2, <2>3, <2>6, SameRun
  <2>8. Inside'
    <3>1. File' = File /\ Files(cur)' = Files(cur)
      BY <1>1, <2>2 DEF File, Files
    <3>2. Len(File.dgs) \in Nat
      <4>1. Files(cur) \in Seq(Chunks) /\ Len(Files(cur)) \in Nat /\ File = Files(cur)[chunk + 1]
        BY <1>1, <1>2, <1>8, RunFacts DEF File, Files
      <4>2. chunk + 1 \in 1..Len(Files(cur)) /\ File # NoFile
        BY <1>2, <2>1, <4>1 DEF Hole, Files
      <4>3. QED
        BY <4>1, <4>2, PlacesAre
    <3>3. n + 1 <= Len(File.dgs)
      BY <1>2, <1>7, <3>2
    <3>4. \A c \in 1..chunk : Files(cur)[c].tail = "clean"
      BY <1>8, <2>1 DEF Inside
    <3>5. QED
      BY <1>1, <2>1, <2>2, <3>1, <3>3, <3>4 DEF Inside
  <2>9. Scanning'
    BY <1>1, <1>2, <1>6, <1>8, <2>2, <2>7, <2>8 DEF Scanning
  <2>10. QED
    BY <1>1, <1>3, <2>9 DEF IInv, Chosen, Source
<1>9. CASE source = "smd"
  <2>1. run.smd[cur] \in [dgs : Seq(SmdDgram), tail : Tails] /\ File = run.smd[cur]
    BY <1>1, <1>2, <1>7, <1>9, RunFacts DEF Opens, File
  <2>2. Len(File.dgs) \in Nat /\ n + 1 \in 1..Len(File.dgs) /\ HeadDgram \in SmdDgram
    BY <1>2, <1>7, <2>1 DEF HeadDgram
  <2>3. chunk' \in Nat
    BY <1>2, <2>2 DEF Advance, SmdDgram
  <2>4. Inside'
    <3>1. File' = File
      BY <1>1, <1>9 DEF File
    <3>2. QED
      BY <1>1, <1>9, <2>2, <3>1 DEF Inside
  <2>5. ASSUME Mirrored(cur)
        PROVE  Found(cur, Passed(cur, n, chunk))' /\ ChunkFollows'
    <3>1. Found(cur, Passed(cur, n, chunk)) /\ ChunkFollows
      BY <1>1, <1>9, <2>5 DEF Scanning
    <3>2. PICK p \in ToRead(cur) :
           /\ \A c : Passed(cur, n, c) = {q \in ToRead(cur) : Precedes(q, p)}
           /\ \A c, d : Passed(cur, n + 1, d) = Passed(cur, n, c) \cup {p}
           /\ HeadDgram.ts = At(Files(cur), p).ts /\ HeadDgram.svc = At(Files(cur), p).svc
           /\ HeadDgram.roll = At(Files(cur), p).roll
           /\ HeadDgram.svc = L1Accept =>
                /\ HeadSpan = <<OffsetOf(Files(cur)[p[1]], p[2]), At(Files(cur), p).size>>
                /\ Indexable
      BY <1>1, <1>2, <1>7, <1>9, <2>1, <2>5, NextOfSidecar
    <3>3. HeadDgram.svc = L1Accept => chunk = p[1] - 1
      BY <1>1, <1>2, <1>9, <2>5, <3>1, <3>2, RollsFollow
    <3> DEFINE P == Passed(cur, n, chunk)
    <3>4. P \subseteq Places(Files(cur)) /\ p \in Places(Files(cur)) /\ \A q \in P : Precedes(q, p)
      BY <1>1, <1>2, <3>2, ToReadFacts
    <3>5. Passed(cur', n', chunk') = P \cup {p}
      BY <1>1, <3>2
    <3>6. Found(cur, P)
      BY <3>1
    <3> HIDE DEF P
    <3>7. Holds(recs', env', cur, P \cup {p})
      BY <1>1, <1>2, <3>2, <3>3, <3>4, <3>6, AdvanceFinds
    <3>8. Found(cur, Passed(cur, n, chunk))'
      BY <1>1, <3>5, <3>7, SameRun
    <3>9. /\ \A q \in P : Announced(Files(cur), q) <= chunk
          /\ chunk = 0 \/ \E q \in P : Announced(Files(cur), q) = chunk
      BY <3>1 DEF ChunkFollows, P
    <3>10. Announced(Files(cur), p) = IF HeadDgram.svc = "Enable" THEN HeadDgram.roll ELSE 0
      BY <3>2 DEF Announced
    <3>11. /\ chunk' = IF HeadDgram.svc = "Enable" /\ HeadDgram.roll > chunk
                       THEN HeadDgram.roll ELSE chunk
           /\ HeadDgram.roll \in Nat
      BY <1>9, <2>2 DEF Advance, SmdDgram
    <3>12. chunk <= chunk' /\ Announced(Files(cur), p) <= chunk'
           /\ (chunk' = chunk \/ Announced(Files(cur), p) = chunk')
      BY <1>2, <3>10, <3>11
    <3>13. \A q \in P : Announced(Files(cur), q) \in Nat
      <4>1. \A q \in P : At(Files(cur), q) \in Dgram
        BY <1>1, <1>2, <3>4, RunFacts, PlacesAre
      <4>2. QED
        BY <4>1 DEF Announced, Dgram
    <3>14. /\ \A q \in P \cup {p} : Announced(Files(cur), q) <= chunk'
           /\ chunk' = 0 \/ \E q \in P \cup {p} : Announced(Files(cur), q) = chunk'
      BY <1>2, <2>3, <3>9, <3>12, <3>13
    <3>15. ChunkFollows'
      BY <1>1, <3>5, <3>14, SameRun
    <3>16. QED
      BY <3>8, <3>15
  <2>6. Scanning'
    <3>1. Mirrored(cur)' <=> Mirrored(cur)
      BY <1>1 DEF Mirrored
    <3>2. QED
      BY <1>1, <1>2, <1>6, <1>9, <2>3, <2>4, <2>5, <3>1 DEF Scanning
  <2>7. QED
    BY <1>1, <1>3, <2>6 DEF IInv, Chosen, Source
<1>10. QED
  BY <1>2, <1>8, <1>9

-----------------------------------------------------------------------------
(* From file to file and from stream to stream                             *)

\* A stream about to be scanned, the ones before it read to their end.
Start ==
  /\ run \in Runs /\ Chosen
  /\ cur \in Streams /\ chunk = 0 /\ n = 0
  /\ \A s \in Streams : s < cur => Sound(s) /\ Found(s, ToRead(s))
  /\ \A s \in Streams : s >= cur => Found(s, {})

\* A file that opens is a file, in a chunk set without a hole.
LEMMA FileIs ==
  ASSUME run \in Runs, source \in {"smd", "bigdata"}, cur \in Streams, Opens,
         source = "bigdata" => chunk \in Nat /\ chunk < Len(Files(cur))
  PROVE  /\ Len(File.dgs) \in Nat
         /\ source = "smd" => File = run.smd[cur]
         /\ source = "bigdata" => /\ chunk + 1 \in 1..Len(Files(cur))
                                  /\ File = Files(cur)[chunk + 1] /\ File # NoFile
<1>1. CASE source = "smd"
  <2>1. run.smd[cur] \in [dgs : Seq(SmdDgram), tail : Tails] /\ File = run.smd[cur]
    BY <1>1, RunFacts DEF Opens, File
  <2>2. QED
    BY <1>1, <2>1
<1>2. CASE source = "bigdata"
  <2>1. Files(cur) \in Seq(Chunks) /\ Len(Files(cur)) \in Nat /\ File = Files(cur)[chunk + 1]
    BY <1>2, RunFacts DEF File, Files
  <2>2. chunk + 1 \in 1..Len(Files(cur)) /\ File # NoFile
    BY <1>2, <2>1 DEF Opens, Hole, Files
  <2>3. Len(File.dgs) \in Nat
    BY <2>1, <2>2, PlacesAre
  <2>4. QED
    BY <1>2, <2>1, <2>2, <2>3
<1>3. QED
  BY <1>1, <1>2

LEMMA StartScans == Start => Scanning
<1> SUFFICES ASSUME Start
             PROVE  Scanning
  OBVIOUS
<1>1. run \in Runs /\ source \in {"smd", "bigdata"} /\ cur \in Streams /\ chunk = 0 /\ n = 0
  BY DEF Start, Chosen, Source
<1>2. Files(cur) \in Seq(Chunks) /\ Len(Files(cur)) \in Nat /\ Len(Files(cur)) >= 1
  BY <1>1, RunFacts
<1>3. Opens => Inside
  <2> SUFFICES ASSUME Opens
               PROVE  Inside
    OBVIOUS
  <2>1. Len(File.dgs) \in Nat
    BY <1>1, <1>2, FileIs
  <2>2. QED
    BY <1>1, <1>2, <2>1 DEF Inside
<1>4. Passed(cur, n, chunk) = {}
  <2>1. ToRead(cur) \subseteq Places(Files(cur)) /\ ToRead(cur) \subseteq Pairs /\ IsFiniteSet(ToRead(cur))
    BY <1>1, ToReadFacts
  <2>2. CASE source = "smd"
    <3>1. Cardinality(ToRead(cur)) \in Nat
          /\ \A p \in ToRead(cur) : Rank(ToRead(cur), p) \in 1..Cardinality(ToRead(cur))
      BY <2>1, RankFacts
    <3>2. \A p \in ToRead(cur) : ~(Rank(ToRead(cur), p) <= n)
      BY <1>1, <3>1
    <3>3. QED
      BY <2>2, <3>2 DEF Passed
  <2>3. CASE source = "bigdata"
    <3>1. \A p \in ToRead(cur) : p[1] \in 1..Len(Files(cur)) /\ p[2] \in 1..Len(Files(cur)[p[1]].dgs)
      BY <1>2, <2>1, PlacesAre
    <3>2. \A p \in ToRead(cur) : ~(p[1] <= chunk) /\ ~(p[2] <= n)
      BY <1>1, <1>2, <3>1
    <3>3. QED
      BY <2>3, <3>2 DEF Passed
  <2>4. QED
    BY <1>1, <2>2, <2>3
<1>5. \A s \in Streams : s \in Nat
  BY StreamsAssumption
<1>6. Found(cur, {}) /\ \A s \in Streams : s > cur => Found(s, {})
  BY <1>1, <1>5 DEF Start
<1>7. ChunkFollows
  BY <1>1, <1>4 DEF ChunkFollows
<1>8. QED
  BY <1>1, <1>3, <1>4, <1>6, <1>7 DEF Scanning, Start

LEMMA SelectPreserves ==
  ASSUME IInv, Select
  PROVE  IInv'
<1>1. status = "select" /\ status' = "scan" /\ run \in Runs /\ Domains
      /\ cur = Min(Streams) /\ chunk = 0 /\ n = 0 /\ source' = Source
      /\ UNCHANGED <<run, cur, chunk, n, recs, env>>
  BY DEF IInv, Select
<1>2. cur \in Streams /\ \A s \in Streams : ~(s < cur)
  <2>1. Streams \subseteq Nat /\ cur \in Streams /\ \A s \in Streams : cur <= s
    BY <1>1, StreamsAssumption, MinProperties
  <2>2. cur \in Nat /\ \A s \in Streams : s \in Nat
    BY <2>1
  <2>3. QED
    BY <2>1, <2>2
<1>3. \A s \in Streams : recs[s] = <<>> /\ \A store \in Stores : env[store][s] = <<>>
  BY <1>1 DEF IInv
<1>4. \A files : RecordsOf(files, {}) = <<>> /\ \A store : EnvOf(store, files, {}) = <<>>
  BY FoundNothing
<1>5. Chosen'
  BY <1>1 DEF Chosen, Source
<1>6. \A s \in Streams : Found(s, {})'
  BY <1>1, <1>3, <1>4 DEF Found
<1>7. Start'
  BY <1>1, <1>2, <1>5, <1>6 DEF Start
<1>8. (Start => Scanning)'
  BY StartScans, PTL
<1>9. Domains'
  BY <1>1 DEF Domains
<1>10. QED
  BY <1>1, <1>5, <1>7, <1>8, <1>9 DEF IInv

\* At the end of its last file a stream is read and fit.
LEMMA EndOfStream ==
  ASSUME IInv, ~Tolerate, EndsRegularly, LastFile
  PROVE  Sound(cur) /\ Found(cur, ToRead(cur))
<1>1. run \in Runs /\ source \in {"smd", "bigdata"} /\ Scanning /\ cur \in Streams
      /\ chunk \in Nat /\ n \in Nat /\ Opens /\ n = Len(File.dgs) /\ File.tail = "clean" /\ Inside
  BY DEF IInv, Chosen, Source, EndsRegularly, AtEndOfFile, Scanning
<1>2. /\ ToRead(cur) \subseteq Places(Files(cur)) /\ ToRead(cur) \subseteq Pairs
      /\ IsFiniteSet(ToRead(cur))
  BY <1>1, ToReadFacts
<1>3. CASE source = "smd"
  <2>1. Mirrored(cur) /\ File = run.smd[cur]
    BY <1>1, <1>3 DEF Opens, File, Mirrored
  <2>2. n = Cardinality(ToRead(cur))
    BY <1>1, <1>3, <2>1, SidecarLists
  <2>3. \A p \in ToRead(cur) : Rank(ToRead(cur), p) \in 1..n
    BY <1>2, <2>2, RankFacts
  <2>4. Passed(cur, n, chunk) = ToRead(cur)
    BY <1>1, <1>3, <2>3 DEF Passed
  <2>5. QED
    BY <1>1, <1>3, <2>1, <2>4 DEF Scanning, Sound
<1>4. CASE source = "bigdata"
  <2>1. chunk + 1 = Len(Files(cur)) /\ chunk < Len(Files(cur)) /\ ~Hole(cur)
        /\ \A c \in 1..chunk : Files(cur)[c].tail = "clean"
    BY <1>1, <1>4 DEF LastFile, Inside, Opens, Files
  <2>2. File = Files(cur)[chunk + 1] /\ Files(cur) \in Seq(Chunks)
    BY <1>1, <1>4, <2>1, FileIs, RunFacts
  <2>3. \A c \in 1..Len(Files(cur)) : c \in 1..chunk \/ c = chunk + 1
    BY <1>1, <2>1
  <2>4. Sound(cur)
    BY <1>1, <1>4, <2>1, <2>2, <2>3 DEF Sound
  <2>5. \A p \in ToRead(cur) : p[1] \in 1..Len(Files(cur)) /\ p[2] \in 1..Len(Files(cur)[p[1]].dgs)
    BY <1>2, <2>2, PlacesAre
  <2>6. \A p \in ToRead(cur) : p[1] <= chunk \/ (p[1] = chunk + 1 /\ p[2] <= n)
    BY <1>1, <2>2, <2>3, <2>5
  <2>7. Passed(cur, n, chunk) = ToRead(cur)
    BY <1>4, <2>6 DEF Passed
  <2>8. QED
    BY <1>1, <1>4, <2>4, <2>7 DEF Scanning
<1>5. QED
  BY <1>1, <1>3, <1>4

LEMMA NextChunkPreserves ==
  ASSUME IInv, ~Tolerate, NextChunk
  PROVE  IInv'
<1>1. /\ status = "scan" /\ status' = "scan" /\ run \in Runs /\ Domains /\ Chosen
      /\ Scanning /\ cur \in Streams /\ chunk \in Nat /\ n \in Nat
      /\ Opens /\ n = Len(File.dgs) /\ File.tail = "clean" /\ Inside
      /\ source = "bigdata" /\ chunk + 1 # Len(Files(cur))
      /\ chunk' = chunk + 1 /\ n' = 0 /\ UNCHANGED <<run, source, cur, recs, env>>
  BY DEF IInv, NextChunk, EndsRegularly, AtEndOfFile, Scanning, LastFile, Files, Chosen, Source
<1>2. /\ chunk < Len(Files(cur)) /\ \A c \in 1..chunk : Files(cur)[c].tail = "clean"
      /\ Files(cur) \in Seq(Chunks) /\ Len(Files(cur)) \in Nat
  BY <1>1, RunFacts DEF Inside
<1>3. File = Files(cur)[chunk + 1] /\ ~Hole(cur)
  BY <1>1, <1>2, FileIs DEF Opens
<1>4. chunk + 1 < Len(Files(cur)) /\ chunk + 2 \in 1..Len(Files(cur))
      /\ \A c \in 1..(chunk + 1) : c \in 1..chunk \/ c = chunk + 1
  BY <1>1, <1>2
<1>5. Inside'
  <2>1. File' = Files(cur)[chunk + 2] /\ Files(cur)' = Files(cur)
    BY <1>1 DEF File, Files
  <2>2. Files(cur)[chunk + 2] # NoFile
    BY <1>3, <1>4 DEF Hole, Files
  <2>3. Len(Files(cur)[chunk + 2].dgs) \in Nat
    BY <1>2, <1>4, <2>2, PlacesAre
  <2>4. \A c \in 1..(chunk + 1) : Files(cur)[c].tail = "clean"
    BY <1>1, <1>2, <1>3, <1>4
  <2>5. QED
    BY <1>1, <1>4, <2>1, <2>3, <2>4 DEF Inside
<1>6. Passed(cur', n', chunk') = Passed(cur, n, chunk)
  <2>1. ToRead(cur) \subseteq Places(Files(cur))
    BY <1>1, ToReadFacts
  <2>2. \A p \in ToRead(cur) : p[1] \in 1..Len(Files(cur)) /\ p[2] \in 1..Len(Files(cur)[p[1]].dgs)
    BY <1>2, <2>1, PlacesAre
  <2>3. \A p \in ToRead(cur) : p[1] \in Nat /\ p[2] \in Nat /\ p[2] >= 1
                                /\ (p[1] = chunk + 1 => p[2] <= n)
    BY <1>1, <1>2, <1>3, <2>2, FileIs
  <2>4. \A p \in ToRead(cur) : (p[1] <= chunk + 1 \/ (p[1] = chunk + 2 /\ p[2] <= 0)) <=>
                                (p[1] <= chunk \/ (p[1] = chunk + 1 /\ p[2] <= n))
    BY <1>1, <2>3
  <2>5. QED
    BY <1>1, <2>4 DEF Passed
<1>7. Found(cur, Passed(cur, n, chunk))'
  <2>1. Found(cur, Passed(cur, n, chunk))
    BY <1>1 DEF Scanning
  <2>2. QED
    BY <1>1, <1>6, <2>1, SameRun DEF Found, Holds
<1>8. \A s, P : Holds(recs', env', s, P) <=> Found(s, P)
  BY <1>1 DEF Holds, Found
<1>9. /\ \A s \in Streams : s < cur => Sound(s)' /\ Found(s, ToRead(s))'
      /\ \A s \in Streams : s > cur => Found(s, {})'
  BY <1>1, <1>8, SameRun DEF Scanning
<1>10. Scanning'
  BY <1>1, <1>5, <1>7, <1>9 DEF Scanning
<1>11. QED
  BY <1>1, <1>10 DEF IInv, Chosen, Source, Domains

LEMMA NextStreamPreserves ==
  ASSUME IInv, ~Tolerate, NextStream
  PROVE  IInv'
<1>1. /\ status = "scan" /\ run \in Runs /\ Domains /\ Chosen /\ Scanning /\ cur \in Streams
      /\ chunk' = 0 /\ UNCHANGED <<run, source, recs, env, index>>
      /\ EndsRegularly /\ LastFile
  BY DEF IInv, NextStream, EndsRegularly, AtEndOfFile, Scanning
<1> DEFINE later == {s \in Streams : s > cur}
<1>2. IF later = {} THEN status' = "merge" ELSE cur' = Min(later) /\ n' = 0 /\ status' = "scan"
  BY <1>1 DEF NextStream
<1>3. \A s \in Streams : s \in Nat /\ cur \in Nat
  BY <1>1, StreamsAssumption
<1>4. \A s \in Streams : s <= cur => Sound(s) /\ Found(s, ToRead(s))
  <2>1. Sound(cur) /\ Found(cur, ToRead(cur))
    BY <1>1, EndOfStream
  <2>2. \A s \in Streams : s < cur => Sound(s) /\ Found(s, ToRead(s))
    BY <1>1 DEF Scanning
  <2>3. QED
    BY <1>3, <2>1, <2>2
<1>5. \A s, P : Holds(recs', env', s, P) <=> Found(s, P)
  BY <1>1 DEF Holds, Found
<1>6. \A s \in Streams : s <= cur => Sound(s)' /\ Found(s, ToRead(s))'
  BY <1>1, <1>4, <1>5, SameRun
<1>7. \A s \in Streams : s > cur => Found(s, {})'
  BY <1>1, <1>5, SameRun DEF Scanning
<1>8. Domains' /\ Chosen'
  BY <1>1 DEF Domains, Chosen, Source
<1>9. CASE later = {}
  <2>1. \A s \in Streams : s <= cur
    BY <1>3, <1>9
  <2>2. Scanned'
    BY <1>6, <2>1 DEF Scanned
  <2>3. QED
    BY <1>1, <1>2, <1>8, <1>9, <2>2 DEF IInv
<1>10. CASE later # {}
  <2>1. Min(later) \in later /\ \A s \in later : Min(later) <= s
    BY <1>3, <1>10, MinProperties
  <2>2. cur' \in Streams /\ cur' > cur /\ \A s \in Streams : s > cur => cur' <= s
    BY <1>2, <1>10, <2>1
  <2>3. \A s \in Streams : /\ (s < cur' => s <= cur)
                           /\ (s >= cur' => s > cur)
    BY <1>3, <2>2
  <2>4. Start'
    BY <1>1, <1>2, <1>6, <1>7, <1>8, <1>10, <2>2, <2>3 DEF Start
  <2>5. (Start => Scanning)'
    BY StartScans, PTL
  <2>6. QED
    BY <1>1, <1>2, <1>8, <1>10, <2>4, <2>5 DEF IInv
<1>11. QED
  BY <1>9, <1>10

LEMMA RefusalPreserves ==
  ASSUME IInv, OpenFails \/ (~Tolerate /\ Truncated) \/ DuplicateRaises
  PROVE  IInv'
<1>1. /\ status' = "raised" /\ UNCHANGED <<run, source, cur, chunk, n, recs, env, index>>
      /\ status # "select"
  BY DEF OpenFails, Truncated, DuplicateRaises, AtEndOfFile
<1>2. run \in Runs /\ Domains /\ Chosen
  BY <1>1 DEF IInv
<1>3. Defective
  <2>1. CASE OpenFails
    <3>1. cur \in Streams /\ IF source = "smd" THEN run.smd[cur] = NoFile ELSE Hole(cur)
      BY <2>1 DEF OpenFails, IInv, Scanning
    <3>2. QED
      BY <3>1 DEF Defective
  <2>2. CASE ~Tolerate /\ Truncated
    <3>1. Scanning /\ cur \in Streams /\ Opens /\ Inside /\ File.tail # "clean"
          /\ chunk \in Nat /\ source \in {"smd", "bigdata"}
      BY <2>2 DEF Truncated, AtEndOfFile, IInv, Scanning, Chosen, Source
    <3>2. CASE source = "smd"
      BY <3>1, <3>2 DEF Defective, File
    <3>3. CASE source = "bigdata"
      <4>1. chunk + 1 \in 1..Len(Files(cur)) /\ File = Files(cur)[chunk + 1]
        BY <1>2, <3>1, <3>3, FileIs DEF Inside
      <4>2. QED
        BY <3>1, <3>3, <4>1 DEF Defective, Files
    <3>4. QED
      BY <3>1, <3>2, <3>3
  <2>3. CASE DuplicateRaises
    BY <2>3 DEF DuplicateRaises, Duplicate, Defective
  <2>4. QED
    BY <2>1, <2>2, <2>3
<1>4. Defective'
  BY <1>1, <1>3 DEF Defective, Hole
<1>5. Domains' /\ Chosen'
  BY <1>1, <1>2 DEF Domains, Chosen, Source
<1>6. QED
  BY <1>1, <1>4, <1>5 DEF IInv, Chosen

\* The merge of records, for any clamp.
MergedOf(rs, clamp) ==
  LET Has(s, t) == \E i \in 1..Len(rs[s]) : rs[s][i].ts = t
      all == UNION {{rs[s][i].ts : i \in 1..Len(rs[s])} : s \in Streams}
      kept == {t \in all : clamp = {} \/ \E s \in clamp : Has(s, t)}
  IN  [t \in kept |->
         [s \in {r \in Streams : Has(r, t)} |->
            Span(rs[s][CHOOSE i \in 1..Len(rs[s]) : rs[s][i].ts = t])]]

LEMMA MergedIs == Merged = MergedOf(recs, Clamp)
  BY DEF Merged, MergedOf, Contributes, RecordOf

LEMMA MergePreserves ==
  ASSUME IInv, MergeStreams
  PROVE  IInv'
<1>1. /\ status = "merge" /\ ~Duplicate /\ index' = Merged /\ status' = "done"
      /\ UNCHANGED <<run, source, cur, chunk, n, recs, env>>
  BY DEF MergeStreams
<1>2. run \in Runs /\ Domains /\ Chosen /\ Scanned
  BY <1>1 DEF IInv
<1>3. Domains' /\ Chosen' /\ ~Duplicate'
  BY <1>1, <1>2 DEF Domains, Chosen, Source, Duplicate
<1>4. Scanned'
  <2>1. \A s, P : Holds(recs', env', s, P) <=> Found(s, P)
    BY <1>1 DEF Holds, Found
  <2>2. QED
    BY <1>1, <1>2, <2>1, SameRun DEF Scanned
<1>5. index' = Merged'
  <2>1. (Merged = MergedOf(recs, Clamp))'
    BY MergedIs, PTL
  <2>2. Clamp' = Clamp
    BY <1>1 DEF Clamp
  <2>3. QED
    BY <1>1, <2>1, <2>2, MergedIs
<1>6. QED
  BY <1>1, <1>3, <1>4, <1>5 DEF IInv

LEMMA StutterPreserves ==
  ASSUME IInv, UNCHANGED vars
  PROVE  IInv'
<1>1. UNCHANGED <<run, source, cur, chunk, n, recs, env, index, status>>
  BY DEF vars
<1>2. \A s, P : Holds(recs', env', s, P) <=> Found(s, P)
  BY <1>1 DEF Holds, Found
<1>3. Passed(cur', n', chunk') = Passed(cur, n, chunk) /\ Files(cur') = Files(cur)
  BY <1>1
<1>4. Domains' = Domains /\ (Chosen <=> Chosen') /\ (Scanned <=> Scanned')
  BY <1>1, <1>2, SameRun DEF Domains, Chosen, Source, Scanned
<1>5. (Opens <=> Opens') /\ (Inside <=> Inside')
  BY <1>1 DEF Opens, Inside, File, Files, Hole
<1>6. ChunkFollows <=> ChunkFollows'
  BY <1>1, <1>3, SameRun DEF ChunkFollows
<1>7. Scanning => Scanning'
  BY <1>1, <1>2, <1>3, <1>5, <1>6, SameRun DEF Scanning
<1>8. (Defective <=> Defective') /\ (Duplicate <=> Duplicate')
  BY <1>1 DEF Defective, Duplicate, Hole
<1>9. Merged' = Merged
  <2>1. (Merged = MergedOf(recs, Clamp))'
    BY MergedIs, PTL
  <2>2. Clamp' = Clamp
    BY <1>1 DEF Clamp
  <2>3. QED
    BY <1>1, <2>1, <2>2, MergedIs
<1>10. QED
  BY <1>1, <1>4, <1>7, <1>8, <1>9 DEF IInv

LEMMA InitHolds == Init => IInv
<1> SUFFICES ASSUME Init
             PROVE  IInv
  OBVIOUS
<1>1. Domains
  BY DEF Init, Domains, Stores
<1>2. QED
  BY <1>1 DEF Init, IInv, Stores

LEMMA NextPreserves ==
  ASSUME ~Tolerate, IInv, [Next]_vars
  PROVE  IInv'
<1>1. CASE Select
  BY <1>1, SelectPreserves
<1>2. CASE OpenFails \/ Truncated \/ DuplicateRaises
  BY <1>2, RefusalPreserves
<1>3. CASE RecordEvent \/ FollowRoll \/ RecordEnv \/ SkipDgram
  BY <1>3, ReadsAdvance, AdvancePreserves
<1>4. CASE NextChunk
  BY <1>4, NextChunkPreserves
<1>5. CASE NextStream
  BY <1>5, NextStreamPreserves
<1>6. CASE MergeStreams
  BY <1>6, MergePreserves
<1>7. CASE UNCHANGED vars
  BY <1>7, StutterPreserves
<1>8. QED
  BY <1>1, <1>2, <1>3, <1>4, <1>5, <1>6, <1>7 DEF Next

\* A build that does not tolerate truncation goes through the files in order,
\* and its state tells at any time what it has found in them.
THEOREM Inductive == ASSUME ~Tolerate PROVE Spec => []IInv
<1>1. Init => IInv
  BY InitHolds
<1>2. IInv /\ [Next]_vars => IInv'
  BY NextPreserves
<1>3. QED
  BY <1>1, <1>2, PTL DEF Spec

-----------------------------------------------------------------------------
(* What the invariant says of a build that has ended                       *)

\* The events the sidecars have: all of them in the bigdata headers.
Survives(t) ==
  source = "smd" => run.timing = {} \/ \E s \in run.timing : HasEvent(s, t)

\* The records of a stream are the events of its files that survive.
LEMMA RecordsAre ==
  ASSUME run \in Runs, Chosen, Scanned, NEW s \in Streams
  PROVE  /\ Len(recs[s]) \in Nat
         /\ \A i \in 1..Len(recs[s]) : recs[s][i] \in EventsOnDisk(s) /\ Survives(recs[s][i].ts)
         /\ \A e \in EventsOnDisk(s) :
              Survives(e.ts) => \E i \in 1..Len(recs[s]) : recs[s][i] = e
<1> DEFINE E == EventPlaces(Files(s))
           Q == ToRead(s) \cap E
<1>1. PICK val : val = [p \in Q |-> RecordAt(Files(s), p)]
  OBVIOUS
<1>2. /\ DOMAIN val = Q /\ recs[s] = InOrder(val)
      /\ \A p \in Q : val[p] = RecordAt(Files(s), p)
  BY <1>1 DEF Scanned, Found, RecordsOf
<1>3. Q \subseteq Pairs /\ IsFiniteSet(Q)
  <2>1. ToRead(s) \subseteq Pairs /\ IsFiniteSet(ToRead(s)) /\ Q \in SUBSET ToRead(s)
    BY ToReadFacts
  <2>2. QED
    BY <2>1, FS_Subset
<1>4. E \subseteq Places(Files(s)) /\ \A p \in E : At(Files(s), p).svc = L1Accept
  BY DEF EventPlaces
<1>5. \A r : EventsOnDisk(r) = {RecordAt(Files(r), p) : p \in EventPlaces(Files(r))}
  BY DEF EventsOnDisk, RecordAt, Files
<1>6. \A r, t : HasEvent(r, t) <=> \E q \in EventPlaces(Files(r)) : At(Files(r), q).ts = t
  <2>1. \A r, q : RecordAt(Files(r), q).ts = At(Files(r), q).ts
    BY DEF RecordAt
  <2>2. QED
    BY <1>5, <2>1 DEF HasEvent
<1>7. \A p \in E : p \in Q <=> Survives(At(Files(s), p).ts)
  <2>1. CASE source = "smd"
    <3>1. ToRead(s) = {p \in Places(Files(s)) :
             \/ At(Files(s), p).svc # L1Accept \/ run.timing = {}
             \/ \E r \in run.timing :
                  At(Files(s), p).ts \in {At(Files(r), q).ts : q \in EventPlaces(Files(r))}}
      BY <2>1 DEF ToRead, Kept, Files
    <3>2. QED
      BY <1>4, <1>6, <2>1, <3>1 DEF Survives
  <2>2. CASE source # "smd"
    BY <1>4, <2>2 DEF Survives, ToRead
  <2>3. QED
    BY <2>1, <2>2
<1>8. \A p \in E : RecordAt(Files(s), p).ts = At(Files(s), p).ts
  BY DEF RecordAt
<1>e. EventsOnDisk(s) = {RecordAt(Files(s), p) : p \in E}
  BY <1>5
<1> HIDE DEF Q, E
<1>9. Cardinality(Q) \in Nat /\ Len(InOrder(val)) = Cardinality(Q)
  BY ONLY <1>2, <1>3, InOrderIs, FS_CardinalityType
<1>10. \A k \in 1..Cardinality(Q) : \E p \in Q : InOrder(val)[k] = val[p]
  <2>1. \A k \in 1..Cardinality(Q) : \E p \in Q : Rank(Q, p) = k /\ InOrder(val)[k] = val[p]
    BY ONLY <1>2, <1>3, InOrderFrom
  <2>2. QED
    BY <2>1
<1>11. \A p \in Q : \E k \in 1..Cardinality(Q) : InOrder(val)[k] = val[p]
  <2>1. \A p \in Q : InOrder(val)[Rank(Q, p)] = val[p]
    BY ONLY <1>2, <1>3, InOrderAt
  <2>2. \A p \in Q : Rank(Q, p) \in 1..Cardinality(Q)
    BY ONLY <1>3, RankFacts
  <2>3. QED
    BY <2>1, <2>2
<1>12. \A p \in Q : p \in E
  BY DEF Q
<1>13. \A i \in 1..Len(recs[s]) : recs[s][i] \in EventsOnDisk(s) /\ Survives(recs[s][i].ts)
  <2> SUFFICES ASSUME NEW i \in 1..Len(recs[s])
               PROVE  recs[s][i] \in EventsOnDisk(s) /\ Survives(recs[s][i].ts)
    OBVIOUS
  <2>1. PICK p \in Q : recs[s][i] = RecordAt(Files(s), p)
    BY <1>2, <1>9, <1>10
  <2>2. QED
    BY <1>7, <1>8, <1>12, <1>e, <2>1
<1>14. \A e \in EventsOnDisk(s) : Survives(e.ts) => \E i \in 1..Len(recs[s]) : recs[s][i] = e
  <2> SUFFICES ASSUME NEW e \in EventsOnDisk(s), Survives(e.ts)
               PROVE  \E i \in 1..Len(recs[s]) : recs[s][i] = e
    OBVIOUS
  <2>1. PICK p \in E : e = RecordAt(Files(s), p)
    BY <1>e
  <2>2. p \in Q
    BY <1>7, <1>8, <2>1
  <2>3. PICK k \in 1..Cardinality(Q) : InOrder(val)[k] = val[p]
    BY <1>11, <2>2
  <2>4. QED
    BY <1>2, <1>9, <2>1, <2>2, <2>3
<1>15. QED
  BY <1>2, <1>9, <1>13, <1>14

\* A stream contributes exactly the events it has on disk that survive, ...
LEMMA ContributesIs ==
  ASSUME run \in Runs, Chosen, Scanned, NEW s \in Streams, NEW t
  PROVE  Contributes(s, t) <=> HasEvent(s, t) /\ Survives(t)
<1>1. /\ \A i \in 1..Len(recs[s]) : recs[s][i] \in EventsOnDisk(s) /\ Survives(recs[s][i].ts)
      /\ \A e \in EventsOnDisk(s) :
           Survives(e.ts) => \E i \in 1..Len(recs[s]) : recs[s][i] = e
  BY RecordsAre
<1>2. Contributes(s, t) => HasEvent(s, t) /\ Survives(t)
  BY <1>1 DEF Contributes, HasEvent
<1>3. HasEvent(s, t) /\ Survives(t) => Contributes(s, t)
  BY <1>1 DEF Contributes, HasEvent
<1>4. QED
  BY <1>2, <1>3

\* ... and its record of one is where the event lies on disk.
LEMMA RecordOfIs ==
  ASSUME run \in Runs, Chosen, Scanned, ~Duplicate,
         NEW s \in Streams, NEW t, Contributes(s, t)
  PROVE  RecordOf(s, t) = CHOOSE e \in EventsOnDisk(s) : e.ts = t
<1>1. /\ \A i \in 1..Len(recs[s]) : recs[s][i] \in EventsOnDisk(s)
      /\ \A e \in EventsOnDisk(s) :
           Survives(e.ts) => \E i \in 1..Len(recs[s]) : recs[s][i] = e
  BY RecordsAre
<1>2. Survives(t)
  BY ContributesIs
<1> DEFINE k == CHOOSE i \in 1..Len(recs[s]) : recs[s][i].ts = t
<1>3. k \in 1..Len(recs[s]) /\ recs[s][k].ts = t
  BY DEF Contributes
<1>4. \A i \in 1..Len(recs[s]) : recs[s][i].ts = t => i = k
  BY <1>3 DEF Duplicate
<1>5. RecordOf(s, t) = recs[s][k]
  BY DEF RecordOf
<1> HIDE DEF k
<1>6. \A e \in EventsOnDisk(s) : e.ts = t => e = recs[s][k]
  BY <1>1, <1>2, <1>4
<1>7. QED
  BY <1>1, <1>3, <1>5, <1>6

LEMMA MergedIsCanonical ==
  ASSUME run \in Runs, Chosen, Scanned, ~Duplicate
  PROVE  Merged = CanonicalIndex
<1> DEFINE all == UNION {{recs[s][i].ts : i \in 1..Len(recs[s])} : s \in Streams}
           kept == {t \in all : Clamp = {} \/ \E s \in Clamp : Contributes(s, t)}
           allOnDisk == {e.ts : e \in UNION {EventsOnDisk(s) : s \in Streams}}
           tail == run.keepTail /\ source = "bigdata"
           keptOnDisk == {t \in allOnDisk : run.timing = {} \/ tail
                                             \/ \E s \in run.timing : HasEvent(s, t)}
           In(t) == {s \in Streams : Contributes(s, t)}
           OnDisk(t) == {s \in Streams : HasEvent(s, t)}
<1>1. \A t : t \in all <=> \E s \in Streams : Contributes(s, t)
  BY DEF Contributes
<1>2. \A t : t \in allOnDisk <=> \E s \in Streams : HasEvent(s, t)
  BY DEF HasEvent
<1>3. \A s \in Streams : \A t : Contributes(s, t) <=> HasEvent(s, t) /\ Survives(t)
  BY ContributesIs
<1>4. run.timing \subseteq Streams /\ source \in {"smd", "bigdata"}
  BY RunFacts DEF Chosen, Source
<1> HIDE DEF all, allOnDisk
<1>5. \A t : t \in kept <=> t \in keptOnDisk
  <2>1. CASE source = "smd"
    BY <1>1, <1>2, <1>3, <1>4, <2>1 DEF Clamp, Survives
  <2>2. CASE source = "bigdata"
    BY <1>1, <1>2, <1>3, <1>4, <2>2 DEF Clamp, Survives
  <2>3. QED
    BY <1>4, <2>1, <2>2
<1>6. kept = keptOnDisk
  BY <1>5
<1>7. \A t \in kept : Survives(t)
  BY <1>1, <1>3
<1>8. \A t \in kept : In(t) = OnDisk(t)
  BY <1>3, <1>7
<1>9. \A t \in kept : \A s \in In(t) :
        Span(RecordOf(s, t)) = Span(CHOOSE e \in EventsOnDisk(s) : e.ts = t)
  BY RecordOfIs
<1> HIDE DEF kept, keptOnDisk, In, OnDisk
<1>10. \A t \in kept : [s \in In(t) |-> Span(RecordOf(s, t))]
                       = [s \in OnDisk(t) |-> Span(CHOOSE e \in EventsOnDisk(s) : e.ts = t)]
  BY <1>8, <1>9
<1>11. [t \in kept |-> [s \in In(t) |-> Span(RecordOf(s, t))]]
       = [t \in keptOnDisk |-> [s \in OnDisk(t) |-> Span(CHOOSE e \in EventsOnDisk(s) : e.ts = t)]]
  BY <1>6, <1>10
<1>12. Merged = [t \in kept |-> [s \in In(t) |-> Span(RecordOf(s, t))]]
  BY DEF Merged, kept, In, all
<1>13. CanonicalIndex =
         [t \in keptOnDisk |-> [s \in OnDisk(t) |-> Span(CHOOSE e \in EventsOnDisk(s) : e.ts = t)]]
  BY DEF CanonicalIndex, keptOnDisk, OnDisk, allOnDisk
<1>14. QED
  BY <1>11, <1>12, <1>13

\* The index of a run is the canonical one, read off the files, whether it was
\* built from the sidecars or from the bigdata headers: every canonical event,
\* with the chunk, offset and size of every stream's dgram.
THEOREM AlwaysCanonical == ASSUME ~Tolerate PROVE Spec => []IndexIsCanonical
<1>1. IInv => IndexIsCanonical
  BY MergedIsCanonical DEF IInv, IndexIsCanonical
<1>2. QED
  BY <1>1, Inductive, PTL

\* The slow-data stores hold the timestamps on disk, from either source.
THEOREM EnvAlwaysOfEitherSource == ASSUME ~Tolerate PROVE Spec => []EnvOfEitherSource
<1>1. IInv => EnvOfEitherSource
  <2> SUFFICES ASSUME IInv, status = "done", NEW store \in DOMAIN env, NEW s \in Streams
               PROVE  env[store][s] = EnvOnDisk(store, s)
    BY DEF EnvOfEitherSource
  <2>1. run \in Runs /\ store \in Stores /\ Scanned
    BY DEF IInv, Domains
  <2>2. env[store][s] = EnvOf(store, Files(s), ToRead(s))
    BY <2>1 DEF Scanned, Found
  <2> DEFINE F == Feeding(store, Files(s))
  <2>3. ToRead(s) \cap F = F
    <3>1. \A p \in Places(Files(s)) : p \notin ToRead(s) => At(Files(s), p).svc = L1Accept
      BY <2>1, ToReadFacts
    <3>2. L1Accept \notin DOMAIN EnvServiceStore
      BY DEF L1Accept, EnvServiceStore
    <3>3. QED
      BY <3>1, <3>2 DEF Feeding
  <2>4. EnvOnDisk(store, s) = InOrder([p \in F |-> At(Files(s), p).ts])
    BY DEF EnvOnDisk, Feeding, Files
  <2> HIDE DEF F
  <2>5. EnvOf(store, Files(s), ToRead(s)) = InOrder([p \in F |-> At(Files(s), p).ts])
    BY <2>3 DEF EnvOf, F
  <2>6. QED
    BY <2>2, <2>4, <2>5
<1>2. QED
  BY <1>1, Inductive, PTL

\* The build refuses exactly the files that cannot be indexed.
THEOREM AlwaysRaisesIffDefective == ASSUME ~Tolerate PROVE Spec => []RaisesIffDefective
<1>1. IInv => RaisesIffDefective
  <2> SUFFICES ASSUME IInv
               PROVE  RaisesIffDefective
    OBVIOUS
  <2>1. status = "done" => ~Defective
    <3> SUFFICES ASSUME status = "done"
                 PROVE  ~Defective
      OBVIOUS
    <3>1. ~Duplicate /\ \A s \in Streams : Sound(s)
      BY DEF IInv, Scanned
    <3>2. QED
      BY <3>1 DEF Defective, Duplicate, Sound, Mirrored, Files
  <2>2. status = "raised" => Defective /\ source = Source
    BY DEF IInv, Chosen
  <2>3. source = Source => run.ask = "smd" \/ source = "bigdata" \/ \A s \in Streams : run.smd[s] # NoFile
    BY DEF Source
  <2>4. QED
    BY <2>1, <2>2, <2>3 DEF RaisesIffDefective
<1>2. QED
  BY <1>1, Inductive, PTL
=============================================================================
