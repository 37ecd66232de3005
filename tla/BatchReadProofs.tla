-------------------------- MODULE BatchReadProofs --------------------------
(***************************************************************************)
(* Proofs about BatchRead: what is merged and sliced again is what serial  *)
(* reads give.  While a batch is read, every dgram of it is still to be    *)
(* read, in the group, or sliced, and the order of the reads keeps the     *)
(* three apart; the slices are the serial reads of the third kind.         *)
(***************************************************************************)
EXTENDS BatchRead, TLAPS, FiniteSetTheorems, SequenceTheorems

\* A non-empty set of naturals has a least element.
LEMMA LeastElement ==
  ASSUME NEW T, T \subseteq Nat, T # {}
  PROVE  \E x \in T : \A y \in T : x <= y
<1> DEFINE R == OpToRel(<, Nat)
<1>1. IsWellFoundedOn(R, Nat)
  BY NatLessThanWellFounded
<1>2. \A x, y \in Nat : x < y => <<x, y>> \in R
  BY DEF OpToRel
<1> HIDE DEF R
<1>3. PICK x \in T : \A y \in T : ~ (<<y, x>> \in R)
  BY <1>1, WFMin
<1>4. \A y \in T : x \in Nat /\ y \in Nat /\ ~ (y < x)
  BY <1>2, <1>3
<1>5. QED
  BY <1>4

-----------------------------------------------------------------------------
(* The reads of a batch                                                    *)

ReadOf(k, s) ==
    [chunk |-> run.entries[k][s].chunk, offset |-> run.entries[k][s].offset,
     size |-> run.entries[k][s].size, k |-> k, stream |-> s]

End(r) == r.offset + r.size

Before(a, b) == a.chunk < b.chunk \/ (a.chunk = b.chunk /\ End(a) <= b.offset)

\* Every read is of a position asked for and a stream that has part in it.
LEMMA ReadsAre ==
  ASSUME run \in Runs, NEW ks \in Seq(Int), InRange(ks), NEW r \in Reads(ks)
  PROVE  /\ r.k \in ToSet(ks)
         /\ r.k \in DOMAIN run.entries
         /\ r.stream \in DOMAIN run.entries[r.k]
         /\ r = ReadOf(r.k, r.stream)
         /\ r.chunk \in Nat /\ r.chunk \in DOMAIN run.files
         /\ r.offset \in Nat
         /\ r.size \in Nat /\ r.size > 0
<1>1. PICK k \in ToSet(ks) : \E s \in DOMAIN run.entries[k] : r = ReadOf(k, s)
  BY DEF Reads, ReadOf
<1>10. PICK s \in DOMAIN run.entries[k] : r = ReadOf(k, s)
  BY <1>1
<1>2. k \in DOMAIN run.entries
  BY <1>1, RunsAssumption DEF ToSet, InRange, Positions
<1>3. r.k = k /\ r.stream = s
  BY <1>10 DEF ReadOf
<1>4. /\ run.entries[k][s].chunk \in Nat \cap DOMAIN run.files
      /\ run.entries[k][s].offset \in Nat
      /\ run.entries[k][s].size \in Nat \ {0}
  BY <1>10, <1>2, RunsAssumption
<1>5. /\ r.chunk = run.entries[k][s].chunk
      /\ r.offset = run.entries[k][s].offset
      /\ r.size = run.entries[k][s].size
  BY <1>10 DEF ReadOf
<1>6. r.size \in Nat /\ r.size > 0
  BY <1>4, <1>5
<1>7. QED
  BY <1>10, <1>2, <1>3, <1>4, <1>5, <1>6

LEMMA ReadsOf ==
  ASSUME NEW ks \in Seq(Int), NEW k \in ToSet(ks), NEW s \in DOMAIN run.entries[k]
  PROVE  ReadOf(k, s) \in Reads(ks)
BY DEF Reads, ReadOf

\* Two reads of a batch never overlap: their order is strict.
LEMMA ReadsApart ==
  ASSUME run \in Runs, NEW ks \in Seq(Int), InRange(ks),
         NEW r \in Reads(ks), NEW q \in Reads(ks), r # q
  PROVE  Before(r, q) \/ Before(q, r)
<1>1. /\ r.k \in DOMAIN run.entries /\ q.k \in DOMAIN run.entries
      /\ r.stream \in DOMAIN run.entries[r.k] /\ q.stream \in DOMAIN run.entries[q.k]
      /\ r = ReadOf(r.k, r.stream) /\ q = ReadOf(q.k, q.stream)
  BY ReadsAre
<1>2. /\ r.chunk \in Nat /\ r.offset \in Nat /\ r.size \in Nat
      /\ q.chunk \in Nat /\ q.offset \in Nat /\ q.size \in Nat
  BY ReadsAre
<1>3. ~ (r.k = q.k /\ r.stream = q.stream)
  BY <1>1
<1>4. ~ Overlap(run.entries[r.k][r.stream], run.entries[q.k][q.stream])
  BY <1>1, <1>3, RunsAssumption
<1>5. /\ run.entries[r.k][r.stream].chunk = r.chunk
      /\ run.entries[r.k][r.stream].offset = r.offset
      /\ run.entries[r.k][r.stream].size = r.size
      /\ run.entries[q.k][q.stream].chunk = q.chunk
      /\ run.entries[q.k][q.stream].offset = q.offset
      /\ run.entries[q.k][q.stream].size = q.size
  BY <1>1 DEF ReadOf
<1>6. ~ (r.chunk = q.chunk /\ r.offset < q.offset + q.size /\ q.offset < r.offset + r.size)
  BY <1>4, <1>5 DEF Overlap
<1>7. QED
  BY <1>2, <1>6 DEF Before, End

\* A batch asks for finitely many dgrams.
LEMMA ReadsFinite ==
  ASSUME run \in Runs, NEW ks \in Seq(Int), InRange(ks)
  PROVE  IsFiniteSet(Reads(ks))
<1> DEFINE Of(k) == {ReadOf(k, s) : s \in DOMAIN run.entries[k]}
           K == ToSet(ks)
<1>1. IsFiniteSet(K)
  <2> DEFINE f == [i \in 1 .. Len(ks) |-> ks[i]]
  <2>1. f \in Surjection(1 .. Len(ks), K)
    BY DEF Surjection, ToSet
  <2>2. IsFiniteSet(1 .. Len(ks))
    BY FS_Interval
  <2> HIDE DEF f
  <2>3. QED
    BY <2>1, <2>2, FS_Surjection
<1>2. ASSUME NEW k \in K
      PROVE  IsFiniteSet(Of(k))
  <2> DEFINE D == DOMAIN run.entries[k]
             f == [s \in D |-> ReadOf(k, s)]
  <2>1. k \in DOMAIN run.entries
    BY RunsAssumption DEF ToSet, InRange, Positions
  <2>2. IsFiniteSet(D)
    BY <2>1, RunsAssumption
  <2>3. f \in Surjection(D, Of(k))
    BY DEF Surjection
  <2> HIDE DEF f
  <2>4. QED
    BY <2>2, <2>3, FS_Surjection
<1> DEFINE F == {Of(k) : k \in K}
<1>3. IsFiniteSet(F)
  <2> DEFINE f == [k \in K |-> Of(k)]
  <2>1. f \in Surjection(K, F)
    BY DEF Surjection
  <2> HIDE DEF f
  <2>2. QED
    BY <1>1, <2>1, FS_Surjection
<1>4. \A T \in F : IsFiniteSet(T)
  BY <1>2
<1>5. Reads(ks) = UNION F
  BY DEF Reads, ReadOf
<1>6. QED
  BY <1>3, <1>4, <1>5, FS_UNION

\* The next read is there, and in front of every other.
LEMMA FirstReadFirst ==
  ASSUME run \in Runs, NEW ks \in Seq(Int), InRange(ks),
         pending \subseteq Reads(ks), pending # {}
  PROVE  /\ FirstRead \in pending
         /\ \A other \in pending \ {FirstRead} : Before(FirstRead, other)
<1> DEFINE C == {r.chunk : r \in pending}
<1>1. \A r \in pending : /\ r \in Reads(ks) /\ r.chunk \in Nat /\ r.offset \in Nat
                         /\ r.size \in Nat /\ r.size > 0
  BY ReadsAre
<1>2. PICK c \in C : \A d \in C : c <= d
  <2>1. C \subseteq Nat /\ C # {}
    BY <1>1
  <2> HIDE DEF C
  <2>2. QED
    BY <2>1, LeastElement
<1> DEFINE O == {r.offset : r \in {q \in pending : q.chunk = c}}
<1>3. PICK o \in O : \A p \in O : o <= p
  <2>1. O \subseteq Nat /\ O # {}
    BY <1>1, <1>2
  <2> HIDE DEF O
  <2>2. QED
    BY <2>1, LeastElement
<1>4. PICK r \in pending : r.chunk = c /\ r.offset = o
  BY <1>3
<1>5. \A other \in pending \ {r} : Before(r, other) \/ Before(other, r)
  BY <1>1, ReadsApart
<1>6. \A other \in pending : c <= other.chunk /\ (other.chunk = c => o <= other.offset)
  BY <1>2, <1>3
<1>7. \A other \in pending \ {r} :
        r.chunk < other.chunk \/ (r.chunk = other.chunk /\ r.offset < other.offset)
  BY <1>1, <1>4, <1>5, <1>6 DEF Before, End
<1> HIDE DEF C, O
<1>8. /\ FirstRead \in pending
      /\ \A other \in pending \ {FirstRead} :
           \/ FirstRead.chunk < other.chunk
           \/ FirstRead.chunk = other.chunk /\ FirstRead.offset < other.offset
  BY <1>7 DEF FirstRead
<1>9. \A other \in pending \ {FirstRead} : Before(FirstRead, other) \/ Before(other, FirstRead)
  BY <1>1, <1>8, ReadsApart
<1>10. QED
  BY <1>1, <1>8, <1>9 DEF Before, End

-----------------------------------------------------------------------------
(* Slices of merged reads                                                  *)

\* What is cut out of a longer read is what a read of its own gives.
LEMMA SliceIsPread ==
  ASSUME NEW file \in Seq(Byte), NEW start \in Nat, NEW span \in Nat,
         NEW offset \in Nat, NEW size \in Nat, size > 0,
         start <= offset, offset + size <= start + span, start + span <= Len(file)
  PROVE  SubSeq(SubSeq(file, start + 1, start + span),
                offset - start + 1, offset - start + size)
           = SubSeq(file, offset + 1, offset + size)
<1> DEFINE i == start + 1
           j == start + span
           m == offset - start + 1
           n == offset - start + size
<1>1. i \in 1 .. Len(file) /\ j \in 1 .. Len(file)
  OBVIOUS
<1>2. m \in 1 .. j - i + 1 /\ n \in 1 .. j - i + 1
  OBVIOUS
<1>3. i + m - 1 = offset + 1 /\ i + n - 1 = offset + size
  OBVIOUS
<1> HIDE DEF i, j, m, n
<1>4. SubSeq(SubSeq(file, i, j), m, n) = SubSeq(file, i + m - 1, i + n - 1)
  BY <1>1, <1>2, SubSeqOfSubSeq
<1>5. SubSeq(SubSeq(file, i, j), m, n) = SubSeq(file, offset + 1, offset + size)
  BY <1>3, <1>4
<1>6. QED
  BY <1>5 DEF i, j, m, n

LEMMA MinOfTwo ==
  ASSUME NEW a \in Int, NEW b \in Int
  PROVE  Min({a, b}) = IF a <= b THEN a ELSE b
BY DEF Min

LEMMA MaxIs ==
  ASSUME NEW T, T \subseteq Int, NEW m \in T, \A x \in T : x <= m
  PROVE  Max(T) = m
<1>1. \E x \in T : \A y \in T : x >= y
  OBVIOUS
<1>2. Max(T) \in T /\ \A y \in T : Max(T) >= y
  BY <1>1 DEF Max
<1> DEFINE M == Max(T)
<1>3. M \in T /\ m \in T /\ M \in Int /\ m \in Int /\ M >= m /\ M <= m
  BY <1>2
<1> HIDE DEF M
<1>4. M = m
  BY <1>3
<1>5. QED
  BY <1>4 DEF M

\* A read is as long as the file allows.
LEMMA PreadLength ==
  ASSUME NEW chunk \in DOMAIN run.files, run.files[chunk] \in Seq(Byte),
         NEW size \in Nat, size > 0, NEW offset \in Nat
  PROVE  /\ Len(Pread(chunk, size, offset)) = size <=> offset + size <= Len(run.files[chunk])
         /\ offset + size <= Len(run.files[chunk]) =>
              Pread(chunk, size, offset)
                = SubSeq(run.files[chunk], offset + 1, offset + size)
<1> DEFINE file == run.files[chunk]
           last == Min({offset + size, Len(file)})
<1>1. Len(file) \in Nat
  OBVIOUS
<1>2. last = IF offset + size <= Len(file) THEN offset + size ELSE Len(file)
  <2>1. offset + size \in Int
    OBVIOUS
  <2> HIDE DEF file
  <2>2. QED
    BY <1>1, <2>1, MinOfTwo
<1>3. last \in Nat /\ last <= Len(file)
  BY <1>1, <1>2
<1>4. \A i \in offset + 1 .. last : file[i] \in Byte
  BY <1>3
<1> HIDE DEF last
<1>5. Len(SubSeq(file, offset + 1, last))
        = IF offset + 1 <= last THEN last - (offset + 1) + 1 ELSE 0
  <2>1. offset + 1 \in Int /\ last \in Int
    BY <1>3
  <2> HIDE DEF file
  <2>2. QED
    BY <1>4, <2>1, SubSeqProperties
<1>6. Pread(chunk, size, offset) = SubSeq(file, offset + 1, last)
  BY DEF Pread, last
<1>7. QED
  BY <1>1, <1>2, <1>3, <1>5, <1>6

-----------------------------------------------------------------------------
(* The inductive invariant                                                 *)

Statuses == {"idle", "next", "reading", "yielded", "returned",
             "RuntimeError", "IndexError", "ValueError", "MemoryError"}

Typed == run \in Runs /\ call \in Requests /\ status \in Statuses

Delivered ==
    /\ Len(out) \in 0 .. Len(call.ks)
    /\ out = [i \in 1 .. Len(out) |-> ReadEventAt(call.ks[i])]
    /\ \A i \in 1 .. Len(out) : SerialReads(call.ks[i])

Asked ==
    /\ status = "idle" => out = <<>>
    /\ call.api \in WholeSlice /\ status \in {"next", "reading"} => out = <<>>
    /\ call.api \notin WholeSlice /\ status \in {"next", "reading", "yielded"} => call.batch > 0
    /\ call.api \in WholeSlice => status # "yielded"
    /\ status = "reading" => batch = NextBatch /\ InRange(batch)

Idle ==
    /\ status # "reading" => group = <<>>
    /\ status \in {"idle", "next", "yielded"} => pending = {} /\ got = {}

GroupRises ==
    \A i, j \in DOMAIN group :
        i < j => group[i].chunk = group[j].chunk /\ End(group[i]) <= group[j].offset

Settled == Reads(batch) \ (pending \cup ToSet(group))

Sliced(r) == [k |-> r.k, stream |-> r.stream, raw |-> SerialRaw(r.k, r.stream)]

\* Where every dgram of the batch is.
Places ==
    status = "reading" =>
        /\ pending \subseteq Reads(batch)
        /\ group \in Seq(Reads(batch))
        /\ GroupRises
        /\ \A r \in pending, i \in DOMAIN group : Before(group[i], r)
        /\ got = {Sliced(r) : r \in Settled}
        /\ \A r \in Settled :
              Assembles(SerialRaw(r.k, r.stream), r.size, run.timestamps[r.k])

Refusals ==
    /\ status = "returned" => Len(out) = Len(call.ks)
    /\ status = "RuntimeError" => \E i \in DOMAIN batch : ~SerialReads(batch[i])
    /\ status = "IndexError" => ~InRange(call.ks)

IInv == Typed /\ Delivered /\ Asked /\ Idle /\ Places /\ MergeBounded /\ Refusals

\* The start satisfies it.
LEMMA IInvInit == Init => IInv
<1> SUFFICES ASSUME Init PROVE IInv
  OBVIOUS
<1> USE DEF Init
<1>1. Typed
  BY DEF Typed, Statuses
<1>2. Len(call.ks) \in Nat
  BY <1>1, RequestsAssumption DEF Typed
<1>3. Delivered
  <2>1. Len(out) = 0
    OBVIOUS
  <2>2. out = [i \in 1 .. 0 |-> ReadEventAt(call.ks[i])]
    OBVIOUS
  <2>3. QED
    BY <1>2, <2>1, <2>2 DEF Delivered
<1>4. Asked /\ Idle /\ Places /\ MergeBounded /\ Refusals
  BY DEF Asked, Idle, Places, MergeBounded, Refusals
<1>5. QED
  BY <1>1, <1>3, <1>4 DEF IInv

\* The next batch is the next part of what was asked for.
LEMMA NextBatchIs ==
  ASSUME Typed, Delivered, Asked, status \in {"next", "reading"}
  PROVE  /\ NextBatch \in Seq(Int)
         /\ Len(out) + Len(NextBatch) <= Len(call.ks)
         /\ \A i \in 1 .. Len(NextBatch) : NextBatch[i] = call.ks[Len(out) + i]
         /\ call.api \in WholeSlice => NextBatch = call.ks /\ out = <<>>
<1> DEFINE ks == call.ks
           from == Len(out) + 1
           to == Len(call.ks)
<1>1. ks \in Seq(Int) /\ Len(ks) \in Nat /\ Len(out) \in 0 .. Len(ks) /\ call.batch \in Int
  BY RequestsAssumption DEF Typed, Delivered
<1>2. CASE call.api \in WholeSlice
  BY <1>1, <1>2 DEF NextBatch, Asked
<1>3. CASE call.api \notin WholeSlice
  <2>1. /\ Rest \in Seq(Int)
        /\ Len(Rest) = to - Len(out)
        /\ \A i \in 1 .. to - Len(out) : Rest[i] = ks[Len(out) + i]
    <3>1. from \in Int /\ to \in Int /\ \A i \in from .. to : ks[i] \in Int
      BY <1>1
    <3>2. Rest = SubSeq(ks, from, to)
      BY DEF Rest
    <3> HIDE DEF ks, from, to
    <3>3. /\ SubSeq(ks, from, to) \in Seq(Int)
          /\ Len(SubSeq(ks, from, to)) = IF from <= to THEN to - from + 1 ELSE 0
          /\ \A i \in 1 .. to - from + 1 : SubSeq(ks, from, to)[i] = ks[from + i - 1]
      BY <3>1, SubSeqProperties
    <3>4. QED
      BY <1>1, <3>2, <3>3 DEF ks, from, to
  <2> DEFINE size == Min({call.batch, Len(Rest)})
  <2>2. size = IF call.batch <= Len(Rest) THEN call.batch ELSE Len(Rest)
    <3>1. call.batch \in Int /\ Len(Rest) \in Int
      BY <1>1, <2>1
    <3>2. QED
      BY <3>1, MinOfTwo
  <2>3. size \in Nat /\ size <= Len(Rest)
    BY <1>1, <1>3, <2>1, <2>2 DEF Asked
  <2>4. NextBatch = SubSeq(Rest, 1, size)
    BY <1>3 DEF NextBatch
  <2>5. \A i \in 1 .. size : Rest[i] \in Int
    BY <1>1, <2>1, <2>3
  <2> HIDE DEF size
  <2>6. /\ SubSeq(Rest, 1, size) \in Seq(Int)
        /\ Len(SubSeq(Rest, 1, size)) = IF 1 <= size THEN size - 1 + 1 ELSE 0
        /\ \A i \in 1 .. size - 1 + 1 : SubSeq(Rest, 1, size)[i] = Rest[1 + i - 1]
    BY <2>3, <2>5, SubSeqProperties
  <2>7. Len(NextBatch) = size
    BY <2>3, <2>4, <2>6
  <2>8. \A i \in 1 .. size : NextBatch[i] = Rest[i]
    BY <2>3, <2>4, <2>6
  <2>9. NextBatch \in Seq(Int)
    BY <2>4, <2>6
  <2>10. Len(out) + Len(NextBatch) <= Len(call.ks)
    BY <1>1, <2>1, <2>3, <2>7
  <2>11. \A i \in 1 .. Len(NextBatch) : NextBatch[i] = call.ks[Len(out) + i]
    <3> SUFFICES ASSUME NEW i \in 1 .. Len(NextBatch)
                 PROVE  NextBatch[i] = ks[Len(out) + i]
      OBVIOUS
    <3>1. i \in 1 .. size /\ i \in 1 .. to - Len(out)
      BY <1>1, <2>1, <2>3, <2>7
    <3>2. QED
      BY <2>1, <2>8, <3>1
  <2>12. QED
    BY <1>3, <2>9, <2>10, <2>11
<1>4. QED
  BY <1>2, <1>3

LEMMA AppendedSet ==
  ASSUME NEW S, NEW g \in Seq(S), NEW r \in S
  PROVE  ToSet(Append(g, r)) = ToSet(g) \cup {r}
BY AppendProperties DEF ToSet

\* The group ends where its last read does.
LEMMA GroupEndIsLast ==
  ASSUME run \in Runs, NEW ks \in Seq(Int), InRange(ks),
         group \in Seq(Reads(ks)), group # <<>>, GroupRises
  PROVE  /\ Len(group) \in Nat /\ Len(group) > 0
         /\ GroupEnd = End(Last(group))
         /\ GroupEnd \in Nat /\ GroupStart \in Nat
         /\ GroupStart < GroupEnd
         /\ Span = GroupEnd - GroupStart
         /\ \A i \in DOMAIN group : GroupStart <= group[i].offset /\ End(group[i]) <= GroupEnd
<1> DEFINE last == Len(group)
           E == {group[i].offset + group[i].size : i \in DOMAIN group}
<1>1. last \in Nat /\ last > 0 /\ DOMAIN group = 1 .. last
  OBVIOUS
<1>2. \A i \in 1 .. last : /\ group[i] \in Reads(ks)
                           /\ group[i].offset \in Nat /\ group[i].size \in Nat /\ group[i].size > 0
  BY <1>1, ReadsAre
<1>3. \A i, j \in 1 .. last : i < j => End(group[i]) <= group[j].offset
  BY <1>1 DEF GroupRises
<1>4. \A i \in 1 .. last : End(group[i]) <= End(group[last]) /\ group[1].offset <= group[i].offset
  BY <1>1, <1>2, <1>3 DEF End
<1>5. Max(E) = End(group[last])
  <2>1. E \subseteq Int
    BY <1>1, <1>2
  <2> DEFINE m == End(group[last])
  <2>2. m \in E
    BY <1>1 DEF End
  <2>a. \A e \in E : e <= m
    BY <1>1, <1>4 DEF End
  <2> HIDE DEF E, m
  <2>3. Max(E) = m
    BY <2>1, <2>2, <2>a, MaxIs
  <2>4. QED
    BY <2>3 DEF m
<1>6. GroupEnd = End(group[last]) /\ GroupStart = group[1].offset
  BY <1>5 DEF GroupEnd, GroupStart
<1>7. End(group[last]) \in Nat /\ group[1].offset \in Nat /\ group[1].offset < End(group[last])
  BY <1>1, <1>2, <1>4 DEF End
<1>8. Span = GroupEnd - GroupStart
  <2>1. group[last].offset + group[last].size = GroupEnd
    BY <1>6 DEF End
  <2>2. Last(group) = group[last]
    BY DEF Last
  <2>3. Span = group[last].offset + group[last].size - GroupStart
    BY <2>2 DEF Span
  <2>4. QED
    BY <1>1, <1>2, <1>6, <1>7, <2>1, <2>3
<1>9. QED
  BY <1>1, <1>4, <1>6, <1>7, <1>8 DEF Last

-----------------------------------------------------------------------------
(* Reading a group                                                         *)

LEMMA SerialIsPread ==
  ASSUME run \in Runs, NEW ks \in Seq(Int), InRange(ks), NEW r \in Reads(ks)
  PROVE  /\ SerialRaw(r.k, r.stream) = Pread(r.chunk, r.size, r.offset)
         /\ run.entries[r.k][r.stream].size = r.size
<1>1. r = ReadOf(r.k, r.stream)
  BY ReadsAre
<1>2. /\ r.chunk = run.entries[r.k][r.stream].chunk
      /\ r.size = run.entries[r.k][r.stream].size
      /\ r.offset = run.entries[r.k][r.stream].offset
  BY <1>1 DEF ReadOf
<1>3. QED
  BY <1>2 DEF SerialRaw

\* A slice of a whole merged read is the serial read of its dgram; a merged
\* read comes out short only where the last dgram's own read does.
LEMMA SlicesAreSerial ==
  ASSUME run \in Runs, NEW ks \in Seq(Int), InRange(ks),
         group \in Seq(Reads(ks)), group # <<>>, GroupRises
  PROVE  /\ Len(Merged) = Span =>
              \A i \in DOMAIN group : Slice(group[i]) = SerialRaw(group[i].k, group[i].stream)
         /\ Len(Merged) # Span =>
              Len(SerialRaw(Last(group).k, Last(group).stream)) # Last(group).size
<1> DEFINE last == Len(group)
           c == Head(group).chunk
           file == run.files[c]
<1>1. /\ last \in Nat /\ last > 0 /\ DOMAIN group = 1 .. last
      /\ GroupEnd = End(Last(group))
      /\ GroupEnd \in Nat /\ GroupStart \in Nat /\ GroupStart < GroupEnd
      /\ Span = GroupEnd - GroupStart
      /\ \A i \in DOMAIN group : GroupStart <= group[i].offset /\ End(group[i]) <= GroupEnd
  BY GroupEndIsLast
<1>2. \A i \in 1 .. last : /\ group[i] \in Reads(ks)
                           /\ group[i].offset \in Nat /\ group[i].size \in Nat /\ group[i].size > 0
                           /\ group[i].chunk \in DOMAIN run.files
  BY <1>1, ReadsAre
<1>3. \A i \in 1 .. last : group[i].chunk = c
  <2>1. Head(group) = group[1]
    BY <1>1
  <2>2. \A i, j \in 1 .. last : i < j => group[i].chunk = group[j].chunk
    BY <1>1 DEF GroupRises
  <2>3. QED
    BY <1>1, <2>1, <2>2
<1>4. c \in DOMAIN run.files
  BY <1>1, <1>2, <1>3
<1>5. file \in Seq(Byte) /\ Len(file) \in Nat
  BY <1>4, RunsAssumption
<1>6. Span \in Nat /\ Span > 0 /\ GroupStart + Span = GroupEnd
  BY <1>1
<1>7. Merged = Pread(c, Span, GroupStart)
  BY DEF Merged
<1>8. /\ Len(Merged) = Span <=> GroupEnd <= Len(file)
      /\ GroupEnd <= Len(file) => Merged = SubSeq(file, GroupStart + 1, GroupStart + Span)
  <2> HIDE DEF c
  <2>1. /\ Len(Pread(c, Span, GroupStart)) = Span <=> GroupStart + Span <= Len(run.files[c])
        /\ GroupStart + Span <= Len(run.files[c]) =>
             Pread(c, Span, GroupStart) = SubSeq(run.files[c], GroupStart + 1, GroupStart + Span)
    BY <1>1, <1>4, <1>5, <1>6, PreadLength
  <2>2. QED
    BY <1>6, <1>7, <2>1
<1>9. ASSUME NEW i \in 1 .. last
      PROVE  /\ SerialRaw(group[i].k, group[i].stream) = Pread(c, group[i].size, group[i].offset)
             /\ Len(Pread(c, group[i].size, group[i].offset)) = group[i].size
                  <=> End(group[i]) <= Len(file)
             /\ End(group[i]) <= Len(file) =>
                  Pread(c, group[i].size, group[i].offset)
                    = SubSeq(file, group[i].offset + 1, group[i].offset + group[i].size)
  <2>1. SerialRaw(group[i].k, group[i].stream) = Pread(c, group[i].size, group[i].offset)
    <3>1. group[i] \in Reads(ks) /\ group[i].chunk = c
      BY <1>2, <1>3
    <3> HIDE DEF c
    <3>2. QED
      BY <3>1, SerialIsPread
  <2> HIDE DEF c
  <2>2. QED
    BY <1>2, <1>4, <1>5, <2>1, PreadLength DEF End
<1>10. ASSUME Len(Merged) = Span, NEW i \in DOMAIN group
       PROVE  Slice(group[i]) = SerialRaw(group[i].k, group[i].stream)
  <2>1. GroupEnd <= Len(file) /\ i \in 1 .. last
    BY <1>1, <1>8, <1>10
  <2>2. /\ group[i].offset \in Nat /\ group[i].size \in Nat /\ group[i].size > 0
        /\ GroupStart <= group[i].offset /\ group[i].offset + group[i].size <= GroupEnd
    BY <1>1, <1>2 DEF End
  <2>3. SerialRaw(group[i].k, group[i].stream)
          = SubSeq(file, group[i].offset + 1, group[i].offset + group[i].size)
    <3>1. End(group[i]) <= Len(file)
      BY <1>1, <1>5, <2>1, <2>2 DEF End
    <3> HIDE DEF c, file
    <3>2. QED
      BY <1>9, <2>1, <3>1
  <2>4. Slice(group[i]) = SubSeq(SubSeq(file, GroupStart + 1, GroupStart + Span),
                                 group[i].offset - GroupStart + 1,
                                 group[i].offset - GroupStart + group[i].size)
    BY <1>8, <2>1 DEF Slice
  <2> DEFINE o == group[i].offset
             z == group[i].size
  <2>7. /\ o \in Nat /\ z \in Nat /\ z > 0 /\ GroupStart <= o
        /\ o + z <= GroupStart + Span /\ GroupStart + Span <= Len(file)
    BY <1>6, <2>1, <2>2
  <2> HIDE DEF file, o, z
  <2>8. SubSeq(SubSeq(file, GroupStart + 1, GroupStart + Span),
               o - GroupStart + 1, o - GroupStart + z)
          = SubSeq(file, o + 1, o + z)
    BY <1>1, <1>5, <1>6, <2>7, SliceIsPread
  <2>5. SubSeq(SubSeq(file, GroupStart + 1, GroupStart + Span),
               group[i].offset - GroupStart + 1, group[i].offset - GroupStart + group[i].size)
          = SubSeq(file, group[i].offset + 1, group[i].offset + group[i].size)
    BY <2>8 DEF o, z
  <2>6. QED
    BY <2>3, <2>4, <2>5
<1>11. ASSUME Len(Merged) # Span
       PROVE  Len(SerialRaw(Last(group).k, Last(group).stream)) # Last(group).size
  <2>1. ~ (GroupEnd <= Len(file))
    BY <1>8, <1>11
  <2>2. Last(group) = group[last] /\ last \in 1 .. last
    BY <1>1 DEF Last
  <2>3. ~ (End(group[last]) <= Len(file))
    BY <1>1, <2>1, <2>2
  <2>4. Len(Pread(c, group[last].size, group[last].offset)) # group[last].size
    BY <1>9, <2>2, <2>3
  <2>5. QED
    BY <1>9, <2>2, <2>4
<1>12. QED
  BY <1>10, <1>11

\* A dgram that does not assemble fails its serial read.
LEMMA NotSerial ==
  ASSUME run \in Runs, NEW ks \in Seq(Int), InRange(ks), NEW r \in Reads(ks),
         ~Assembles(SerialRaw(r.k, r.stream), r.size, run.timestamps[r.k])
  PROVE  \E i \in DOMAIN ks : ~SerialReads(ks[i])
<1>1. /\ r.k \in ToSet(ks) /\ r.stream \in DOMAIN run.entries[r.k]
      /\ run.entries[r.k][r.stream].size = r.size
  BY ReadsAre, SerialIsPread
<1>2. ~SerialReads(r.k)
  BY <1>1 DEF SerialReads
<1>3. PICK i \in DOMAIN ks : ks[i] = r.k
  BY <1>1 DEF ToSet
<1>4. QED
  BY <1>2, <1>3

-----------------------------------------------------------------------------
(* Every step keeps it                                                     *)

NotAllSerial == \E i \in DOMAIN batch : ~SerialReads(batch[i])

\* What serial reads give does not change: the run never does.
LEMMA SameDelivered ==
  ASSUME Delivered, UNCHANGED <<run, call, out>>
  PROVE  Delivered'
BY DEF Delivered, ReadEventAt, SerialReads, SerialRaw, Pread, Assembles

LEMMA SameRefusal ==
  ASSUME NotAllSerial, UNCHANGED <<run, batch>>
  PROVE  NotAllSerial'
BY DEF NotAllSerial, SerialReads, SerialRaw, Pread, Assembles

LEMMA CheckCallKeeps == IInv /\ CheckCall => IInv'
<1> SUFFICES ASSUME IInv, CheckCall PROVE IInv'
  OBVIOUS
<1>1. Typed /\ Delivered /\ Asked /\ Idle
  BY DEF IInv
<1>2. UNCHANGED <<run, call, batch, pending, group, got, out>> /\ status = "idle"
  BY DEF CheckCall
<1>3. /\ status' \in {"ValueError", "returned", "IndexError", "MemoryError", "next"}
      /\ status' = "next" => call.api \in WholeSlice \/ ~ (call.batch <= 0)
      /\ status' = "returned" => call.ks = <<>>
      /\ status' = "IndexError" => ~InRange(call.ks)
  BY DEF CheckCall
<1>4. call.batch \in Int
  BY <1>1, RequestsAssumption DEF Typed
<1>5. Typed'
  BY <1>1, <1>2, <1>3 DEF Typed, Statuses
<1>6. Delivered'
  BY <1>1, <1>2, SameDelivered
<1>7. out = <<>> /\ group = <<>> /\ pending = {} /\ got = {}
  BY <1>1, <1>2 DEF Asked, Idle
<1>8. Asked'
  BY <1>2, <1>3, <1>4, <1>7 DEF Asked
<1>9. Idle' /\ Places' /\ MergeBounded'
  BY <1>2, <1>3, <1>7 DEF Idle, Places, MergeBounded
<1>10. Refusals'
  <2>1. (status = "returned" => Len(out) = Len(call.ks))'
    BY <1>2, <1>3, <1>7
  <2>2. (status = "IndexError" => ~InRange(call.ks))'
    BY <1>2, <1>3 DEF InRange, Positions
  <2>3. status' # "RuntimeError"
    BY <1>3
  <2>4. QED
    BY <2>1, <2>2, <2>3 DEF Refusals
<1>11. QED
  BY <1>5, <1>6, <1>8, <1>9, <1>10 DEF IInv

LEMMA GatherKeeps == IInv /\ Gather => IInv'
<1> SUFFICES ASSUME IInv, Gather PROVE IInv'
  OBVIOUS
<1>1. Typed /\ Delivered /\ Asked /\ Idle
  BY DEF IInv
<1>2. UNCHANGED <<run, call, group, got, out>> /\ status = "next"
  BY DEF Gather
<1>3. /\ status' \in {"reading", "IndexError"}
      /\ status' = "reading" => /\ InRange(NextBatch) /\ batch' = NextBatch
                                /\ pending' = Reads(NextBatch)
      /\ status' = "IndexError" => ~InRange(NextBatch)
  BY DEF Gather
<1>4. /\ NextBatch \in Seq(Int)
      /\ Len(out) + Len(NextBatch) <= Len(call.ks)
      /\ \A i \in 1 .. Len(NextBatch) : NextBatch[i] = call.ks[Len(out) + i]
  BY <1>1, <1>2, NextBatchIs
<1>5. Typed'
  BY <1>1, <1>2, <1>3 DEF Typed, Statuses
<1>6. Delivered'
  BY <1>1, <1>2, SameDelivered
<1>7. group = <<>> /\ pending = {} /\ got = {}
  BY <1>1, <1>2 DEF Idle
<1>8. NextBatch' = NextBatch
  BY <1>2 DEF NextBatch, Rest
<1>9. Asked'
  <2>1. (status = "reading" => batch = NextBatch /\ InRange(batch))'
    BY <1>2, <1>3, <1>8 DEF InRange, Positions
  <2>2. QED
    BY <1>1, <1>2, <1>3, <2>1 DEF Asked
<1>10. Idle' /\ MergeBounded'
  BY <1>2, <1>3, <1>7 DEF Idle, MergeBounded
<1>11. Places'
  <2> SUFFICES ASSUME status' = "reading"
               PROVE  /\ (pending \subseteq Reads(batch))'
                      /\ (group \in Seq(Reads(batch)))'
                      /\ GroupRises'
                      /\ (\A r \in pending, i \in DOMAIN group : Before(group[i], r))'
                      /\ (got = {Sliced(r) : r \in Settled})'
                      /\ (\A r \in Settled :
                            Assembles(SerialRaw(r.k, r.stream), r.size, run.timestamps[r.k]))'
    BY DEF Places
  <2>1. Reads(batch)' = pending'
    BY <1>2, <1>3 DEF Reads
  <2>2. group' = <<>> /\ got' = {}
    BY <1>2, <1>7
  <2>3. Settled' = {}
    BY <2>1 DEF Settled
  <2>4. GroupRises' /\ (\A r \in pending, i \in DOMAIN group : Before(group[i], r))'
    BY <2>2 DEF GroupRises
  <2>5. (group \in Seq(Reads(batch)))'
    BY <2>2
  <2>6. (got = {Sliced(r) : r \in Settled})'
    BY <2>2, <2>3
  <2>7. (\A r \in Settled :
            Assembles(SerialRaw(r.k, r.stream), r.size, run.timestamps[r.k]))'
    BY <2>3
  <2>8. QED
    BY <2>1, <2>4, <2>5, <2>6, <2>7
<1>12. Refusals'
  <2>1. ASSUME ~InRange(NextBatch)
        PROVE  ~InRange(call.ks)
    <3>1. PICK i \in 1 .. Len(NextBatch) : ~ (NextBatch[i] \in Positions)
      BY <1>4, <2>1 DEF InRange
    <3>2. Len(out) \in Nat /\ call.ks \in Seq(Int)
      BY <1>1, RequestsAssumption DEF Delivered, Typed
    <3>3. Len(out) + i \in DOMAIN call.ks /\ ~ (call.ks[Len(out) + i] \in Positions)
      BY <1>4, <3>1, <3>2
    <3>4. QED
      BY <3>3 DEF InRange
  <2>2. (status = "IndexError" => ~InRange(call.ks))'
    BY <1>2, <1>3, <2>1 DEF InRange, Positions
  <2>3. status' # "RuntimeError" /\ status' # "returned"
    BY <1>3
  <2>4. QED
    BY <2>2, <2>3 DEF Refusals
<1>13. QED
  BY <1>5, <1>6, <1>9, <1>10, <1>11, <1>12 DEF IInv

LEMMA ResumeKeeps == IInv /\ Resume => IInv'
<1> SUFFICES ASSUME IInv, Resume PROVE IInv'
  OBVIOUS
<1>1. Typed /\ Delivered /\ Asked /\ Idle
  BY DEF IInv
<1>2. UNCHANGED <<run, call, batch, pending, group, got, out>> /\ status = "yielded"
  BY DEF Resume
<1>3. status' \in {"returned", "next"} /\ (status' = "returned" => Rest = <<>>)
  BY DEF Resume
<1>4. Typed'
  BY <1>1, <1>2, <1>3 DEF Typed, Statuses
<1>5. Delivered'
  BY <1>1, <1>2, SameDelivered
<1>6. Asked' /\ Idle' /\ Places' /\ MergeBounded'
  BY <1>1, <1>2, <1>3 DEF Asked, Idle, Places, MergeBounded
<1>7. ASSUME Rest = <<>>
      PROVE  Len(out) = Len(call.ks)
  <2>1. call.ks \in Seq(Int) /\ Len(call.ks) \in Nat /\ Len(out) \in 0 .. Len(call.ks)
    BY <1>1, RequestsAssumption DEF Delivered, Typed
  <2> DEFINE ks == call.ks
             from == Len(out) + 1
             to == Len(call.ks)
  <2>2. from \in Int /\ to \in Int /\ \A i \in from .. to : ks[i] \in Int
    BY <2>1
  <2>3. SubSeq(ks, from, to) = <<>>
    BY <1>7 DEF Rest
  <2> HIDE DEF ks, from, to
  <2>4. Len(SubSeq(ks, from, to)) = IF from <= to THEN to - from + 1 ELSE 0
    BY <2>2, SubSeqProperties
  <2>5. ~ (from <= to)
    BY <2>2, <2>3, <2>4
  <2>6. QED
    BY <2>1, <2>5 DEF from, to
<1>8. Refusals'
  BY <1>2, <1>3, <1>7 DEF Refusals
<1>9. QED
  BY <1>4, <1>5, <1>6, <1>8 DEF IInv

\* What is settled follows from the run, the batch and the two other places.
LEMMA SettledOf ==
  ASSUME UNCHANGED <<run, batch>>
  PROVE  /\ Reads(batch)' = Reads(batch)
         /\ Settled' = Reads(batch) \ (pending' \cup ToSet(group)')
         /\ \A r : Sliced(r)' = Sliced(r)
         /\ \A r : SerialRaw(r.k, r.stream)' = SerialRaw(r.k, r.stream)
<1>1. Reads(batch)' = Reads(batch)
  BY DEF Reads
<1>2. \A k, s : SerialRaw(k, s)' = SerialRaw(k, s)
  BY DEF SerialRaw, Pread
<1>3. Settled' = Reads(batch) \ (pending' \cup ToSet(group)')
  BY <1>1 DEF Settled
<1>4. \A r : Sliced(r)' = Sliced(r)
  BY <1>2 DEF Sliced
<1>5. QED
  BY <1>1, <1>2, <1>3, <1>4

\* A read that joins keeps the group in order and the rest behind it.
LEMMA TakePlaces ==
  ASSUME IInv, status = "reading", pending # {}, Take(FirstRead),
         group = <<>> \/ FirstRead.chunk = Head(group).chunk
  PROVE  Places' /\ FirstRead \in Reads(batch) /\ group \in Seq(Reads(batch))
<1>1. /\ Typed /\ Delivered /\ Asked /\ Idle /\ Places
  BY DEF IInv
<1>2. batch \in Seq(Int) /\ InRange(batch) /\ run \in Runs
  BY <1>1, NextBatchIs DEF Asked, Typed
<1>3. PICK R : R = Reads(batch)
  OBVIOUS
<1>4. PICK f : f = FirstRead
  OBVIOUS
<1>5. /\ pending \subseteq R /\ group \in Seq(R) /\ GroupRises
      /\ \A r \in pending, i \in DOMAIN group : Before(group[i], r)
      /\ got = {Sliced(r) : r \in Settled}
      /\ \A r \in Settled : Assembles(SerialRaw(r.k, r.stream), r.size, run.timestamps[r.k])
  BY <1>1, <1>3 DEF Places
<1>6. f \in pending /\ \A other \in pending \ {f} : Before(f, other)
  BY <1>2, <1>3, <1>4, <1>5, FirstReadFirst
<1>7. /\ pending' = pending \ {f} /\ group' = Append(group, f)
      /\ UNCHANGED <<run, call, status, batch, got, out>>
  BY <1>4 DEF Take
<1>8. f \in R
  BY <1>5, <1>6
<1>9. /\ group' \in Seq(R)
      /\ Len(group') = Len(group) + 1
      /\ DOMAIN group' = 1 .. Len(group) + 1
      /\ Len(group) \in Nat /\ DOMAIN group = 1 .. Len(group)
      /\ \A i \in 1 .. Len(group) : group'[i] = group[i]
      /\ group'[Len(group) + 1] = f
  BY <1>5, <1>7, <1>8, AppendProperties
<1>10. \A i \in 1 .. Len(group) : group[i].chunk = f.chunk
  <2>1. CASE group = <<>>
    BY <1>9, <2>1
  <2>2. CASE group # <<>>
    <3>1. f.chunk = group[1].chunk
      BY <1>4, <2>2
    <3>2. \A i, j \in 1 .. Len(group) : i < j => group[i].chunk = group[j].chunk
      BY <1>5, <1>9 DEF GroupRises
    <3>3. \A i \in 1 .. Len(group) : 1 \in 1 .. Len(group) /\ (i = 1 \/ 1 < i)
      BY <1>9
    <3>4. QED
      BY <3>1, <3>2, <3>3
  <2>3. QED
    BY <2>1, <2>2
<1>11. \A r \in R : r.chunk \in Nat
  BY <1>2, <1>3, ReadsAre
<1>12. \A i \in 1 .. Len(group) : End(group[i]) <= f.offset
  <2> SUFFICES ASSUME NEW i \in 1 .. Len(group) PROVE End(group[i]) <= f.offset
    OBVIOUS
  <2>1. Before(group[i], f) /\ group[i].chunk = f.chunk /\ f.chunk \in Nat
    BY <1>5, <1>6, <1>8, <1>9, <1>10, <1>11
  <2>2. QED
    BY <2>1 DEF Before
<1>13. GroupRises'
  <2> SUFFICES ASSUME NEW i \in 1 .. Len(group) + 1, NEW j \in 1 .. Len(group) + 1, i < j
               PROVE  group'[i].chunk = group'[j].chunk /\ End(group'[i]) <= group'[j].offset
    BY <1>9 DEF GroupRises, End
  <2>1. CASE j = Len(group) + 1
    <3>1. i \in 1 .. Len(group) /\ group'[i] = group[i] /\ group'[j] = f
      BY <1>9, <2>1
    <3>2. QED
      BY <1>10, <1>12, <3>1
  <2>2. CASE j \in 1 .. Len(group)
    <3>1. i \in 1 .. Len(group) /\ group'[i] = group[i] /\ group'[j] = group[j]
      BY <1>9, <2>2
    <3>2. group[i].chunk = group[j].chunk /\ End(group[i]) <= group[j].offset
      BY <1>5, <1>9, <2>2, <3>1 DEF GroupRises
    <3>3. QED
      BY <3>1, <3>2
  <2>3. QED
    BY <1>9, <2>1, <2>2
<1>14. \A r \in pending', i \in DOMAIN group' : Before(group'[i], r)
  <2> SUFFICES ASSUME NEW r \in pending \ {f}, NEW i \in 1 .. Len(group) + 1
               PROVE  Before(group'[i], r)
    BY <1>7, <1>9
  <2>1. CASE i = Len(group) + 1
    BY <1>6, <1>9, <2>1
  <2>2. CASE i \in 1 .. Len(group)
    BY <1>5, <1>9, <2>2
  <2>3. QED
    BY <1>9, <2>1, <2>2
<1>15. Settled' = Settled
  <2>1. ToSet(group)' = ToSet(group) \cup {f}
    BY <1>5, <1>7, <1>8, AppendedSet
  <2>2. Settled' = R \ (pending' \cup ToSet(group)')
    BY <1>3, <1>7, SettledOf
  <2>3. QED
    BY <1>3, <1>6, <1>7, <2>1, <2>2 DEF Settled
<1>16. (got = {Sliced(r) : r \in Settled})'
  <2>1. \A r : Sliced(r)' = Sliced(r)
    BY <1>7, SettledOf
  <2>2. QED
    BY <1>5, <1>7, <1>15, <2>1
<1>17. (\A r \in Settled : Assembles(SerialRaw(r.k, r.stream), r.size, run.timestamps[r.k]))'
  <2>1. \A r : SerialRaw(r.k, r.stream)' = SerialRaw(r.k, r.stream)
    BY <1>7, SettledOf
  <2>2. QED
    BY <1>5, <1>7, <1>15, <2>1
<1>18. (pending \subseteq Reads(batch) /\ group \in Seq(Reads(batch)))'
  <2>1. Reads(batch)' = R
    BY <1>3, <1>7, SettledOf
  <2>2. QED
    BY <1>5, <1>7, <1>9, <2>1
<1>19. (\A r \in pending, i \in DOMAIN group : Before(group[i], r))'
  BY <1>14 DEF Before, End
<1>20. QED
  BY <1>3, <1>4, <1>5, <1>8, <1>13, <1>16, <1>17, <1>18, <1>19 DEF Places

\* The rest of the invariant does not see where a dgram is.
LEMMA TakeRest ==
  ASSUME IInv, Take(FirstRead), status = "reading"
  PROVE  Typed' /\ Delivered' /\ Asked' /\ Idle' /\ Refusals'
<1>1. /\ Typed /\ Delivered /\ Asked /\ Idle /\ Refusals
      /\ UNCHANGED <<run, call, status, batch, got, out>>
  BY DEF IInv, Take
<1>2. Typed' /\ Idle'
  BY <1>1 DEF Typed, Idle
<1>3. Delivered'
  BY <1>1, SameDelivered
<1>4. Asked'
  <2>1. NextBatch' = NextBatch
    BY <1>1 DEF NextBatch, Rest
  <2>2. InRange(batch)' <=> InRange(batch)
    BY <1>1 DEF InRange, Positions
  <2>3. QED
    BY <1>1, <2>1, <2>2 DEF Asked
<1>5. Refusals'
  BY <1>1 DEF Refusals
<1>6. QED
  BY <1>2, <1>3, <1>4, <1>5

LEMMA OpenGroupKeeps == IInv /\ OpenGroup => IInv'
<1> SUFFICES ASSUME IInv, OpenGroup PROVE IInv'
  OBVIOUS
<1>1. status = "reading" /\ group = <<>> /\ pending # {} /\ Take(FirstRead)
  BY DEF OpenGroup
<1>2. Places' /\ FirstRead \in Reads(batch)
  BY <1>1, TakePlaces
<1>3. Typed' /\ Delivered' /\ Asked' /\ Idle' /\ Refusals'
  BY <1>1, TakeRest
<1>4. PICK f : f = FirstRead
  OBVIOUS
<1>5. f.offset \in Nat /\ f.size \in Nat
  <2>1. batch \in Seq(Int) /\ InRange(batch) /\ run \in Runs
    BY <1>1, NextBatchIs DEF IInv, Asked, Typed
  <2>2. QED
    BY <1>2, <1>4, <2>1, ReadsAre
<1>6. group' = <<f>>
  BY <1>1, <1>4 DEF Take
<1>7. (Len(group) = 1 /\ Foreign = {})'
  <2>1. GroupStart' = f.offset /\ Last(group)' = f
    BY <1>6 DEF GroupStart, Last
  <2>2. Span' = f.offset + f.size - f.offset
    BY <2>1 DEF Span
  <2>3. Foreign' = {p \in f.offset .. f.offset + Span' - 1 : p \notin f.offset .. f.offset + f.size - 1}
    BY <1>6, <2>1 DEF Foreign
  <2>4. f.offset + Span' - 1 = f.offset + f.size - 1
    BY <1>5, <2>2
  <2>5. QED
    BY <1>6, <2>3, <2>4
<1>8. MergeBounded'
  BY <1>7, FS_EmptySet, CapsAreNumbers DEF MergeBounded
<1>9. QED
  BY <1>2, <1>3, <1>8 DEF IInv

\* The bytes that come with a new read are the gap in front of it.
LEMMA JoinGroupKeeps == IInv /\ JoinGroup => IInv'
<1> SUFFICES ASSUME IInv, JoinGroup PROVE IInv'
  OBVIOUS
<1>1. status = "reading" /\ group # <<>> /\ pending # {} /\ Joins(FirstRead) /\ Take(FirstRead)
  BY DEF JoinGroup
<1>2. Places' /\ FirstRead \in Reads(batch) /\ group \in Seq(Reads(batch))
  BY <1>1, TakePlaces DEF Joins
<1>3. Typed' /\ Delivered' /\ Asked' /\ Idle' /\ Refusals'
  BY <1>1, TakeRest
<1>4. PICK f : f = FirstRead
  OBVIOUS
<1>5. PICK start : start = GroupStart
  OBVIOUS
<1>6. PICK stop : stop = GroupEnd
  OBVIOUS
<1>7. batch \in Seq(Int) /\ InRange(batch) /\ run \in Runs
  BY <1>1, NextBatchIs DEF IInv, Asked, Typed
<1>8. /\ Len(group) \in Nat /\ Len(group) > 0
      /\ start \in Nat /\ stop \in Nat /\ start < stop
      /\ Span = stop - start
  BY <1>1, <1>2, <1>5, <1>6, <1>7, GroupEndIsLast DEF IInv, Places
<1>9. f.offset \in Nat /\ f.size \in Nat
  BY <1>2, <1>4, <1>7, ReadsAre
<1>10. /\ f.offset - stop \in 0 .. MaxGap
       /\ Max({f.offset + f.size, stop}) - start <= MaxSpan
  BY <1>1, <1>4, <1>5, <1>6 DEF Joins
<1>11. f.offset + f.size - start <= MaxSpan
  <2> DEFINE e == f.offset + f.size
             M == {e, stop}
  <2>1. e \in Int /\ stop <= e /\ M \subseteq Int /\ e \in M /\ \A x \in M : x <= e
    BY <1>8, <1>9, <1>10, CapsAreNumbers
  <2> HIDE DEF e, M
  <2>2. Max(M) = e
    BY <2>1, MaxIs
  <2>3. e - start <= MaxSpan
    BY <1>10, <2>2 DEF M, e
  <2>4. f.offset + f.size \in Nat /\ f.offset + f.size - start = e - start
    BY <1>8, <1>9 DEF e
  <2>5. QED
    BY <2>3, <2>4
<1>12. /\ Len(group') = Len(group) + 1
       /\ DOMAIN group' = 1 .. Len(group) + 1
       /\ \A i \in 1 .. Len(group) : group'[i] = group[i]
       /\ group'[Len(group) + 1] = f
       /\ group' # <<>>
  <2>1. group' = Append(group, f)
    BY <1>1, <1>4 DEF Take
  <2>2. QED
    BY <1>2, <1>4, <2>1, AppendProperties
<1>13. GroupStart' = start /\ Last(group)' = f
  <2>1. GroupStart' = group'[1].offset /\ start = group[1].offset
    BY <1>1, <1>5, <1>12 DEF GroupStart
  <2>2. QED
    BY <1>8, <1>12, <2>1 DEF Last
<1>14. Span' = f.offset + f.size - start
  BY <1>13 DEF Span
<1>15. Span' <= MaxSpan
  BY <1>11, <1>14
<1> DEFINE gap == stop .. f.offset - 1
<1>16. Foreign' \subseteq Foreign \cup gap
  <2> SUFFICES ASSUME NEW p \in Foreign' PROVE p \in Foreign \cup gap
    OBVIOUS
  <2>1. /\ p \in start .. start + Span' - 1
        /\ \A i \in DOMAIN group' : p \notin group'[i].offset .. group'[i].offset + group'[i].size - 1
    BY <1>13 DEF Foreign
  <2>2. p \in Int /\ start <= p /\ p < f.offset + f.size
    BY <1>8, <1>9, <1>14, <2>1
  <2>3. ~ (f.offset <= p)
    BY <1>8, <1>9, <1>12, <2>1, <2>2
  <2>4. \A i \in DOMAIN group : p \notin group[i].offset .. group[i].offset + group[i].size - 1
    BY <1>2, <1>8, <1>12, <2>1
  <2>5. CASE p < stop
    BY <1>5, <1>8, <2>2, <2>4, <2>5 DEF Foreign
  <2>6. CASE stop <= p
    BY <1>8, <1>9, <2>2, <2>3, <2>6
  <2>7. QED
    BY <1>8, <2>2, <2>5, <2>6
<1>17. IsFiniteSet(Foreign)
  <2>1. Foreign \subseteq start .. start + Span - 1
    BY <1>5 DEF Foreign
  <2>2. IsFiniteSet(start .. start + Span - 1)
    <3>1. start \in Int /\ start + Span - 1 \in Int
      BY <1>8
    <3>2. QED
      BY <3>1, FS_Interval
  <2>3. QED
    BY <2>1, <2>2, FS_Subset
<1>18. IsFiniteSet(gap) /\ Cardinality(gap) <= MaxGap
  <2>1. stop \in Int /\ f.offset - 1 \in Int
    BY <1>8, <1>9
  <2>2. IsFiniteSet(gap) /\ Cardinality(gap) = IF stop > f.offset - 1 THEN 0 ELSE f.offset - 1 - stop + 1
    BY <2>1, FS_Interval
  <2> HIDE DEF gap
  <2>3. QED
    BY <1>8, <1>9, <1>10, <2>2, CapsAreNumbers
<1> HIDE DEF gap
<1>19. Cardinality(Foreign') <= Cardinality(Foreign) + MaxGap
  <2>1. /\ IsFiniteSet(Foreign \cup gap)
        /\ Cardinality(Foreign \cup gap)
             = Cardinality(Foreign) + Cardinality(gap) - Cardinality(Foreign \cap gap)
    BY <1>17, <1>18, FS_Union
  <2>2. Cardinality(Foreign') <= Cardinality(Foreign \cup gap) /\ IsFiniteSet(Foreign')
    BY <1>16, <2>1, FS_Subset
  <2>3. IsFiniteSet(Foreign \cap gap)
    BY <1>17, FS_Intersection
  <2>4. /\ Cardinality(Foreign) \in Nat /\ Cardinality(gap) \in Nat
        /\ Cardinality(Foreign \cap gap) \in Nat /\ Cardinality(Foreign') \in Nat
        /\ Cardinality(Foreign \cup gap) \in Nat
    BY <1>17, <1>18, <2>1, <2>2, <2>3, FS_CardinalityType
  <2>5. QED
    BY <1>18, <2>1, <2>2, <2>4, CapsAreNumbers
<1>20. Cardinality(Foreign)' <= MaxGap * (Len(group') - 1)
  <2>1. Cardinality(Foreign) <= MaxGap * (Len(group) - 1)
    BY <1>1 DEF IInv, MergeBounded
  <2>2. MaxGap * (Len(group) - 1) + MaxGap = MaxGap * Len(group) /\ MaxGap * Len(group) \in Int
        /\ MaxGap * (Len(group) - 1) \in Int
    <3>1. \A a, n \in Nat : a * (n - 1) + a = a * n /\ a * n \in Int /\ a * (n - 1) \in Int
      OBVIOUS
    <3>2. QED
      BY <1>8, <3>1, CapsAreNumbers
  <2>3. Cardinality(Foreign) \in Nat /\ Cardinality(Foreign') \in Nat
    <3>1. IsFiniteSet(Foreign')
      <4>1. IsFiniteSet(Foreign \cup gap)
        BY <1>17, <1>18, FS_Union
      <4>2. QED
        BY <1>16, <4>1, FS_Subset
    <3>2. QED
      BY <1>17, <3>1, FS_CardinalityType
  <2>4. Len(group') - 1 = Len(group)
    BY <1>8, <1>12
  <2>5. QED
    BY <1>19, <2>1, <2>2, <2>3, <2>4, CapsAreNumbers
<1>21. MergeBounded'
  BY <1>15, <1>20 DEF MergeBounded
<1>22. QED
  BY <1>2, <1>3, <1>21 DEF IInv

LEMMA ReadGroupKeeps == IInv /\ ReadGroup => IInv'
<1> SUFFICES ASSUME IInv, ReadGroup PROVE IInv'
  OBVIOUS
<1>1. /\ Typed /\ Delivered /\ Asked /\ Idle /\ Places /\ Refusals
  BY DEF IInv
<1>2. status = "reading" /\ group # <<>> /\ group' = <<>> /\ UNCHANGED <<run, call, batch, pending, out>>
  BY DEF ReadGroup
<1>3. batch \in Seq(Int) /\ InRange(batch) /\ run \in Runs
  BY <1>1, <1>2, NextBatchIs DEF Asked, Typed
<1>4. /\ pending \subseteq Reads(batch) /\ group \in Seq(Reads(batch)) /\ GroupRises
      /\ \A r \in pending, i \in DOMAIN group : Before(group[i], r)
      /\ got = {Sliced(r) : r \in Settled}
      /\ \A r \in Settled : Assembles(SerialRaw(r.k, r.stream), r.size, run.timestamps[r.k])
  BY <1>1, <1>2 DEF Places
<1>5. /\ Len(Merged) = Span =>
           \A i \in DOMAIN group : Slice(group[i]) = SerialRaw(group[i].k, group[i].stream)
      /\ Len(Merged) # Span =>
           Len(SerialRaw(Last(group).k, Last(group).stream)) # Last(group).size
  BY <1>2, <1>3, <1>4, SlicesAreSerial
<1>6. \A i \in DOMAIN group : group[i] \in Reads(batch)
  BY <1>4
<1>7. Last(group) \in Reads(batch)
  BY <1>2, <1>4 DEF Last
<1>8. Delivered'
  BY <1>1, <1>2, SameDelivered
<1>9. (InRange(batch) <=> InRange(batch)') /\ NextBatch' = NextBatch
  BY <1>2 DEF InRange, Positions, NextBatch, Rest
<1>10. MergeBounded'
  BY <1>2 DEF MergeBounded
<1> DEFINE Fits == /\ Len(Merged) = Span
                   /\ \A i \in DOMAIN group :
                        Assembles(Slice(group[i]), group[i].size, run.timestamps[group[i].k])
<1>11. CASE ~Fits
  <2>1. status' = "RuntimeError" /\ got' = got
    BY <1>11 DEF ReadGroup
  <2>2. \E r \in Reads(batch) : ~Assembles(SerialRaw(r.k, r.stream), r.size, run.timestamps[r.k])
    <3>1. CASE Len(Merged) # Span
      BY <1>5, <1>7, <3>1 DEF Assembles
    <3>2. CASE Len(Merged) = Span
      BY <1>5, <1>6, <1>11, <3>2
    <3>3. QED
      BY <3>1, <3>2
  <2>3. NotAllSerial
    BY <1>3, <2>2, NotSerial DEF NotAllSerial
  <2>4. NotAllSerial'
    BY <1>2, <2>3, SameRefusal
  <2>5. Refusals'
    BY <2>1, <2>4 DEF Refusals, NotAllSerial
  <2>6. Typed' /\ Asked' /\ Idle' /\ Places'
    BY <1>1, <1>2, <2>1 DEF Typed, Statuses, Asked, Idle, Places
  <2>7. QED
    BY <1>8, <1>10, <2>5, <2>6 DEF IInv
<1>12. CASE Fits
  <2>1. /\ status' = status
        /\ got' = got \cup {[k |-> group[i].k, stream |-> group[i].stream,
                             raw |-> Slice(group[i])] : i \in DOMAIN group}
    BY <1>12 DEF ReadGroup
  <2>2. \A i \in DOMAIN group :
          /\ Slice(group[i]) = SerialRaw(group[i].k, group[i].stream)
          /\ Assembles(SerialRaw(group[i].k, group[i].stream), group[i].size,
                       run.timestamps[group[i].k])
    BY <1>5, <1>12
  <2> HIDE DEF Fits
  <2>3. \A r \in pending : r \notin ToSet(group)
    <3> SUFFICES ASSUME NEW i \in DOMAIN group, group[i] \in pending PROVE FALSE
      BY DEF ToSet
    <3>1. Before(group[i], group[i])
      BY <1>4
    <3>2. /\ group[i].chunk \in Nat /\ group[i].offset \in Nat
          /\ group[i].size \in Nat /\ group[i].size > 0
      BY <1>3, <1>6, ReadsAre
    <3>3. QED
      BY <3>1, <3>2 DEF Before, End
  <2>4. Settled' = Settled \cup ToSet(group)
    <3>1. ToSet(group)' = {}
      BY <1>2 DEF ToSet
    <3>2. Settled' = Reads(batch) \ (pending' \cup ToSet(group)')
      BY <1>2, SettledOf
    <3>3. ToSet(group) \subseteq Reads(batch)
      BY <1>6 DEF ToSet
    <3>4. QED
      BY <1>2, <2>3, <3>1, <3>2, <3>3 DEF Settled
  <2>5. (got = {Sliced(r) : r \in Settled})'
    <3>1. got' = got \cup {Sliced(r) : r \in ToSet(group)}
      <4>1. {[k |-> group[i].k, stream |-> group[i].stream, raw |-> Slice(group[i])] : i \in DOMAIN group}
              = {Sliced(r) : r \in ToSet(group)}
        BY <2>2 DEF Sliced, ToSet
      <4>2. QED
        BY <2>1, <4>1
    <3>2. \A r : Sliced(r)' = Sliced(r)
      BY <1>2, SettledOf
    <3>3. QED
      BY <1>4, <2>4, <3>1, <3>2
  <2>6. (\A r \in Settled : Assembles(SerialRaw(r.k, r.stream), r.size, run.timestamps[r.k]))'
    <3>1. \A r : SerialRaw(r.k, r.stream)' = SerialRaw(r.k, r.stream)
      BY <1>2, SettledOf
    <3>2. \A r \in ToSet(group) :
            Assembles(SerialRaw(r.k, r.stream), r.size, run.timestamps[r.k])
      BY <2>2 DEF ToSet
    <3>3. QED
      BY <1>2, <1>4, <2>4, <3>1, <3>2
  <2>7. (pending \subseteq Reads(batch) /\ group \in Seq(Reads(batch)))'
    <3>1. Reads(batch)' = Reads(batch)
      BY <1>2, SettledOf
    <3>2. QED
      BY <1>2, <1>4, <3>1
  <2>8. GroupRises' /\ (\A r \in pending, i \in DOMAIN group : Before(group[i], r))'
    BY <1>2 DEF GroupRises
  <2>9. Places'
    BY <2>5, <2>6, <2>7, <2>8 DEF Places
  <2>10. Typed' /\ Asked' /\ Idle'
    BY <1>1, <1>2, <1>9, <2>1 DEF Typed, Asked, Idle
  <2>11. Refusals'
    BY <1>2, <2>1 DEF Refusals
  <2>12. QED
    BY <1>8, <1>10, <2>9, <2>10, <2>11 DEF IInv
<1>13. QED
  BY <1>11, <1>12

\* When nothing is left to read, the slices of a position are its event.
LEMMA EventsAreSerial ==
  ASSUME IInv, status = "reading", pending = {}, group = <<>>, NEW k \in ToSet(batch)
  PROVE  SerialReads(k) /\ Event(k) = ReadEventAt(k)
<1>1. batch \in Seq(Int) /\ InRange(batch) /\ run \in Runs
  BY NextBatchIs DEF IInv, Asked, Typed
<1>2. Settled = Reads(batch)
  BY DEF Settled, ToSet
<1>3. /\ got = {Sliced(r) : r \in Reads(batch)}
      /\ \A r \in Reads(batch) : Assembles(SerialRaw(r.k, r.stream), r.size, run.timestamps[r.k])
  BY <1>2 DEF IInv, Places
<1> DEFINE D == DOMAIN run.entries[k]
<1>4. \A s \in D : /\ ReadOf(k, s) \in Reads(batch)
                   /\ ReadOf(k, s).k = k /\ ReadOf(k, s).stream = s
                   /\ ReadOf(k, s).size = run.entries[k][s].size
  BY <1>1, ReadsOf DEF ReadOf
<1>5. SerialReads(k)
  <2> SUFFICES ASSUME NEW s \in D
               PROVE  Assembles(SerialRaw(k, s), run.entries[k][s].size, run.timestamps[k])
    BY DEF SerialReads
  <2>1. PICK r \in Reads(batch) : r.k = k /\ r.stream = s /\ r.size = run.entries[k][s].size
    BY <1>4
  <2>2. Assembles(SerialRaw(r.k, r.stream), r.size, run.timestamps[r.k])
    BY <1>3
  <2>3. QED
    BY <2>1, <2>2
<1>6. \A g \in got : g.k = k => g.stream \in D /\ g.raw = SerialRaw(k, g.stream)
  <2> SUFFICES ASSUME NEW r \in Reads(batch), r.k = k
               PROVE  r.stream \in D
    BY <1>3 DEF Sliced
  <2>1. QED
    BY <1>1, ReadsAre
<1>7. \A s \in D : \E g \in got : g.k = k /\ g.stream = s
  <2> SUFFICES ASSUME NEW s \in D PROVE \E g \in got : g.k = k /\ g.stream = s
    OBVIOUS
  <2>1. Sliced(ReadOf(k, s)) \in got
    BY <1>3, <1>4
  <2>2. Sliced(ReadOf(k, s)).k = k /\ Sliced(ReadOf(k, s)).stream = s
    BY <1>4 DEF Sliced
  <2>3. QED
    BY <2>1, <2>2
<1>8. {g.stream : g \in {h \in got : h.k = k}} = D
  BY <1>6, <1>7
<1>9. \A s \in D : (CHOOSE g \in got : g.k = k /\ g.stream = s).raw = SerialRaw(k, s)
  <2> SUFFICES ASSUME NEW s \in D
               PROVE  (CHOOSE g \in got : g.k = k /\ g.stream = s).raw = SerialRaw(k, s)
    OBVIOUS
  <2> DEFINE c == CHOOSE g \in got : g.k = k /\ g.stream = s
  <2>1. c \in got /\ c.k = k /\ c.stream = s
    BY <1>7
  <2> HIDE DEF c
  <2>2. c.raw = SerialRaw(k, s)
    BY <1>6, <2>1
  <2>3. QED
    BY <2>2 DEF c
<1>10. Event(k) = [s \in D |-> (CHOOSE g \in got : g.k = k /\ g.stream = s).raw]
  BY <1>8 DEF Event
<1>11. Event(k) = [s \in D |-> SerialRaw(k, s)]
  BY <1>9, <1>10
<1>12. QED
  BY <1>5, <1>11 DEF ReadEventAt

LEMMA DeliverKeeps == IInv /\ Deliver => IInv'
<1> SUFFICES ASSUME IInv, Deliver PROVE IInv'
  OBVIOUS
<1>1. Typed /\ Delivered /\ Asked /\ Idle
  BY DEF IInv
<1>2. /\ status = "reading" /\ pending = {} /\ group = <<>>
      /\ UNCHANGED <<run, call, pending, group>> /\ got' = {}
  BY DEF Deliver
<1>3. /\ batch \in Seq(Int) /\ run \in Runs /\ batch = NextBatch
      /\ Len(out) + Len(batch) <= Len(call.ks)
      /\ \A i \in 1 .. Len(batch) : batch[i] = call.ks[Len(out) + i]
      /\ call.api \in WholeSlice => batch = call.ks /\ out = <<>>
  BY <1>1, <1>2, NextBatchIs DEF Asked, Typed
<1>4. Len(out) \in 0 .. Len(call.ks) /\ Len(call.ks) \in Nat
  BY <1>1, RequestsAssumption DEF Delivered, Typed
<1>5. CASE status' = "ValueError" /\ out' = out
  <2>1. Delivered'
    BY <1>1, <1>2, <1>5, SameDelivered
  <2>2. Typed' /\ Asked' /\ Idle' /\ Places' /\ MergeBounded' /\ Refusals'
    BY <1>1, <1>2, <1>5 DEF Typed, Statuses, Asked, Idle, Places, MergeBounded, Refusals
  <2>3. QED
    BY <2>1, <2>2 DEF IInv
<1>6. CASE /\ out' = out \o [i \in DOMAIN batch |-> Event(batch[i])]
           /\ status' = IF call.api \in WholeSlice THEN "returned" ELSE "yielded"
  <2> DEFINE E == {ReadEventAt(call.ks[i]) : i \in 1 .. Len(call.ks)}
             new == [i \in 1 .. Len(batch) |-> ReadEventAt(batch[i])]
             n == Len(out) + Len(batch)
  <2>1. \A i \in 1 .. Len(batch) : SerialReads(batch[i]) /\ Event(batch[i]) = ReadEventAt(batch[i])
    <3> SUFFICES ASSUME NEW i \in 1 .. Len(batch)
                 PROVE  SerialReads(batch[i]) /\ Event(batch[i]) = ReadEventAt(batch[i])
      OBVIOUS
    <3>1. batch[i] \in ToSet(batch)
      BY <1>3 DEF ToSet
    <3>2. QED
      BY <1>2, <3>1, EventsAreSerial
  <2>2. [i \in DOMAIN batch |-> Event(batch[i])] = new
    BY <1>3, <2>1
  <2>3. out' = out \o new
    BY <1>6, <2>2
  <2>4. Len(batch) \in Nat /\ n \in 0 .. Len(call.ks)
    BY <1>3, <1>4
  <2>5. out \in Seq(E) /\ out = [i \in 1 .. Len(out) |-> ReadEventAt(call.ks[i])]
    <3>1. \A i \in 1 .. Len(out) : i \in 1 .. Len(call.ks)
      BY <1>4
    <3>2. out = [i \in 1 .. Len(out) |-> ReadEventAt(call.ks[i])]
      BY <1>1 DEF Delivered
    <3>3. out \in [1 .. Len(out) -> E]
      BY <3>1, <3>2
    <3>4. QED
      BY <1>4, <3>2, <3>3, SeqDef
  <2>6. new \in Seq(E) /\ Len(new) = Len(batch)
    <3>1. \A i \in 1 .. Len(batch) :
            Len(out) + i \in 1 .. Len(call.ks) /\ new[i] = ReadEventAt(call.ks[Len(out) + i])
      BY <1>3, <1>4, <2>4
    <3>2. new \in [1 .. Len(batch) -> E]
      BY <3>1
    <3>3. QED
      BY <2>4, <3>2
  <2>7. /\ out' \in Seq(E) /\ Len(out') = n
        /\ \A i \in 1 .. n : out'[i] = IF i <= Len(out) THEN out[i] ELSE new[i - Len(out)]
    <3> HIDE DEF new, E
    <3>1. /\ out \o new \in Seq(E) /\ Len(out \o new) = Len(out) + Len(new)
          /\ \A i \in 1 .. Len(out) + Len(new) :
               (out \o new)[i] = IF i <= Len(out) THEN out[i] ELSE new[i - Len(out)]
      BY <2>5, <2>6, ConcatProperties
    <3>2. QED
      BY <2>3, <2>6, <3>1
  <2>8. \A i \in 1 .. n : out'[i] = ReadEventAt(call.ks[i]) /\ SerialReads(call.ks[i])
    <3> SUFFICES ASSUME NEW i \in 1 .. n
                 PROVE  out'[i] = ReadEventAt(call.ks[i]) /\ SerialReads(call.ks[i])
      OBVIOUS
    <3>1. CASE i <= Len(out)
      <4>1. i \in 1 .. Len(out)
        BY <1>4, <2>4, <3>1
      <4>2. out[i] = ReadEventAt(call.ks[i]) /\ SerialReads(call.ks[i])
        BY <1>1, <2>5, <4>1 DEF Delivered
      <4>3. QED
        BY <2>7, <3>1, <4>2
    <3>2. CASE ~ (i <= Len(out))
      <4>1. i - Len(out) \in 1 .. Len(batch) /\ Len(out) + (i - Len(out)) = i
        BY <1>4, <2>4, <3>2
      <4>2. batch[i - Len(out)] = call.ks[i]
        BY <1>3, <4>1
      <4>3. new[i - Len(out)] = ReadEventAt(call.ks[i])
        BY <4>1, <4>2
      <4>4. SerialReads(call.ks[i])
        BY <2>1, <4>1, <4>2
      <4>5. QED
        BY <2>7, <3>2, <4>3, <4>4
    <3>3. QED
      BY <3>1, <3>2
  <2>9. Delivered'
    <3>1. out' = [i \in 1 .. Len(out') |-> ReadEventAt(call.ks[i])]
      BY <2>4, <2>7, <2>8
    <3>2. \A k : (ReadEventAt(k)' = ReadEventAt(k)) /\ (SerialReads(k)' <=> SerialReads(k))
      BY <1>2 DEF ReadEventAt, SerialReads, SerialRaw, Pread, Assembles
    <3>3. (Len(out) \in 0 .. Len(call.ks))'
      BY <1>2, <2>4, <2>7
    <3>4. (out = [i \in 1 .. Len(out) |-> ReadEventAt(call.ks[i])])'
      BY <1>2, <3>1, <3>2
    <3>5. (\A i \in 1 .. Len(out) : SerialReads(call.ks[i]))'
      BY <1>2, <2>7, <2>8, <3>2
    <3>6. QED
      BY <3>3, <3>4, <3>5 DEF Delivered
  <2>10. Typed' /\ Asked' /\ Idle' /\ Places' /\ MergeBounded'
    BY <1>1, <1>2, <1>6 DEF Typed, Statuses, Asked, Idle, Places, MergeBounded
  <2>11. Refusals'
    <3>1. call.api \in WholeSlice => Len(out') = Len(call.ks)
      BY <1>3, <1>4, <2>4, <2>7
    <3>2. QED
      BY <1>2, <1>6, <3>1 DEF Refusals
  <2>12. QED
    BY <2>9, <2>10, <2>11 DEF IInv
<1>7. QED
  BY <1>5, <1>6 DEF Deliver

THEOREM Inductive == Spec => []IInv
<1>1. Init => IInv
  BY IInvInit
<1>2. IInv /\ [Next]_vars => IInv'
  <2> SUFFICES ASSUME IInv, [Next]_vars PROVE IInv'
    OBVIOUS
  <2>1. CASE CheckCall
    BY <2>1, CheckCallKeeps
  <2>2. CASE Gather
    BY <2>2, GatherKeeps
  <2>3. CASE OpenGroup
    BY <2>3, OpenGroupKeeps
  <2>4. CASE JoinGroup
    BY <2>4, JoinGroupKeeps
  <2>5. CASE ReadGroup
    BY <2>5, ReadGroupKeeps
  <2>6. CASE Deliver
    BY <2>6, DeliverKeeps
  <2>7. CASE Resume
    BY <2>7, ResumeKeeps
  <2>8. CASE UNCHANGED vars
    <3>1. UNCHANGED <<run, call, status, batch, pending, group, got, out>>
      BY <2>8 DEF vars
    <3>2. Delivered'
      BY <3>1, SameDelivered DEF IInv
    <3>3. Asked'
      BY <3>1 DEF IInv, Asked, NextBatch, Rest, InRange, Positions
    <3>4. Typed' /\ Idle' /\ Refusals'
      <4>1. NotAllSerial => NotAllSerial'
        BY <3>1, SameRefusal
      <4>2. InRange(call.ks)' <=> InRange(call.ks)
        BY <3>1 DEF InRange, Positions
      <4>3. Refusals'
        BY <3>1, <4>1, <4>2 DEF IInv, Refusals, NotAllSerial
      <4>4. QED
        BY <3>1, <4>3 DEF IInv, Typed, Idle
    <3>5. MergeBounded'
      BY <3>1 DEF IInv, MergeBounded, Foreign, Span, GroupStart, Last
    <3>6. Places'
      <4>1. /\ Reads(batch)' = Reads(batch)
            /\ \A r : Sliced(r)' = Sliced(r)
            /\ \A r : SerialRaw(r.k, r.stream)' = SerialRaw(r.k, r.stream)
        BY <3>1, SettledOf
      <4>2. Settled' = Settled
        BY <3>1, <4>1 DEF Settled, ToSet
      <4>3. GroupRises' <=> GroupRises
        BY <3>1 DEF GroupRises, End
      <4>4. (\A r \in pending, i \in DOMAIN group : Before(group[i], r))'
              <=> (\A r \in pending, i \in DOMAIN group : Before(group[i], r))
        BY <3>1 DEF Before, End
      <4>5. (got = {Sliced(r) : r \in Settled})' <=> (got = {Sliced(r) : r \in Settled})
        BY <3>1, <4>1, <4>2
      <4>6. (\A r \in Settled : Assembles(SerialRaw(r.k, r.stream), r.size, run.timestamps[r.k]))'
              <=> (\A r \in Settled :
                     Assembles(SerialRaw(r.k, r.stream), r.size, run.timestamps[r.k]))
        BY <3>1, <4>1, <4>2
      <4>7. QED
        BY <3>1, <4>1, <4>3, <4>4, <4>5, <4>6 DEF IInv, Places
    <3>7. QED
      BY <3>2, <3>3, <3>4, <3>5, <3>6 DEF IInv
  <2>9. QED
    BY <2>1, <2>2, <2>3, <2>4, <2>5, <2>6, <2>7, <2>8 DEF Next, Step
<1>3. QED
  BY <1>1, <1>2, PTL DEF Spec

-----------------------------------------------------------------------------
(* What follows from it                                                    *)

\* Whatever is asked, merged and sliced, the caller gets what the serial
\* reads of the same positions give, and errors only where they fail: what
\* read_events, read_stack, iter_events and iter_stack promise.
THEOREM AlwaysSameAsSerial == Spec => []SameAsSerial
<1>1. IInv => SameAsSerial
  <2> SUFFICES ASSUME IInv PROVE SameAsSerial
    OBVIOUS
  <2>1. Delivered /\ Refusals
    BY DEF IInv
  <2>2. call.ks \in Seq(Int)
    BY RequestsAssumption DEF IInv, Typed
  <2>3. DOMAIN out = 1 .. Len(out)
    BY <2>1 DEF Delivered
  <2>4. \A i \in DOMAIN out : SerialReads(call.ks[i]) /\ out[i] = ReadEventAt(call.ks[i])
    <3> SUFFICES ASSUME NEW i \in 1 .. Len(out)
                 PROVE  SerialReads(call.ks[i]) /\ out[i] = ReadEventAt(call.ks[i])
      BY <2>3
    <3>1. out = [j \in 1 .. Len(out) |-> ReadEventAt(call.ks[j])]
      BY <2>1 DEF Delivered
    <3>2. out[i] = ReadEventAt(call.ks[i])
      BY <3>1
    <3>3. QED
      BY <2>1, <3>2 DEF Delivered
  <2>5. Len(out) <= Len(call.ks)
    BY <2>1, <2>2 DEF Delivered
  <2>6. QED
    BY <2>1, <2>4, <2>5 DEF SameAsSerial, Refusals
<1>2. QED
  BY <1>1, Inductive, PTL

\* The dgrams of a batch are partitioned into those still to be read, those in
\* the group and the slices, whatever was merged.
THEOREM AlwaysReadsEachOnce == Spec => []ReadsEachOnce
<1>1. IInv => ReadsEachOnce
  <2> SUFFICES ASSUME IInv, status = "reading"
               PROVE  /\ Cardinality(pending) + Len(group) + Cardinality(got)
                           = Cardinality(Reads(batch))
                      /\ \A r \in pending, i \in DOMAIN group :
                           r.chunk = group[i].chunk => r.offset >= GroupEnd
    BY DEF ReadsEachOnce
  <2>1. batch \in Seq(Int) /\ InRange(batch) /\ run \in Runs
    BY NextBatchIs DEF IInv, Asked, Typed
  <2>2. /\ pending \subseteq Reads(batch) /\ group \in Seq(Reads(batch)) /\ GroupRises
        /\ \A r \in pending, i \in DOMAIN group : Before(group[i], r)
        /\ got = {Sliced(r) : r \in Settled}
    BY DEF IInv, Places
  <2> DEFINE R == Reads(batch)
             G == ToSet(group)
  <2>3. IsFiniteSet(R)
    BY <2>1, ReadsFinite
  <2>4. G \subseteq R /\ Len(group) \in Nat /\ DOMAIN group = 1 .. Len(group)
    BY <2>2 DEF ToSet
  <2>5. \A r \in R : /\ r.chunk \in Nat /\ r.offset \in Nat /\ r.size \in Nat /\ r.size > 0
                     /\ r = ReadOf(r.k, r.stream)
    BY <2>1, ReadsAre
  <2>6. pending \cap G = {}
    <3> SUFFICES ASSUME NEW i \in DOMAIN group, group[i] \in pending PROVE FALSE
      BY DEF ToSet
    <3>1. Before(group[i], group[i]) /\ group[i] \in R
      BY <2>2
    <3>2. QED
      BY <2>5, <3>1 DEF Before, End
  <2>7. Cardinality(G) = Len(group)
    <3> DEFINE f == [i \in 1 .. Len(group) |-> group[i]]
    <3>1. f \in Surjection(1 .. Len(group), G)
      BY <2>4 DEF Surjection, ToSet
    <3>2. f \in Injection(1 .. Len(group), G)
      <4>1. ASSUME NEW i \in 1 .. Len(group), NEW j \in 1 .. Len(group), i < j
            PROVE  group[i] # group[j]
        <5>1. End(group[i]) <= group[j].offset /\ group[i] \in R
          BY <2>2, <2>4, <4>1 DEF GroupRises
        <5>2. QED
          BY <2>5, <5>1 DEF End
      <4>2. \A i, j \in 1 .. Len(group) : group[i] = group[j] => i = j
        <5> SUFFICES ASSUME NEW i \in 1 .. Len(group), NEW j \in 1 .. Len(group), i # j
                     PROVE  group[i] # group[j]
          OBVIOUS
        <5>1. CASE i < j
          BY <4>1, <5>1
        <5>2. CASE j < i
          BY <4>1, <5>2
        <5>3. QED
          BY <2>4, <5>1, <5>2
      <4>3. f \in [1 .. Len(group) -> G]
        BY <2>4 DEF ToSet
      <4>4. QED
        BY <4>2, <4>3 DEF Injection, IsInjective
    <3>3. IsFiniteSet(1 .. Len(group)) /\ Cardinality(1 .. Len(group)) = Len(group)
      <4>1. 1 \in Int /\ Len(group) \in Int
        BY <2>4
      <4>2. Cardinality(1 .. Len(group)) = IF 1 > Len(group) THEN 0 ELSE Len(group) - 1 + 1
        BY <4>1, FS_Interval
      <4>3. QED
        BY <2>4, <4>1, <4>2, FS_Interval
    <3> HIDE DEF f, G
    <3>4. QED
      BY <3>1, <3>2, <3>3, FS_Surjection
  <2>8. Settled = R \ (pending \cup G)
    BY DEF Settled
  <2>9. IsFiniteSet(Settled) /\ IsFiniteSet(pending) /\ IsFiniteSet(G)
    <3>1. Settled \subseteq R
      BY <2>8
    <3> HIDE DEF R, G
    <3>2. QED
      BY <2>2, <2>3, <2>4, <3>1, FS_Subset DEF R
  <2>10. Cardinality(got) = Cardinality(Settled)
    <3> DEFINE f == [r \in Settled |-> Sliced(r)]
    <3>1. f \in Surjection(Settled, got)
      BY <2>2 DEF Surjection
    <3>2. f \in Injection(Settled, got)
      <4>1. ASSUME NEW r \in Settled, NEW q \in Settled, Sliced(r) = Sliced(q)
            PROVE  r = q
        <5>1. r.k = q.k /\ r.stream = q.stream
          BY <4>1 DEF Sliced
        <5>2. r = ReadOf(r.k, r.stream) /\ q = ReadOf(q.k, q.stream)
          BY <2>5, <2>8
        <5>3. QED
          BY <5>1, <5>2
      <4>2. QED
        BY <2>2, <4>1 DEF Injection, IsInjective
    <3> HIDE DEF f
    <3>3. QED
      BY <2>9, <3>1, <3>2, FS_Surjection
  <2>11. Cardinality(R) = Cardinality(pending) + Cardinality(G) + Cardinality(Settled)
    <3> HIDE DEF R, G
    <3>1. /\ IsFiniteSet(pending \cup G)
          /\ Cardinality(pending \cup G)
               = Cardinality(pending) + Cardinality(G) - Cardinality(pending \cap G)
      BY <2>9, FS_Union
    <3>2. Cardinality(pending \cap G) = 0
      BY <2>6, FS_EmptySet
    <3>3. Cardinality(Settled) = Cardinality(R) - Cardinality(R \cap (pending \cup G))
      BY <2>3, <2>8, FS_Difference
    <3>4. R \cap (pending \cup G) = pending \cup G
      BY <2>2, <2>4 DEF R
    <3>5. /\ Cardinality(R) \in Nat /\ Cardinality(pending) \in Nat /\ Cardinality(G) \in Nat
          /\ Cardinality(Settled) \in Nat /\ Cardinality(pending \cup G) \in Nat
      BY <2>3, <2>9, <3>1, FS_CardinalityType
    <3>6. Cardinality(Settled) = Cardinality(R) - Cardinality(pending \cup G)
      BY <3>3, <3>4
    <3>7. Cardinality(pending \cup G) = Cardinality(pending) + Cardinality(G)
      BY <3>1, <3>2, <3>5
    <3>8. QED
      BY <3>5, <3>6, <3>7
  <2>12. Cardinality(pending) + Len(group) + Cardinality(got) = Cardinality(R)
    BY <2>7, <2>10, <2>11
  <2>13. ASSUME NEW r \in pending, NEW i \in DOMAIN group, r.chunk = group[i].chunk
         PROVE  r.offset >= GroupEnd
    <3>1. group # <<>>
      OBVIOUS
    <3>2. GroupEnd = End(Last(group)) /\ Len(group) \in DOMAIN group
      BY <2>1, <2>2, <2>4, <3>1, GroupEndIsLast
    <3>3. Before(Last(group), r)
      BY <2>2, <3>2 DEF Last
    <3>4. Last(group).chunk = r.chunk
      <4>1. i = Len(group) \/ i < Len(group)
        BY <2>4
      <4>2. QED
        BY <2>2, <2>13, <3>2, <4>1 DEF Last, GroupRises
    <3>5. r \in R /\ Last(group) \in R
      BY <2>2, <3>2 DEF Last
    <3>6. QED
      BY <2>5, <3>2, <3>3, <3>4, <3>5 DEF Before, End
  <2>14. QED
    BY <2>12, <2>13
<1>2. QED
  BY <1>1, Inductive, PTL

\* No merged pread exceeds the span cap, unless it is one dgram, or reads more
\* foreign bytes than the gaps it bridges: what _coalesce_reads promises.
THEOREM AlwaysMergeBounded == Spec => []MergeBounded
<1>1. IInv => MergeBounded
  BY DEF IInv
<1>2. QED
  BY <1>1, Inductive, PTL
-----------------------------------------------------------------------------
(* The memory budget: what is held is part of what the estimate counted     *)

\* What a call holds in slices is its batch's, each slice as long as the index
\* says.
SlicesOfBatch ==
    /\ batch \in Seq(Int) /\ InRange(batch)
    /\ call.api \in WholeSlice => batch = call.ks
    /\ call.api \notin WholeSlice => Len(batch) <= call.batch
    /\ \A g \in got :
          /\ g.k \in ToSet(batch) /\ g.stream \in DOMAIN run.entries[g.k]
          /\ DOMAIN g.raw = 1 .. run.entries[g.k][g.stream].size

\* A whole-slice call that reads is within its budget; nothing is held before.
Budgeted ==
    /\ call.api \in WholeSlice /\ status \in {"next", "reading", "returned", "RuntimeError"} =>
          InRange(call.ks) /\ ~OverBudget(call.ks, call.limit, call.api = "read_events")
    /\ call.api \in WholeSlice /\ out # <<>> => status = "returned"
    /\ got # {} => status \in {"reading", "RuntimeError"}
    /\ status = "RuntimeError" => SlicesOfBatch

\* A generator's batch is no longer than it was asked to be.
LEMMA BatchIsShort ==
  ASSUME Typed, Delivered, Asked, status = "reading", call.api \notin WholeSlice
  PROVE  Len(batch) <= call.batch
<1>1. call.ks \in Seq(Int) /\ call.batch \in Int /\ call.batch > 0
  BY RequestsAssumption DEF Typed, Asked
<1>2. Len(out) \in Nat
  BY <1>1 DEF Delivered
<1>3. batch = SubSeq(Rest, 1, Min({call.batch, Len(Rest)}))
  BY DEF Asked, NextBatch
<1>4. Rest \in Seq(Int) /\ Len(Rest) \in Nat
  BY <1>1, <1>2 DEF Rest
<1>5. PICK m : m = Min({call.batch, Len(Rest)})
  OBVIOUS
<1>6. m \in Nat /\ m <= call.batch /\ m <= Len(Rest)
  BY <1>1, <1>4, <1>5, MinOfTwo
<1>7. Len(SubSeq(Rest, 1, m)) = m
  BY <1>4, <1>6
<1>8. QED
  BY <1>3, <1>5, <1>6, <1>7

\* A read that came whole has the bytes the index says.
LEMMA SerialIsWhole ==
  ASSUME run \in Runs, NEW k \in DOMAIN run.entries, NEW s \in DOMAIN run.entries[k],
         Len(SerialRaw(k, s)) = run.entries[k][s].size
  PROVE  DOMAIN SerialRaw(k, s) = 1 .. run.entries[k][s].size
<1> DEFINE e == run.entries[k][s]
<1>1. PICK chunk, offset, size : chunk = e.chunk /\ offset = e.offset /\ size = e.size
  OBVIOUS
<1>2. /\ chunk \in DOMAIN run.files /\ offset \in Nat /\ size \in Nat /\ size > 0
      /\ run.files[chunk] \in Seq(Byte)
  BY <1>1, RunsAssumption
<1>3. SerialRaw(k, s) = Pread(chunk, size, offset)
  BY <1>1 DEF SerialRaw
<1>4. /\ offset + size <= Len(run.files[chunk])
      /\ Pread(chunk, size, offset) = SubSeq(run.files[chunk], offset + 1, offset + size)
  <2>1. Len(Pread(chunk, size, offset)) = size
    BY <1>1, <1>3
  <2>2. /\ Len(Pread(chunk, size, offset)) = size <=> offset + size <= Len(run.files[chunk])
        /\ offset + size <= Len(run.files[chunk]) =>
             Pread(chunk, size, offset)
               = SubSeq(run.files[chunk], offset + 1, offset + size)
    BY <1>2, PreadLength
  <2>3. QED
    BY <2>1, <2>2
<1>5. PICK file : file = run.files[chunk]
  OBVIOUS
<1>6. DOMAIN SubSeq(file, offset + 1, offset + size) = 1 .. size
  BY <1>2, <1>4, <1>5
<1>7. QED
  BY <1>1, <1>3, <1>4, <1>5, <1>6

LEMMA ReadingSlices ==
  ASSUME IInv, status = "reading"
  PROVE  SlicesOfBatch
<1>1. batch \in Seq(Int) /\ InRange(batch) /\ run \in Runs /\ (call.api \in WholeSlice => batch = call.ks)
  BY NextBatchIs DEF IInv, Asked, Typed
<1>2. call.api \notin WholeSlice => Len(batch) <= call.batch
  BY BatchIsShort DEF IInv
<1>3. ASSUME NEW g \in got
      PROVE  /\ g.k \in ToSet(batch) /\ g.stream \in DOMAIN run.entries[g.k]
             /\ DOMAIN g.raw = 1 .. run.entries[g.k][g.stream].size
  <2>1. PICK r \in Settled : g = Sliced(r)
    BY <1>3 DEF IInv, Places
  <2>2. r \in Reads(batch)
    BY DEF Settled
  <2>3. /\ r.k \in ToSet(batch) /\ r.stream \in DOMAIN run.entries[r.k]
        /\ r = ReadOf(r.k, r.stream) /\ r.size \in Nat
    BY <1>1, <2>2, ReadsAre
  <2>4. r.size = run.entries[r.k][r.stream].size
    BY <2>3 DEF ReadOf
  <2>5. g.k = r.k /\ g.stream = r.stream /\ g.raw = SerialRaw(r.k, r.stream)
    BY <2>1 DEF Sliced
  <2>6. Assembles(SerialRaw(r.k, r.stream), r.size, run.timestamps[r.k])
    BY DEF IInv, Places
  <2>7. Len(g.raw) = r.size
    BY <2>5, <2>6 DEF Assembles
  <2>8. r.k \in DOMAIN run.entries
    BY <1>1, <2>2, ReadsAre
  <2>9. DOMAIN SerialRaw(r.k, r.stream) = 1 .. run.entries[r.k][r.stream].size
    BY <1>1, <2>3, <2>4, <2>5, <2>7, <2>8, SerialIsWhole
  <2>10. QED
    BY <2>3, <2>5, <2>9
<1>4. QED
  BY <1>1, <1>2, <1>3 DEF SlicesOfBatch

\* Run, call, batch and slices the same: so is what is said of them.
LEMMA SameSlices ==
  ASSUME UNCHANGED <<run, call, batch, got>>
  PROVE  /\ SlicesOfBatch' <=> SlicesOfBatch
BY DEF SlicesOfBatch, InRange, Positions, ToSet

LEMMA SameBudget ==
  ASSUME UNCHANGED <<run, call>>
  PROVE  /\ InRange(call.ks)' <=> InRange(call.ks)
         /\ OverBudget(call.ks, call.limit, call.api = "read_events")'
              <=> OverBudget(call.ks, call.limit, call.api = "read_events")
BY DEF InRange, Positions, OverBudget, EstimateReadBytes, RequestedBytes, EventBytes

LEMMA BudgetedStep == IInv /\ Budgeted /\ [Next]_vars => Budgeted'
<1> SUFFICES ASSUME IInv, Budgeted, [Next]_vars PROVE Budgeted'
  OBVIOUS
<1>1. UNCHANGED <<run, call>>
  BY DEF Next, Step, CheckCall, Gather, OpenGroup, JoinGroup, Take, ReadGroup, Deliver, Resume, vars
<1> DEFINE Within == InRange(call.ks) /\ ~OverBudget(call.ks, call.limit, call.api = "read_events")
<1>2. Within' <=> Within
  BY <1>1, SameBudget
<1>3. call.api \in WholeSlice /\ status \in {"next", "reading", "returned", "RuntimeError"} => Within
  BY DEF Budgeted
<1> HIDE DEF Within
<1>4. SUFFICES /\ call.api \in WholeSlice /\ status' \in {"next", "reading", "returned", "RuntimeError"}
                    => Within
               /\ call.api \in WholeSlice /\ out' # <<>> => status' = "returned"
               /\ got' # {} => status' \in {"reading", "RuntimeError"}
               /\ status' = "RuntimeError" => SlicesOfBatch'
  BY <1>1, <1>2 DEF Budgeted, Within
<1>5. CASE CheckCall
  <2>1. /\ UNCHANGED <<run, call, batch, pending, group, got, out>> /\ status = "idle"
        /\ status' \in {"ValueError", "returned", "IndexError", "MemoryError", "next"}
        /\ call.api \in WholeSlice /\ status' \in {"next", "returned"} => Within
    BY <1>5 DEF CheckCall, Within
  <2>2. out = <<>> /\ got = {}
    BY <2>1 DEF IInv, Asked, Idle
  <2>3. QED
    BY <2>1, <2>2
<1>6. CASE Gather
  BY <1>3, <1>6 DEF Gather, IInv, Asked, Idle
<1>7. CASE OpenGroup \/ JoinGroup
  BY <1>3, <1>7 DEF OpenGroup, JoinGroup, Take, IInv, Asked
<1>8. CASE ReadGroup
  <2>1. /\ status = "reading" /\ status' \in {"reading", "RuntimeError"}
        /\ UNCHANGED <<run, call, batch, out>>
        /\ status' = "RuntimeError" => got' = got
    BY <1>8 DEF ReadGroup
  <2>2. SlicesOfBatch
    BY <2>1, ReadingSlices
  <2>3. status' = "RuntimeError" => SlicesOfBatch'
    BY <2>1, <2>2, SameSlices
  <2>4. QED
    BY <1>3, <2>1, <2>3 DEF IInv, Asked
<1>9. CASE Deliver
  <2>1. /\ status = "reading" /\ got' = {}
        /\ \/ status' = "ValueError" /\ out' = out
           \/ status' = IF call.api \in WholeSlice THEN "returned" ELSE "yielded"
    BY <1>9 DEF Deliver
  <2>2. QED
    BY <1>3, <2>1 DEF IInv, Asked
<1>10. CASE Resume
  BY <1>3, <1>10 DEF Resume, IInv, Asked, Idle
<1>11. CASE UNCHANGED vars
  <2>1. UNCHANGED <<run, call, status, batch, out, got>>
    BY <1>11 DEF vars
  <2>2. SlicesOfBatch' <=> SlicesOfBatch
    BY <2>1, SameSlices
  <2>3. QED
    BY <1>3, <2>1, <2>2 DEF Budgeted
<1>12. QED
  BY <1>5, <1>6, <1>7, <1>8, <1>9, <1>10, <1>11 DEF Next, Step

LEMMA UnionFinite ==
  ASSUME NEW I, IsFiniteSet(I), NEW f, \A i \in I : IsFiniteSet(f[i])
  PROVE  IsFiniteSet(UNION {f[i] : i \in I})
<1> DEFINE F == {f[i] : i \in I}
           g == [i \in I |-> f[i]]
<1>1. g \in Surjection(I, F)
  BY DEF Surjection
<1> HIDE DEF g
<1>2. IsFiniteSet(F)
  BY <1>1, FS_Surjection
<1>3. \A T \in F : IsFiniteSet(T)
  OBVIOUS
<1> HIDE DEF F
<1>4. IsFiniteSet(UNION F)
  BY <1>2, <1>3, FS_UNION
<1>5. QED
  BY <1>4 DEF F

LEMMA PairsFinite ==
  ASSUME NEW a, NEW T, IsFiniteSet(T)
  PROVE  IsFiniteSet({a} \X T)
<1> DEFINE g == [x \in T |-> <<a, x>>]
<1>1. g \in [T -> {a} \X T]
  OBVIOUS
<1>2. \A y \in {a} \X T : \E x \in T : g[x] = y
  <2> SUFFICES ASSUME NEW y \in {a} \X T
               PROVE  \E x \in T : g[x] = y
    OBVIOUS
  <2>1. y = <<a, y[2]>> /\ y[2] \in T
    OBVIOUS
  <2>2. QED
    BY <2>1
<1> HIDE DEF g
<1>3. g \in Surjection(T, {a} \X T)
  BY <1>1, <1>2 DEF Surjection
<1>4. QED
  BY <1>3, FS_Surjection

\* A request is for finitely many bytes.
LEMMA RequestedFinite ==
  ASSUME run \in Runs, NEW ks \in Seq(Int), InRange(ks), NEW dedupe
  PROVE  IsFiniteSet(RequestedBytes(ks, dedupe))
<1>1. ASSUME NEW k \in DOMAIN run.entries
      PROVE  IsFiniteSet(EventBytes(k))
  <2> DEFINE D == DOMAIN run.entries[k]
             f == [s \in D |-> {s} \X (1 .. run.entries[k][s].size)]
  <2>1. IsFiniteSet(D)
    BY RunsAssumption
  <2>2. ASSUME NEW s \in D
        PROVE  IsFiniteSet(f[s])
    <3>1. run.entries[k][s].size \in Nat
      BY RunsAssumption
    <3>2. IsFiniteSet(1 .. run.entries[k][s].size)
      BY <3>1, FS_Interval
    <3>3. QED
      BY <3>2, PairsFinite
  <2>3. EventBytes(k) = UNION {f[s] : s \in D}
    BY DEF EventBytes
  <2> HIDE DEF f, D
  <2>4. QED
    BY <2>1, <2>2, <2>3, UnionFinite
<1> DEFINE f == [i \in DOMAIN ks |-> {IF dedupe THEN ks[i] ELSE i} \X EventBytes(ks[i])]
<1>2. IsFiniteSet(DOMAIN ks)
  <2>1. DOMAIN ks = 1 .. Len(ks) /\ Len(ks) \in Nat
    OBVIOUS
  <2>2. IsFiniteSet(1 .. Len(ks))
    BY <2>1, FS_Interval
  <2>3. QED
    BY <2>1, <2>2
<1>3. ASSUME NEW i \in DOMAIN ks
      PROVE  IsFiniteSet(f[i])
  <2>1. ks[i] \in DOMAIN run.entries
    BY RunsAssumption DEF InRange, Positions
  <2>2. IsFiniteSet(EventBytes(ks[i]))
    BY <1>1, <2>1
  <2>3. IsFiniteSet({IF dedupe THEN ks[i] ELSE i} \X EventBytes(ks[i]))
    BY <2>2, PairsFinite
  <2>4. QED
    BY <2>3
<1>4. RequestedBytes(ks, dedupe) = UNION {f[i] : i \in DOMAIN ks}
  BY DEF RequestedBytes
<1> HIDE DEF f
<1>5. QED
  BY <1>2, <1>3, <1>4, UnionFinite

\* Counted once per position, the bytes are no more than counted row by row.
LEMMA DistinctIsLess ==
  ASSUME run \in Runs, NEW ks \in Seq(Int), InRange(ks)
  PROVE  Cardinality(RequestedBytes(ks, TRUE)) <= Cardinality(RequestedBytes(ks, FALSE))
<1> DEFINE S == RequestedBytes(ks, FALSE)
           T == RequestedBytes(ks, TRUE)
           f == [x \in S |-> <<ks[x[1]], x[2]>>]
<1>1. \A x : x \in S <=> \E i \in DOMAIN ks : \E b \in EventBytes(ks[i]) : x = <<i, b>>
  BY DEF RequestedBytes
<1>2. \A y : y \in T <=> \E i \in DOMAIN ks : \E b \in EventBytes(ks[i]) : y = <<ks[i], b>>
  BY DEF RequestedBytes
<1>3. IsFiniteSet(S)
  BY RequestedFinite
<1> HIDE DEF S, T
<1>4. \A x \in S : f[x] \in T
  BY <1>1, <1>2
<1>5. \A y \in T : \E x \in S : f[x] = y
  <2> SUFFICES ASSUME NEW y \in T
               PROVE  \E x \in S : f[x] = y
    OBVIOUS
  <2>1. PICK i \in DOMAIN ks : \E b \in EventBytes(ks[i]) : y = <<ks[i], b>>
    BY <1>2
  <2>4. PICK b \in EventBytes(ks[i]) : y = <<ks[i], b>>
    BY <2>1
  <2>2. <<i, b>> \in S /\ f[<<i, b>>] = <<ks[i], b>>
    BY <1>1
  <2>3. QED
    BY <2>4, <2>2
<1>6. f \in Surjection(S, T)
  <2>1. f \in [S -> T]
    BY <1>4
  <2> HIDE DEF f
  <2>2. QED
    BY <1>5, <2>1 DEF Surjection
<1> HIDE DEF f
<1>7. Cardinality(T) <= Cardinality(S)
  BY <1>3, <1>6, FS_Surjection
<1>8. QED
  BY <1>7 DEF S, T

\* Part of a request within the budget is within the limit.
LEMMA PartWithinLimit ==
  ASSUME run \in Runs, call \in Requests, call.limit # None, InRange(call.ks),
         NEW dedupe \in BOOLEAN, ~OverBudget(call.ks, call.limit, dedupe),
         NEW part, part \subseteq RequestedBytes(call.ks, dedupe)
  PROVE  Cardinality(part) <= call.limit
<1>1. call.ks \in Seq(Int) /\ call.limit \in Int
  BY RequestsAssumption
<1>2. PICK whole : whole = RequestedBytes(call.ks, dedupe)
  OBVIOUS
<1>3. IsFiniteSet(whole)
  BY <1>1, <1>2, RequestedFinite
<1>4. IsFiniteSet(part) /\ Cardinality(part) <= Cardinality(whole)
  BY <1>2, <1>3, FS_Subset
<1>5. Cardinality(part) \in Nat /\ Cardinality(whole) \in Nat
  BY <1>3, <1>4, FS_CardinalityType
<1>6. Cardinality(whole) <= call.limit
  BY <1>1, <1>2, <1>5 DEF OverBudget, EstimateReadBytes
<1>7. QED
  BY <1>1, <1>4, <1>5, <1>6

\* A budget kept row by row is kept position by position.
LEMMA DistinctWithin ==
  ASSUME run \in Runs, call \in Requests, call.limit # None, InRange(call.ks),
         NEW dedupe \in BOOLEAN, ~OverBudget(call.ks, call.limit, dedupe)
  PROVE  ~OverBudget(call.ks, call.limit, TRUE)
<1>1. CASE dedupe = TRUE
  BY <1>1
<1>2. CASE dedupe = FALSE
  <2>1. call.ks \in Seq(Int) /\ call.limit \in Int
    BY RequestsAssumption
  <2>2. PICK rows, distinct : /\ rows = RequestedBytes(call.ks, FALSE)
                              /\ distinct = RequestedBytes(call.ks, TRUE)
    OBVIOUS
  <2>3. IsFiniteSet(rows) /\ IsFiniteSet(distinct) /\ Cardinality(distinct) <= Cardinality(rows)
    BY <2>1, <2>2, RequestedFinite, DistinctIsLess
  <2>4. Cardinality(rows) \in Nat /\ Cardinality(distinct) \in Nat
    BY <2>3, FS_CardinalityType
  <2>5. ~ (Cardinality(rows) > call.limit)
    BY <1>2, <2>2 DEF OverBudget, EstimateReadBytes
  <2>6. ~ (Cardinality(distinct) > call.limit)
    BY <2>1, <2>3, <2>4, <2>5
  <2>7. EstimateReadBytes(call.ks, TRUE) = Cardinality(distinct)
    BY <2>2 DEF EstimateReadBytes
  <2>8. QED
    BY <2>6, <2>7 DEF OverBudget
<1>3. QED
  BY <1>1, <1>2

LEMMA TriplesWithin ==
  ASSUME NEW a, NEW b, NEW T, NEW W, \A n \in T : <<a, <<b, n>>>> \in W
  PROVE  {a} \X ({b} \X T) \subseteq W
<1> SUFFICES ASSUME NEW x \in {a} \X ({b} \X T)
             PROVE  x \in W
  OBVIOUS
<1>1. x = <<a, x[2]>> /\ x[2] \in {b} \X T
  OBVIOUS
<1>2. x[2] = <<b, x[2][2]>> /\ x[2][2] \in T
  BY <1>1
<1>3. QED
  BY <1>1, <1>2

\* The slices are of bytes asked for.
LEMMA SlicedWithin ==
  ASSUME call.ks \in Seq(Int), SlicesOfBatch, batch = call.ks
  PROVE  SlicedBytes \subseteq RequestedBytes(call.ks, TRUE)
<1> SUFFICES ASSUME NEW g \in got
             PROVE  {g.k} \X ({g.stream} \X DOMAIN g.raw) \subseteq RequestedBytes(call.ks, TRUE)
  BY DEF SlicedBytes
<1> SUFFICES ASSUME NEW n \in DOMAIN g.raw
             PROVE  <<g.k, <<g.stream, n>>>> \in RequestedBytes(call.ks, TRUE)
  BY TriplesWithin
<1>1. /\ g.k \in ToSet(call.ks) /\ g.stream \in DOMAIN run.entries[g.k]
      /\ n \in 1 .. run.entries[g.k][g.stream].size
  BY DEF SlicesOfBatch
<1>2. PICK i \in DOMAIN call.ks : call.ks[i] = g.k
  BY <1>1 DEF ToSet
<1>3. <<g.stream, n>> \in EventBytes(g.k)
  <2>1. PICK k, s : k = g.k /\ s = g.stream
    OBVIOUS
  <2>2. s \in DOMAIN run.entries[k] /\ <<s, n>> \in {s} \X (1 .. run.entries[k][s].size)
    BY <1>1, <2>1
  <2>3. <<s, n>> \in EventBytes(k)
    BY <2>2 DEF EventBytes
  <2>4. QED
    BY <2>1, <2>3
<1>4. <<call.ks[i], <<g.stream, n>>>> \in RequestedBytes(call.ks, TRUE)
  <2>1. PICK b : b = <<g.stream, n>>
    OBVIOUS
  <2>2. b \in EventBytes(call.ks[i])
    BY <1>2, <1>3, <2>1
  <2>3. <<call.ks[i], b>> \in RequestedBytes(call.ks, TRUE)
    BY <2>2 DEF RequestedBytes
  <2>4. QED
    BY <2>1, <2>3
<1>5. QED
  BY <1>2, <1>4

\* So is what the caller is given, repeat by repeat.
LEMMA GivenWithin ==
  ASSUME Typed, Delivered, InRange(call.ks)
  PROVE  GivenBytes \subseteq RequestedBytes(call.ks, call.api = "read_events")
<1> DEFINE row(i) == IF call.api = "read_events" THEN call.ks[i] ELSE i
<1> SUFFICES ASSUME NEW i \in DOMAIN out, NEW s \in DOMAIN out[i], NEW n \in DOMAIN out[i][s]
             PROVE  <<row(i), <<s, n>>>> \in RequestedBytes(call.ks, call.api = "read_events")
  BY DEF GivenBytes
<1>1. call.ks \in Seq(Int) /\ Len(call.ks) \in Nat /\ DOMAIN call.ks = 1 .. Len(call.ks)
  BY RequestsAssumption DEF Typed
<1>2. i \in 1 .. Len(out) /\ i \in DOMAIN call.ks
  BY <1>1 DEF Delivered
<1>3. out[i] = ReadEventAt(call.ks[i]) /\ SerialReads(call.ks[i])
  <2>1. out = [j \in 1 .. Len(out) |-> ReadEventAt(call.ks[j])]
    BY DEF Delivered
  <2>2. out[i] = ReadEventAt(call.ks[i])
    BY <1>2, <2>1
  <2>3. QED
    BY <1>2, <2>2 DEF Delivered
<1>4. PICK k : k = call.ks[i]
  OBVIOUS
<1>5. s \in DOMAIN run.entries[k] /\ out[i][s] = SerialRaw(k, s)
  BY <1>3, <1>4 DEF ReadEventAt
<1>6. k \in DOMAIN run.entries /\ run \in Runs
  BY <1>2, <1>4, RunsAssumption DEF InRange, Positions, Typed
<1>7. Len(SerialRaw(k, s)) = run.entries[k][s].size
  BY <1>3, <1>4, <1>5 DEF SerialReads, Assembles
<1>8. n \in 1 .. run.entries[k][s].size
  BY <1>5, <1>6, <1>7, SerialIsWhole
<1>9. <<s, n>> \in EventBytes(call.ks[i])
  BY <1>4, <1>5, <1>8 DEF EventBytes
<1>10. QED
  BY <1>2, <1>9 DEF RequestedBytes

\* Whatever repeats are asked for, what read_events and read_stack hold and
\* give is within max_bytes, and a generator holds the events of one batch:
\* what _check_read_budget is for.
THEOREM AlwaysHeldBounded == Spec => []HeldBounded
<1>1. Init => Budgeted
  BY DEF Init, Budgeted
<1>2. IInv /\ Budgeted => HeldBounded
  <2> SUFFICES ASSUME IInv, Budgeted PROVE HeldBounded
    OBVIOUS
  <2>1. /\ run \in Runs /\ call \in Requests /\ call.ks \in Seq(Int) /\ call.batch \in Int
        /\ call.limit \in Int \cup {None}
    BY RequestsAssumption DEF IInv, Typed
  <2>2. got # {} => SlicesOfBatch
    BY ReadingSlices DEF Budgeted
  <2>3. ASSUME call.api \in WholeSlice, call.limit # None, SlicedBytes # {}
        PROVE  Cardinality(SlicedBytes) <= call.limit
    <3>1. got # {}
      BY <2>3 DEF SlicedBytes
    <3>2. SlicesOfBatch /\ status \in {"reading", "RuntimeError"} /\ batch = call.ks
      BY <2>2, <2>3, <3>1 DEF Budgeted, SlicesOfBatch
    <3>3. InRange(call.ks) /\ ~OverBudget(call.ks, call.limit, call.api = "read_events")
      BY <2>3, <3>2 DEF Budgeted
    <3>4. SlicedBytes \subseteq RequestedBytes(call.ks, TRUE)
      BY <2>1, <3>2, SlicedWithin
    <3>5. ~OverBudget(call.ks, call.limit, TRUE)
      BY <2>1, <2>3, <3>3, DistinctWithin
    <3>6. QED
      BY <2>1, <2>3, <3>3, <3>4, <3>5, PartWithinLimit
  <2>4. ASSUME call.api \in WholeSlice, call.limit # None, GivenBytes # {}
        PROVE  Cardinality(GivenBytes) <= call.limit
    <3>1. out # <<>>
      BY <2>4 DEF GivenBytes
    <3>2. InRange(call.ks) /\ ~OverBudget(call.ks, call.limit, call.api = "read_events")
      BY <2>4, <3>1 DEF Budgeted
    <3>3. GivenBytes \subseteq RequestedBytes(call.ks, call.api = "read_events")
      BY <3>2, GivenWithin DEF IInv
    <3>4. QED
      BY <2>1, <2>4, <3>2, <3>3, PartWithinLimit
  <2>5. ASSUME call.api \notin WholeSlice, got # {}
        PROVE  Cardinality({g.k : g \in got}) <= call.batch
    <3>1. SlicesOfBatch /\ batch \in Seq(Int) /\ Len(batch) <= call.batch
      BY <2>2, <2>5 DEF SlicesOfBatch
    <3>2. PICK part, n : part = {g.k : g \in got} /\ n = Len(batch)
      OBVIOUS
    <3>3. part \subseteq ToSet(batch) /\ n \in Nat
      BY <3>1, <3>2 DEF SlicesOfBatch
    <3>4. IsFiniteSet(ToSet(batch)) /\ Cardinality(ToSet(batch)) <= n
      <4> DEFINE f == [i \in 1 .. n |-> batch[i]]
      <4>1. f \in Surjection(1 .. n, ToSet(batch))
        BY <3>1, <3>2 DEF Surjection, ToSet
      <4>2. IsFiniteSet(1 .. n) /\ Cardinality(1 .. n) = n
        BY <3>3, FS_Interval
      <4> HIDE DEF f
      <4>3. QED
        BY <4>1, <4>2, FS_Surjection
    <3>5. Cardinality(part) <= Cardinality(ToSet(batch)) /\ IsFiniteSet(part)
      BY <3>3, <3>4, FS_Subset
    <3>6. Cardinality(part) \in Nat /\ Cardinality(ToSet(batch)) \in Nat
      BY <3>4, <3>5, FS_CardinalityType
    <3>7. QED
      BY <2>1, <3>1, <3>2, <3>3, <3>4, <3>5, <3>6
  <2>6. QED
    BY <2>3, <2>4, <2>5 DEF HeldBounded
<1>3. QED
  BY <1>1, <1>2, BudgetedStep, Inductive, PTL DEF Spec
=============================================================================
