------------------------- MODULE StreamCursorProofs -------------------------
(***************************************************************************)
(* For every disk layout and every read and trim size: the cursor's window *)
(* is the file, its head is one whole dgram of the file, its memory is     *)
(* bounded by the two sizes and the largest dgram, and what it serves, and *)
(* how it stops, is what DgramStream promises of these files.              *)
(***************************************************************************)
EXTENDS StreamCursor, TLAPS, FiniteSetTheorems

\* A non-empty set of naturals has a least element.
LEMMA LeastElement ==
  ASSUME NEW T, T \subseteq Nat, T # {}
  PROVE  \E x \in T : \A y \in T : x <= y
<1> DEFINE R == OpToRel(<, Nat)
<1>1. IsWellFoundedOn(R, Nat)
  BY NatLessThanWellFounded
<1>2. \A x, y \in Nat : x < y => <<x, y>> \in R
  BY DEF OpToRel
<1> HIDE DEF R
<1>3. PICK x \in T : \A y \in T : ~ (<<y, x>> \in R)
  BY <1>1, WFMin
<1>4. \A y \in T : x \in Nat /\ y \in Nat /\ ~ (y < x)
  BY <1>2, <1>3
<1>5. QED
  BY <1>4

\* The cursor stands in its window, on a dgram or at the end of the file.
OnBoundary ==
  /\ pos <= Len(buf)
  /\ \/ base + pos = Size
     \/ \E i \in 1..Len(chunks[idx].dgs) : chunks[idx].dgs[i].off = base + pos

\* The cached head is the dgram the cursor stands on, wholly in the window.
HeadAtCursor ==
  status = "head" =>
    /\ head \in [dg : Dgram, at : Nat]
    /\ head.at = pos
    /\ head.dg.off = base + pos
    /\ pos + head.dg.total <= Len(buf)
    /\ \E i \in 1..Len(chunks[idx].dgs) : chunks[idx].dgs[i] = head.dg

\* A consumed prefix of the trim threshold or more is dropped at once.
PrefixTrimmed == pos < TrimThreshold

\* The inductive invariant.  WindowIsFile and WindowBounded are not
\* inductive alone: that a header is read at a dgram's first byte needs
\* OnBoundary, and how far a fill may go needs PrefixTrimmed.
IInv ==
  /\ TypeOK
  /\ WindowIsFile
  /\ OnBoundary
  /\ HeadAtCursor
  /\ PrefixTrimmed
  /\ WindowBounded

-----------------------------------------------------------------------------
(* The files                                                               *)

\* The walk to the first missing chunk id stops somewhere, and every chunk
\* before that exists.
LEMMA FirstMissProperties ==
  ASSUME NEW files, NEW n \in Nat \ {0}, Len(files) = n, files[1] # NoFile
  PROVE  /\ FirstMiss(files) \in 1..n
         /\ \A i \in 1..FirstMiss(files) : files[i] # NoFile
<1> DEFINE Missing == {i \in 1..n : files[i] = NoFile}
           Stops(k) == /\ \A i \in 1..k : files[i] # NoFile
                       /\ k < n => files[k + 1] = NoFile
<1>1. \E k \in 1..n : Stops(k)
  <2>1. CASE Missing = {}
    BY <2>1
  <2>2. CASE Missing # {}
    <3>1. Missing \subseteq Nat
      OBVIOUS
    <3>2. PICK m \in Missing : \A y \in Missing : m <= y
      BY <2>2, <3>1, LeastElement
    <3>3. m \in 2..n
      BY <3>2
    <3>4. Stops(m - 1)
      BY <3>2, <3>3
    <3>5. QED
      BY <3>3, <3>4
  <2>3. QED
    BY <2>1, <2>2
<1>2. FirstMiss(files) = CHOOSE k \in 1..n : Stops(k)
  BY DEF FirstMiss
<1>3. QED
  BY <1>1, <1>2

\* Whatever the walk returns is a non-empty list of well-formed chunk files
\* that begins with c000.
LEMMA ChunksWellFormed ==
  ASSUME disk \in Disks, chunks = EnumerateStreamChunks(disk)
  PROVE  /\ chunks \in Seq(Chunk)
         /\ Len(chunks) >= 1
         /\ chunks[1] = disk.files[1]
         /\ \A k \in 1..Len(chunks) :
              /\ WellFormed(chunks[k])
              /\ \A i \in 1..Len(chunks[k].dgs) : chunks[k].dgs[i].total <= MaxTotal
<1> DEFINE files == disk.files
           n == Len(files)
<1>1. /\ files \in Seq(Chunk \cup {NoFile})
      /\ n \in Nat \ {0}
      /\ files[1] # NoFile
      /\ \A i \in 1..n : files[i] # NoFile => WellFormed(files[i])
      /\ \A i \in 1..n : files[i] # NoFile =>
           \A j \in 1..Len(files[i].dgs) : files[i].dgs[j].total <= MaxTotal
  BY DisksAssumption DEF DiskOK
<1> HIDE DEF files
<1>2. /\ FirstMiss(files) \in 1..n
      /\ \A i \in 1..FirstMiss(files) : files[i] # NoFile
  BY <1>1, FirstMissProperties
<1>3. chunks = <<files[1]>> \/ chunks = SubSeq(files, 1, FirstMiss(files))
  BY DEF EnumerateStreamChunks, files
<1>4. \A i \in 1..n : files[i] # NoFile => files[i] \in Chunk
  BY <1>1
<1>5. CASE chunks = <<files[1]>>
  BY <1>1, <1>4, <1>5 DEF files
<1>6. CASE chunks = SubSeq(files, 1, FirstMiss(files))
  <2>1. Len(chunks) = FirstMiss(files) /\ \A i \in 1..Len(chunks) : chunks[i] = files[i]
    BY <1>1, <1>2, <1>6
  <2>2. chunks = [i \in 1..FirstMiss(files) |-> files[i]]
    BY <1>1, <1>2, <1>6
  <2>3. \A i \in 1..FirstMiss(files) : files[i] \in Chunk
    BY <1>2, <1>4
  <2>4. chunks \in Seq(Chunk)
    BY <1>2, <2>2, <2>3
  <2>5. QED
    BY <1>1, <1>2, <2>1, <2>4 DEF files
<1>7. QED
  BY <1>3, <1>5, <1>6

\* The facts about the current chunk that the steps use.
LEMMA CurrentChunk ==
  ASSUME TypeOK
  PROVE  /\ Len(chunks) \in Nat /\ chunks[idx] \in Chunk
         /\ Size \in Nat
         /\ chunks[idx].dgs \in Seq(Dgram)
         /\ \A i \in 1..Len(chunks[idx].dgs) :
              LET d == chunks[idx].dgs[i] IN
                /\ d \in Dgram
                /\ Hdr <= d.total /\ d.total <= MaxTotal
                /\ i < Len(chunks[idx].dgs) => chunks[idx].dgs[i + 1].off = End(d)
                /\ i = Len(chunks[idx].dgs) => Size <= End(d)
<1> DEFINE c == chunks[idx]
           dgs == c.dgs
<1>1. idx \in 1..Len(chunks) /\ chunks \in Seq(Chunk) /\ WellFormed(c)
  BY ChunksWellFormed DEF TypeOK
<1>2. Len(chunks) \in Nat /\ c \in Chunk
  BY <1>1
<1>3. c.size \in Nat /\ dgs \in Seq(Dgram)
  BY <1>2 DEF Chunk
<1>4. \A i \in 1..Len(dgs) : dgs[i] \in Dgram /\ Hdr <= dgs[i].total /\ dgs[i].total <= MaxTotal
  <2>1. \A i \in 1..Len(dgs) : dgs[i].total <= MaxTotal
    BY <1>1, ChunksWellFormed DEF TypeOK
  <2>2. \A i \in 1..Len(dgs) : dgs[i].total >= Hdr /\ dgs[i] \in Dgram
    BY <1>1, <1>3 DEF WellFormed
  <2>3. QED
    BY <2>1, <2>2, HdrAssumption DEF Dgram
<1>5. ASSUME NEW i \in 1..Len(dgs), i < Len(dgs)
      PROVE  dgs[i + 1].off = End(dgs[i])
  <2>1. i + 1 \in 1..Len(dgs) /\ i + 1 # 1 /\ (i + 1) - 1 = i
    BY <1>3, <1>5
  <2>2. QED
    BY <1>1, <2>1 DEF WellFormed
<1>6. ASSUME NEW i \in 1..Len(dgs), i = Len(dgs)
      PROVE  c.size <= End(dgs[i])
  <2>1. dgs # <<>>
    BY <1>6
  <2>2. QED
    BY <1>1, <1>6, <2>1 DEF WellFormed
<1>7. QED
  BY <1>2, <1>3, <1>4, <1>5, <1>6 DEF Size

\* Bytes that hold a header at the cursor are the header of a dgram of the
\* file, the one that starts where the cursor stands.
LEMMA HeaderIsDgram ==
  ASSUME TypeOK, WindowIsFile, OnBoundary, Len(buf) >= pos + Hdr
  PROVE  /\ HeaderAt(pos) \in Dgram
         /\ HeaderAt(pos).off = base + pos
         /\ Hdr <= HeaderAt(pos).total /\ HeaderAt(pos).total <= MaxTotal
         /\ \E i \in 1..Len(chunks[idx].dgs) : chunks[idx].dgs[i] = HeaderAt(pos)
<1> DEFINE dgs == chunks[idx].dgs
           Starts(i) == dgs[i].off = base + pos
<1>1. Len(buf) \in Nat /\ pos \in Nat /\ base \in Nat /\ Hdr \in Nat \ {0} /\ idx \in Nat
  BY HdrAssumption, ChunksWellFormed DEF TypeOK
<1>2. pos + 1 \in 1..Len(buf)
  BY <1>1
<1>3. buf[pos + 1] = <<idx, base + (pos + 1) - 1>>
  BY <1>2 DEF WindowIsFile
<1>4. buf[pos + 1][1] = idx /\ buf[pos + 1][2] = base + pos
  BY <1>1, <1>3
<1>5. \E i \in 1..Len(dgs) : Starts(i)
  BY <1>1, CurrentChunk DEF OnBoundary, WindowIsFile
<1>6. HeaderAt(pos) = dgs[CHOOSE i \in 1..Len(dgs) : Starts(i)]
  BY <1>4, <1>5 DEF HeaderAt
<1>7. QED
  BY <1>5, <1>6, CurrentChunk

-----------------------------------------------------------------------------
(* The steps                                                               *)

LEMMA InitEstablishes == Init => IInv
<1> SUFFICES ASSUME Init
             PROVE  IInv
  OBVIOUS
<1> DEFINE dgs == chunks[1].dgs
<1>1. /\ chunks \in Seq(Chunk) /\ Len(chunks) >= 1
      /\ WellFormed(chunks[1])
      /\ dgs # <<>> /\ End(dgs[1]) <= chunks[1].size
  BY ChunksWellFormed, DisksAssumption DEF Init, DiskOK
<1>2. 1 \in 1..Len(chunks) /\ chunks[1] \in Chunk
  BY <1>1
<1>3. dgs \in Seq(Dgram) /\ chunks[1].size \in Nat
  BY <1>2 DEF Chunk
<1>4. 1 \in 1..Len(dgs) /\ dgs[1] \in Dgram
  BY <1>1, <1>3
<1>5. End(dgs[1]) \in Nat
  BY <1>4 DEF Dgram, End
<1>6. TypeOK
  <2>1. base \in Nat /\ idx \in 1..Len(chunks)
    BY <1>2, <1>5 DEF Init
  <2>2. buf \in Seq(Nat \X Nat)
    BY DEF Init
  <2>3. QED
    BY <2>1, <2>2 DEF Init, TypeOK
<1>7. WindowIsFile
  BY <1>1, <1>3, <1>5 DEF Init, WindowIsFile, Size
<1>8. OnBoundary
  <2>1. CASE Len(dgs) = 1
    <3>1. Size <= End(dgs[1])
      BY <1>6, <1>4, <2>1, CurrentChunk DEF Init
    <3>2. Size = End(dgs[1])
      BY <1>1, <1>3, <1>5, <3>1 DEF Init, Size
    <3>3. QED
      BY <3>2, <1>5 DEF Init, OnBoundary
  <2>2. CASE Len(dgs) # 1
    <3>1. 1 < Len(dgs) /\ 2 \in 1..Len(dgs)
      <4>1. Len(dgs) \in Nat /\ 1 \in 1..Len(dgs)
        BY <1>3, <1>4
      <4> HIDE DEF dgs
      <4>2. QED
        BY <4>1, <2>2
    <3>2. dgs[1 + 1].off = End(dgs[1])
      BY <1>4, <1>6, <3>1, CurrentChunk DEF Init
    <3>3. QED
      BY <1>5, <3>1, <3>2 DEF Init, OnBoundary
  <2>3. QED
    BY <2>1, <2>2
<1>9. PrefixTrimmed /\ WindowBounded /\ HeadAtCursor
  BY SizesAssumption, HdrAssumption DEF Init, PrefixTrimmed, WindowBounded, HeadAtCursor
<1>10. QED
  BY <1>6, <1>7, <1>8, <1>9 DEF IInv

\* Steps that leave the window and the head alone and serve no new head.
LEMMA WindowUntouched ==
  ASSUME IInv,
         UNCHANGED <<disk, chunks, idx, base, buf, pos, head, lastTs>>,
         justRolled' \in BOOLEAN,
         status' \in {"peek", "ended", "raised", "closed"}
  PROVE  IInv'
<1>1. TypeOK' /\ WindowIsFile' /\ OnBoundary' /\ PrefixTrimmed' /\ WindowBounded'
  BY DEF IInv, TypeOK, WindowIsFile, OnBoundary, PrefixTrimmed, WindowBounded, Size
<1>2. HeadAtCursor'
  BY DEF HeadAtCursor
<1>3. QED
  BY <1>1, <1>2 DEF IInv

LEMMA FillPreserves == IInv /\ Fill => IInv'
<1> SUFFICES ASSUME IInv, Fill
             PROVE  IInv'
  OBVIOUS
<1> USE DEF IInv
<1>1. PICK n \in 1..ReadChunk :
        /\ base + Len(buf) + n <= Size
        /\ buf' = buf \o Pread(base + Len(buf), n)
  BY DEF Fill
<1>2. UNCHANGED <<disk, chunks, idx, base, pos, head, lastTs, justRolled, status>>
      /\ status = "peek" /\ ~Filled
  BY DEF Fill
<1>3. /\ idx \in Nat /\ base \in Nat /\ pos \in Nat /\ n \in Nat /\ n >= 1
      /\ buf \in Seq(Nat \X Nat) /\ Len(buf) \in Nat /\ Size \in Nat
  BY <1>1, SizesAssumption, CurrentChunk DEF TypeOK
<1> DEFINE more == Pread(base + Len(buf), n)
<1>4. /\ more \in Seq(Nat \X Nat) /\ Len(more) = n
      /\ \A i \in 1..n : more[i] = <<idx, base + Len(buf) + i - 1>>
  BY <1>3 DEF Pread
<1> HIDE DEF more
<1>5. /\ buf' \in Seq(Nat \X Nat)
      /\ Len(buf') = Len(buf) + n
      /\ \A i \in 1..Len(buf) : buf'[i] = buf[i]
      /\ \A i \in Len(buf) + 1 .. Len(buf) + n : buf'[i] = more[i - Len(buf)]
  BY <1>1, <1>3, <1>4 DEF more
<1>6. TypeOK'
  BY <1>2, <1>5 DEF TypeOK
<1>7. WindowIsFile'
  <2>1. base' + Len(buf') <= Size'
    BY <1>1, <1>2, <1>3, <1>5 DEF Size
  <2>2. ASSUME NEW i \in 1..Len(buf')
        PROVE  buf'[i] = <<idx', base' + i - 1>>
    <3>1. CASE i <= Len(buf)
      <4>1. i \in 1..Len(buf)
        BY <1>3, <3>1
      <4>2. buf[i] = <<idx, base + i - 1>>
        BY <4>1 DEF WindowIsFile
      <4>3. QED
        BY <1>2, <1>5, <4>1, <4>2
    <3>2. CASE i > Len(buf)
      <4>1. i - Len(buf) \in 1..n /\ i \in Len(buf) + 1 .. Len(buf) + n
        BY <1>3, <1>5, <3>2
      <4>2. buf'[i] = <<idx, base + Len(buf) + (i - Len(buf)) - 1>>
        BY <1>4, <1>5, <4>1
      <4>3. base + Len(buf) + (i - Len(buf)) - 1 = base + i - 1
        BY <1>3, <4>1
      <4>4. QED
        BY <1>2, <4>2, <4>3
    <3>3. i \in Nat
      BY <1>3, <1>5
    <3>4. QED
      BY <1>3, <3>1, <3>2, <3>3
  <2>3. QED
    BY <2>1, <2>2 DEF WindowIsFile
<1>8. OnBoundary' /\ HeadAtCursor' /\ PrefixTrimmed'
  BY <1>2, <1>3, <1>5 DEF OnBoundary, HeadAtCursor, PrefixTrimmed, Size
<1>9. WindowBounded'
  <2>1. Wanted <= pos + MaxTotal
    <3>1. CASE Len(buf) < pos + Hdr
      BY <1>3, <3>1, SizesAssumption, HdrAssumption DEF Wanted
    <3>2. CASE Len(buf) >= pos + Hdr
      <4>1. HeaderAt(pos).total \in Nat /\ HeaderAt(pos).total <= MaxTotal
        BY <3>2, HeaderIsDgram DEF Dgram
      <4>2. Wanted = pos + HeaderAt(pos).total
        BY <1>3, <3>2, HdrAssumption DEF Wanted
      <4>3. QED
        BY <1>3, <4>1, <4>2, SizesAssumption
    <3>3. QED
      BY <1>3, <3>1, <3>2, HdrAssumption
  <2>2. Len(buf) < pos + MaxTotal
    <3>1. Wanted \in Nat
      <4>1. CASE Len(buf) < pos + Hdr
        BY <1>3, <4>1, HdrAssumption DEF Wanted
      <4>2. CASE ~(Len(buf) < pos + Hdr)
        <5>1. Len(buf) >= pos + Hdr
          BY <1>3, <4>2, HdrAssumption
        <5>2. HeaderAt(pos).total \in Nat
          BY <5>1, HeaderIsDgram DEF Dgram
        <5>3. QED
          BY <1>3, <4>2, <5>2 DEF Wanted
      <4>3. QED
        BY <4>1, <4>2
    <3>2. QED
      BY <1>2, <1>3, <2>1, <3>1, SizesAssumption DEF Filled
  <2>3. QED
    BY <1>1, <1>3, <1>5, <2>2, SizesAssumption DEF WindowBounded, PrefixTrimmed
<1>10. QED
  BY <1>6, <1>7, <1>8, <1>9

LEMMA RollPreserves == IInv /\ Roll => IInv'
<1> SUFFICES ASSUME IInv, Roll
             PROVE  IInv'
  OBVIOUS
<1> USE DEF IInv
<1>1. /\ idx' = idx + 1 /\ base' = 0 /\ buf' = <<>> /\ pos' = 0 /\ justRolled' = TRUE
      /\ UNCHANGED <<disk, chunks, head, lastTs, status>>
      /\ status = "peek" /\ idx < Len(chunks)
  BY DEF Roll, HasNextChunk
<1>2. Len(chunks) \in Nat
  BY CurrentChunk
<1>3. TypeOK'
  BY <1>1, <1>2 DEF TypeOK
<1>4. /\ chunks[idx'] \in Chunk /\ WellFormed(chunks[idx'])
      /\ idx' \in 1..Len(chunks)
  BY <1>1, <1>2, <1>3, ChunksWellFormed DEF TypeOK
<1>5. chunks[idx'].size \in Nat /\ chunks[idx'].dgs \in Seq(Dgram)
  BY <1>4 DEF Chunk
<1>6. WindowIsFile'
  BY <1>1, <1>5 DEF WindowIsFile, Size
<1>7. OnBoundary'
  <2>1. CASE chunks[idx'].dgs = <<>>
    BY <1>1, <1>4, <2>1 DEF OnBoundary, Size, WellFormed
  <2>2. CASE chunks[idx'].dgs # <<>>
    <3>1. 1 \in 1..Len(chunks[idx'].dgs)
      BY <1>5, <2>2
    <3>2. chunks[idx'].dgs[1].off = 0
      BY <1>4, <3>1 DEF WellFormed
    <3>3. QED
      BY <1>1, <3>1, <3>2 DEF OnBoundary
  <2>3. QED
    BY <2>1, <2>2
<1>8. HeadAtCursor' /\ PrefixTrimmed' /\ WindowBounded'
  BY <1>1, SizesAssumption, HdrAssumption DEF HeadAtCursor, PrefixTrimmed, WindowBounded
<1>9. QED
  BY <1>3, <1>6, <1>7, <1>8

LEMMA ServePreserves == IInv /\ Serve => IInv'
<1> SUFFICES ASSUME IInv, Serve
             PROVE  IInv'
  OBVIOUS
<1> USE DEF IInv
<1> DEFINE h == HeaderAt(pos)
<1>1. /\ status = "peek" /\ Filled /\ justRolled' = FALSE
      /\ UNCHANGED <<disk, chunks, idx, base, buf, pos, lastTs>>
      /\ \/ status' = "raised" /\ head' = None
         \/ status' = "head" /\ head' = [dg |-> h, at |-> pos]
  BY DEF Serve
<1>2. Len(buf) \in Nat /\ pos \in Nat /\ Hdr \in Nat \ {0}
  BY HdrAssumption DEF TypeOK
<1>3. Len(buf) >= pos + Hdr
  BY <1>1, <1>2 DEF Filled, Wanted
<1>4. /\ h \in Dgram /\ h.off = base + pos
      /\ \E i \in 1..Len(chunks[idx].dgs) : chunks[idx].dgs[i] = h
  BY <1>3, HeaderIsDgram
<1>5. pos + h.total <= Len(buf)
  BY <1>1, <1>2, <1>3, <1>4 DEF Filled, Wanted, Dgram
<1> HIDE DEF h
<1>6. WindowIsFile' /\ OnBoundary' /\ PrefixTrimmed' /\ WindowBounded'
  BY <1>1 DEF WindowIsFile, OnBoundary, PrefixTrimmed, WindowBounded, Size
<1>7. CASE status' = "raised" /\ head' = None
  BY <1>1, <1>6, <1>7 DEF TypeOK, HeadAtCursor
<1>8. CASE status' = "head" /\ head' = [dg |-> h, at |-> pos]
  <2>1. head' \in [dg : Dgram, at : Nat] /\ head'.at = pos /\ head'.dg = h
    BY <1>2, <1>4, <1>8
  <2>2. TypeOK'
    BY <1>1, <1>8, <2>1 DEF TypeOK
  <2>3. HeadAtCursor'
    BY <1>1, <1>4, <1>5, <2>1 DEF HeadAtCursor
  <2>4. QED
    BY <1>6, <2>2, <2>3
<1>9. QED
  BY <1>1, <1>7, <1>8

\* Consuming the head puts the cursor on the next dgram of the file or at
\* its end, whether or not the consumed prefix is dropped.
LEMMA AdvancePreserves == IInv /\ Advance => IInv'
<1> SUFFICES ASSUME IInv, Advance
             PROVE  IInv'
  OBVIOUS
<1> USE DEF IInv
<1> DEFINE dgs == chunks[idx].dgs
           p == pos + head.dg.total
<1>1. /\ status = "head" /\ status' = "peek" /\ head' = None
      /\ lastTs' = head.dg.ts
      /\ Trim(p)
      /\ UNCHANGED <<disk, chunks, idx, justRolled>>
  BY DEF Advance
<1>2. /\ head \in [dg : Dgram, at : Nat] /\ head.dg.off = base + pos
      /\ p <= Len(buf)
      /\ \E i \in 1..Len(dgs) : dgs[i] = head.dg
  BY <1>1 DEF HeadAtCursor
<1>3. /\ head.dg.ts \in Nat /\ head.dg.total \in Nat /\ head.dg.off \in Nat
      /\ End(head.dg) = head.dg.off + head.dg.total
  BY <1>2 DEF Dgram, End
<1>4. /\ base \in Nat /\ pos \in Nat /\ p \in Nat /\ idx \in Nat
      /\ buf \in Seq(Nat \X Nat) /\ Len(buf) \in Nat
      /\ Size \in Nat /\ base + Len(buf) <= Size
  BY <1>3, CurrentChunk DEF TypeOK, WindowIsFile
<1>5. End(head.dg) = base + p
  BY <1>2, <1>3, <1>4
<1>6. base + p = Size \/ \E i \in 1..Len(dgs) : dgs[i].off = base + p
  <2>1. PICK i \in 1..Len(dgs) : dgs[i] = head.dg
    BY <1>2
  <2>2. Len(dgs) \in Nat
    BY CurrentChunk
  <2>3. CASE i < Len(dgs)
    <3>1. dgs[i + 1].off = End(dgs[i])
      BY <2>3, CurrentChunk
    <3>2. i + 1 \in 1..Len(dgs)
      <4> HIDE DEF dgs
      <4>1. QED
        BY <2>2, <2>3
    <3>3. QED
      BY <1>5, <2>1, <3>1, <3>2
  <2>4. CASE i = Len(dgs)
    <3>1. Size <= End(dgs[i])
      BY <2>4, CurrentChunk
    <3>2. Size <= base + p
      BY <1>5, <2>1, <3>1, Zenon
    <3>3. p <= Len(buf) /\ p \in Nat
      BY <1>2, <1>4
    <3> HIDE DEF p, dgs
    <3>4. base + p = Size
      BY <1>4, <3>2, <3>3
    <3>5. QED
      BY <3>4
  <2>5. QED
    <3> HIDE DEF dgs
    <3>1. QED
      BY <2>2, <2>3, <2>4
<1> HIDE DEF p
<1>7. HeadAtCursor'
  BY <1>1 DEF HeadAtCursor
<1>8. CASE p >= TrimThreshold
  <2>1. buf' = SubSeq(buf, p + 1, Len(buf)) /\ base' = base + p /\ pos' = 0
    BY <1>1, <1>8 DEF Trim
  <2>2. /\ buf' \in Seq(Nat \X Nat)
        /\ Len(buf') = Len(buf) - p
        /\ \A j \in 1..Len(buf) - p : buf'[j] = buf[p + j]
    <3>1. \A j \in p + 1 .. Len(buf) : j \in 1..Len(buf)
      BY <1>4
    <3>2. \A j \in p + 1 .. Len(buf) : buf[j] \in Nat \X Nat
      BY <1>4, <3>1
    <3>3. QED
      BY <1>2, <1>4, <2>1, <3>2
  <2>3. TypeOK'
    BY <1>1, <1>3, <1>4, <2>1, <2>2 DEF TypeOK
  <2>4. WindowIsFile'
    <3>1. base' + Len(buf') <= Size'
      BY <1>1, <1>2, <1>4, <2>1, <2>2 DEF Size
    <3>2. ASSUME NEW j \in 1..Len(buf')
          PROVE  buf'[j] = <<idx', base' + j - 1>>
      <4>1. j \in 1..Len(buf) - p /\ j \in Nat /\ p + j \in 1..Len(buf)
        BY <1>2, <1>4, <2>2
      <4>2. buf[p + j] = <<idx, base + (p + j) - 1>>
        BY <4>1 DEF WindowIsFile
      <4>3. base + (p + j) - 1 = (base + p) + j - 1
        BY <1>4, <4>1
      <4>4. QED
        BY <1>1, <2>1, <2>2, <4>1, <4>2, <4>3
    <3>3. QED
      BY <3>1, <3>2 DEF WindowIsFile
  <2>5. OnBoundary'
    BY <1>1, <1>2, <1>4, <1>6, <2>1, <2>2 DEF OnBoundary, Size
  <2>6. PrefixTrimmed' /\ WindowBounded'
    BY <1>4, <2>1, <2>2, SizesAssumption DEF PrefixTrimmed, WindowBounded
  <2>7. QED
    BY <1>7, <2>3, <2>4, <2>5, <2>6
<1>9. CASE ~(p >= TrimThreshold)
  <2>1. pos' = p /\ buf' = buf /\ base' = base
    BY <1>1, <1>9 DEF Trim
  <2>2. TypeOK'
    BY <1>1, <1>3, <1>4, <2>1 DEF TypeOK
  <2>3. WindowIsFile' /\ WindowBounded'
    BY <1>1, <2>1 DEF WindowIsFile, WindowBounded, Size
  <2>4. OnBoundary' /\ PrefixTrimmed'
    BY <1>1, <1>2, <1>4, <1>6, <1>9, <2>1, SizesAssumption DEF OnBoundary, PrefixTrimmed, Size
  <2>5. QED
    BY <1>7, <2>2, <2>3, <2>4
<1>10. QED
  BY <1>8, <1>9

\* Every step of the cursor, and every step that is not its own, keeps the
\* inductive invariant.
LEMMA NextPreserves == IInv /\ [Next]_vars => IInv'
<1> SUFFICES ASSUME IInv, [Next]_vars
             PROVE  IInv'
  OBVIOUS
<1>1. CASE Fill
  BY <1>1, FillPreserves
<1>2. CASE CutShort
  BY <1>2, WindowUntouched DEF CutShort, IInv, TypeOK
<1>3. CASE Roll
  BY <1>3, RollPreserves
<1>4. CASE EndOfStream
  BY <1>4, WindowUntouched DEF EndOfStream, IInv, TypeOK
<1>5. CASE Serve
  BY <1>5, ServePreserves
<1>6. CASE Advance
  BY <1>6, AdvancePreserves
<1>7. CASE Close
  BY <1>7, WindowUntouched DEF Close, IInv, TypeOK
<1>8. CASE UNCHANGED vars
  BY <1>8 DEF vars, IInv, TypeOK, WindowIsFile, OnBoundary, HeadAtCursor, PrefixTrimmed,
              WindowBounded, Size
<1>9. QED
  BY <1>1, <1>2, <1>3, <1>4, <1>5, <1>6, <1>7, <1>8 DEF Next, Read

-----------------------------------------------------------------------------
(* The order of the dgrams over a roll                                     *)

\* The first dgram of a chunk cannot be served unchecked: the cursor stands
\* at file offset 0 only behind a roll, and a served first dgram has passed
\* the comparison with the last one consumed.
RollChecked ==
  /\ delivered \in Seq(Dgram)
  /\ lastTs = IF delivered = <<>> THEN None ELSE delivered[Len(delivered)].ts
  /\ status = "peek" /\ base + pos = 0 => justRolled
  /\ status = "head" /\ head.dg.off = 0 /\ delivered # <<>> => lastTs <= head.dg.ts
  /\ RollAscends

LEMMA InitChecked == Init /\ IInv => RollChecked
<1> SUFFICES ASSUME Init, IInv
             PROVE  RollChecked
  OBVIOUS
<1> DEFINE dgs == chunks[1].dgs
<1>1. WellFormed(chunks[1]) /\ dgs # <<>> /\ dgs \in Seq(Dgram)
  BY ChunksWellFormed, DisksAssumption, CurrentChunk DEF Init, DiskOK, IInv
<1>2. dgs[1] \in Dgram /\ dgs[1].total >= Hdr
  BY <1>1 DEF WellFormed
<1>3. base + pos # 0
  BY <1>2, HdrAssumption DEF Init, End, Dgram
<1>4. QED
  BY <1>3 DEF Init, RollChecked, RollAscends

LEMMA ServeChecked == IInv /\ RollChecked /\ Serve => RollChecked'
<1> SUFFICES ASSUME IInv, RollChecked, Serve
             PROVE  RollChecked'
  OBVIOUS
<1> DEFINE h == HeaderAt(pos)
<1>1. /\ status = "peek" /\ Filled
      /\ UNCHANGED <<base, pos, lastTs, delivered>>
      /\ \/ status' = "raised"
         \/ /\ status' = "head" /\ head' = [dg |-> h, at |-> pos]
            /\ ~(justRolled /\ lastTs # None /\ h.ts < lastTs)
  BY DEF Serve
<1>2. TypeOK /\ WindowIsFile /\ OnBoundary /\ Len(buf) \in Nat /\ pos \in Nat
  BY DEF IInv, TypeOK
<1>3. Len(buf) >= pos + Hdr
  BY <1>1, <1>2, HdrAssumption DEF Filled, Wanted
<1>4. h \in Dgram /\ h.off = base + pos
  BY <1>2, <1>3, HeaderIsDgram
<1>5. delivered # <<>> => lastTs \in Nat /\ lastTs # None
  <2>1. ASSUME delivered # <<>>
        PROVE  delivered[Len(delivered)] \in Dgram
    BY <2>1 DEF RollChecked
  <2>2. QED
    BY <2>1, NoneAssumption DEF RollChecked, Dgram
<1> HIDE DEF h
<1>6. h.off = 0 /\ delivered # <<>> /\ status' = "head" => lastTs <= h.ts
  BY <1>1, <1>4, <1>5 DEF RollChecked, Dgram
<1>7. QED
  BY <1>1, <1>6 DEF RollChecked, RollAscends

LEMMA AdvanceChecked == IInv /\ RollChecked /\ Advance => RollChecked'
<1> SUFFICES ASSUME IInv, RollChecked, Advance
             PROVE  RollChecked'
  OBVIOUS
<1> DEFINE d == head.dg
<1>1. /\ status = "head" /\ status' = "peek"
      /\ lastTs' = d.ts /\ delivered' = Append(delivered, d)
      /\ Trim(pos + d.total)
  BY DEF Advance
<1>2. TypeOK /\ head \in [dg : Dgram, at : Nat]
      /\ \E i \in 1..Len(chunks[idx].dgs) : chunks[idx].dgs[i] = d
  BY <1>1 DEF IInv, HeadAtCursor
<1>3. d \in Dgram /\ d.total >= Hdr /\ d.total \in Nat
  BY <1>2, CurrentChunk DEF Dgram
<1>4. base' + pos' # 0
  BY <1>1, <1>2, <1>3, HdrAssumption DEF Trim, TypeOK
<1>5. delivered \in Seq(Dgram) /\ Len(delivered) \in Nat
  BY DEF RollChecked
<1> HIDE DEF d
<1>6. /\ delivered' \in Seq(Dgram) /\ Len(delivered') = Len(delivered) + 1
      /\ delivered' # <<>>
      /\ delivered'[Len(delivered) + 1] = d
      /\ \A i \in 1..Len(delivered) : delivered'[i] = delivered[i]
  BY <1>1, <1>3, <1>5
<1>7. RollAscends'
  <2> SUFFICES ASSUME NEW i \in 2..Len(delivered'), delivered'[i].off = 0
               PROVE  delivered'[i - 1].ts <= delivered'[i].ts
    BY DEF RollAscends
  <2>1. CASE i \in 2..Len(delivered)
    <3>1. i \in 1..Len(delivered) /\ i - 1 \in 1..Len(delivered)
      BY <1>5, <2>1
    <3>2. QED
      BY <1>6, <2>1, <3>1 DEF RollChecked, RollAscends
  <2>2. CASE i = Len(delivered) + 1
    <3>1. Len(delivered) \in 1..Len(delivered) /\ i - 1 = Len(delivered)
      BY <1>5, <2>2
    <3>2. delivered # <<>>
      BY <3>1
    <3>3. lastTs <= d.ts /\ lastTs = delivered[Len(delivered)].ts
      BY <1>1, <1>6, <2>2, <3>2 DEF RollChecked, d
    <3>4. QED
      BY <1>6, <2>2, <3>1, <3>3
  <2>3. QED
    BY <1>5, <1>6, <2>1, <2>2
<1>8. QED
  BY <1>1, <1>4, <1>6, <1>7 DEF RollChecked

LEMMA NextChecked == IInv /\ RollChecked /\ [Next]_vars => RollChecked'
<1> SUFFICES ASSUME IInv, RollChecked, [Next]_vars
             PROVE  RollChecked'
  OBVIOUS
<1>1. CASE Fill
  BY <1>1 DEF Fill, RollChecked, RollAscends
<1>2. CASE CutShort
  BY <1>2 DEF CutShort, RollChecked, RollAscends
<1>3. CASE Roll
  BY <1>3 DEF Roll, RollChecked, RollAscends
<1>4. CASE EndOfStream
  BY <1>4 DEF EndOfStream, RollChecked, RollAscends
<1>5. CASE Serve
  BY <1>5, ServeChecked
<1>6. CASE Advance
  BY <1>6, AdvanceChecked
<1>7. CASE Close
  BY <1>7 DEF Close, RollChecked, RollAscends
<1>8. CASE UNCHANGED vars
  BY <1>8 DEF vars, RollChecked, RollAscends
<1>9. QED
  BY <1>1, <1>2, <1>3, <1>4, <1>5, <1>6, <1>7, <1>8 DEF Next, Read

-----------------------------------------------------------------------------
(* The results                                                             *)

\* The inductive invariant holds of every run, for every choice of disks
\* and sizes.
THEOREM Inductive == Spec => []IInv
<1>1. Init => IInv
  BY InitEstablishes
<1>2. IInv /\ [Next]_vars => IInv'
  BY NextPreserves
<1>3. QED
  BY <1>1, <1>2, PTL DEF Spec

\* The cursor's fields keep their types, and its chunk index stays inside
\* the chunks enumerated at open.
THEOREM TypeCorrect == Spec => []TypeOK
<1>1. IInv => TypeOK
  BY DEF IInv
<1>2. QED
  BY <1>1, Inductive, PTL

\* After any number of reads, trims and rolls the window holds the bytes of
\* the current chunk that `base` says it holds.
THEOREM WindowAlwaysFile == Spec => []WindowIsFile
<1>1. IInv => WindowIsFile
  BY DEF IInv
<1>2. QED
  BY <1>1, Inductive, PTL

\* Whatever events() snapshots as the head is one whole dgram of the file.
THEOREM HeadAlwaysWhole == Spec => []HeadIsOneDgram
<1>1. ASSUME IInv, status = "head"
      PROVE  HeadIsOneDgram
  <2> DEFINE dgs == chunks[idx].dgs
  <2>1. /\ head \in [dg : Dgram, at : Nat] /\ head.at = pos
        /\ head.dg.off = base + pos
        /\ pos + head.dg.total <= Len(buf)
        /\ \E i \in 1..Len(dgs) : dgs[i] = head.dg
    BY <1>1 DEF IInv, HeadAtCursor
  <2>2. /\ head.dg.total \in Nat /\ pos \in Nat /\ base \in Nat /\ Len(buf) \in Nat
    BY <1>1, <2>1 DEF IInv, TypeOK, Dgram
  <2>3. head.dg \in Range(dgs)
    BY <2>1, CurrentChunk, <1>1 DEF Range, IInv
  <2>4. ASSUME NEW i \in 1..head.dg.total
        PROVE  buf[head.at + i] = <<idx, head.dg.off + i - 1>>
    <3>1. pos + i \in 1..Len(buf) /\ i \in Nat
      BY <2>1, <2>2
    <3>2. buf[pos + i] = <<idx, base + (pos + i) - 1>>
      BY <1>1, <3>1 DEF IInv, WindowIsFile
    <3>3. base + (pos + i) - 1 = head.dg.off + i - 1
      BY <2>1, <2>2, <3>1
    <3>4. QED
      BY <2>1, <3>2, <3>3
  <2>5. QED
    BY <2>1, <2>3, <2>4 DEF HeadIsOneDgram
<1>2. IInv => HeadIsOneDgram
  BY <1>1 DEF HeadIsOneDgram
<1>3. QED
  BY <1>2, Inductive, PTL

\* The reader's memory does not grow with the run: one trim threshold, one
\* read and one dgram bound the window.
THEOREM MemoryBounded == Spec => []WindowBounded
<1>1. IInv => WindowBounded
  BY DEF IInv
<1>2. QED
  BY <1>1, Inductive, PTL

\* A chunk the cursor rolls into never takes the stream back in time.
THEOREM RollsAscend == Spec => []RollAscends
<1>1. Init => RollChecked
  BY InitEstablishes, InitChecked
<1>2. IInv /\ RollChecked /\ [Next]_vars => RollChecked'
  BY NextChecked
<1>3. RollChecked => RollAscends
  BY DEF RollChecked
<1>4. QED
  BY <1>1, <1>2, <1>3, Inductive, PTL DEF Spec

-----------------------------------------------------------------------------
(* What the files hold, chunk by chunk                                     *)

\* Induction over an interval: a set that holds its first number and with a
\* number the next one holds all of it.
LEMMA IntervalInduction ==
  ASSUME NEW n \in Nat, NEW T, 0 \in T, \A k \in 1..n : k - 1 \in T => k \in T
  PROVE  \A k \in 0..n : k \in T
<1> DEFINE Bad == {k \in 0..n : k \notin T}
<1>1. SUFFICES ASSUME Bad # {}
               PROVE  FALSE
  OBVIOUS
<1>2. Bad \subseteq Nat
  OBVIOUS
<1>3. PICK m \in Bad : \A y \in Bad : m <= y
  BY <1>1, <1>2, LeastElement
<1>4. m \in 1..n /\ m - 1 \in 0..n
  BY <1>3
<1>5. m - 1 \notin Bad
  BY <1>3, <1>4
<1>6. QED
  BY <1>3, <1>4, <1>5

Stops == {"ended", "cut", "raised"}

Outcome == [dgs : Seq(Dgram), stop : Stops]

Unread(k) == ToRead(chunks, k)

\* Where the unread part of chunk k begins, and where its dgram j + 1 does.
Start(k) == IF k = 1 THEN End(chunks[1].dgs[1]) ELSE 0

PlaceAt(k, j) == IF j < Len(Unread(k).dgs) THEN Unread(k).dgs[j + 1].off ELSE chunks[k].size

\* The layout of any chunk, from its well-formedness.
LEMMA ChunkFacts ==
  ASSUME TypeOK, NEW k \in 1..Len(chunks)
  PROVE  /\ Len(chunks) \in Nat /\ chunks[k] \in Chunk /\ chunks[k].size \in Nat
         /\ chunks[k].dgs \in Seq(Dgram) /\ Len(chunks[k].dgs) \in Nat
         /\ \A i \in 1..Len(chunks[k].dgs) :
              LET d == chunks[k].dgs[i] IN
                /\ d \in Dgram /\ d.off \in Nat /\ d.total \in Nat /\ d.ts \in Nat
                /\ End(d) = d.off + d.total
                /\ Hdr <= d.total /\ d.off < chunks[k].size
                /\ i = 1 => d.off = 0
                /\ i < Len(chunks[k].dgs) => chunks[k].dgs[i + 1].off = End(d) /\ End(d) < chunks[k].size
                /\ i = Len(chunks[k].dgs) => chunks[k].size <= End(d)
         /\ chunks[k].dgs = <<>> => chunks[k].size = 0
         /\ k = 1 => Len(chunks[k].dgs) >= 1 /\ End(chunks[k].dgs[1]) <= chunks[k].size
<1> DEFINE c == chunks[k]
           dgs == c.dgs
<1>1. Len(chunks) \in Nat /\ c \in Chunk /\ WellFormed(c)
  BY ChunksWellFormed DEF TypeOK
<1>2. c.size \in Nat /\ dgs \in Seq(Dgram) /\ Len(dgs) \in Nat
  BY <1>1 DEF Chunk
<1>3. ASSUME NEW i \in 1..Len(dgs)
      PROVE  /\ dgs[i] \in Dgram /\ dgs[i].off \in Nat /\ dgs[i].total \in Nat /\ dgs[i].ts \in Nat
             /\ End(dgs[i]) = dgs[i].off + dgs[i].total
             /\ Hdr <= dgs[i].total /\ dgs[i].off < c.size
             /\ i = 1 => dgs[i].off = 0
             /\ i < Len(dgs) => dgs[i + 1].off = End(dgs[i]) /\ End(dgs[i]) < c.size
             /\ i = Len(dgs) => c.size <= End(dgs[i])
  <2>1. dgs[i] \in Dgram
    BY <1>2
  <2>2. dgs[i].off \in Nat /\ dgs[i].total \in Nat /\ dgs[i].ts \in Nat
        /\ End(dgs[i]) = dgs[i].off + dgs[i].total
    BY <2>1 DEF Dgram, End
  <2>3. Hdr <= dgs[i].total /\ dgs[i].off < c.size /\ (i = 1 => dgs[i].off = 0)
    BY <1>1, <2>2, HdrAssumption DEF WellFormed
  <2>4. ASSUME i < Len(dgs)
        PROVE  dgs[i + 1].off = End(dgs[i]) /\ End(dgs[i]) < c.size
    <3>1. i + 1 \in 1..Len(dgs) /\ i + 1 # 1 /\ (i + 1) - 1 = i
      BY <1>2, <2>4
    <3>2. QED
      BY <1>1, <2>4, <3>1 DEF WellFormed
  <2>5. ASSUME i = Len(dgs)
        PROVE  c.size <= End(dgs[i])
    <3>1. dgs # <<>>
      BY <2>5
    <3>2. QED
      BY <1>1, <2>5, <3>1 DEF WellFormed
  <2>6. QED
    BY <2>1, <2>2, <2>3, <2>4, <2>5
<1>4. dgs = <<>> => c.size = 0
  BY <1>1 DEF WellFormed
<1>5. k = 1 => Len(dgs) >= 1 /\ End(dgs[1]) <= c.size
  <2>1. ASSUME k = 1
        PROVE  dgs # <<>> /\ End(dgs[1]) <= c.size
    BY <2>1, ChunksWellFormed, DisksAssumption DEF TypeOK, DiskOK
  <2>2. ASSUME k = 1
        PROVE  Len(dgs) >= 1
    BY <1>2, <2>1, <2>2
  <2>3. QED
    BY <2>1, <2>2
<1>6. QED
  BY <1>1, <1>2, <1>3, <1>4, <1>5

\* The same of the part of it that is still to be read.
LEMMA UnreadFacts ==
  ASSUME TypeOK, NEW k \in 1..Len(chunks)
  PROVE  /\ Unread(k).size = chunks[k].size /\ chunks[k].size \in Nat
         /\ Unread(k).dgs \in Seq(Dgram) /\ Len(Unread(k).dgs) \in Nat
         /\ \A i \in 1..Len(Unread(k).dgs) :
              LET d == Unread(k).dgs[i] IN
                /\ d \in Dgram /\ d.off \in Nat /\ d.total \in Nat /\ d.ts \in Nat
                /\ End(d) = d.off + d.total
                /\ Hdr <= d.total /\ d.off < chunks[k].size
                /\ \E m \in 1..Len(chunks[k].dgs) : chunks[k].dgs[m] = d
                /\ i < Len(Unread(k).dgs) => Unread(k).dgs[i + 1].off = End(d) /\ End(d) < chunks[k].size
                /\ i = Len(Unread(k).dgs) => chunks[k].size <= End(d)
         /\ PlaceAt(k, 0) = Start(k) /\ Start(k) \in Nat
<1> DEFINE dgs == chunks[k].dgs
           rest == Unread(k).dgs
<1>1. CASE k # 1
  <2>1. Unread(k) = chunks[k]
    BY <1>1 DEF Unread, ToRead
  <2>2. PlaceAt(k, 0) = Start(k)
    <3>1. CASE Len(dgs) = 0
      <4>1. dgs = <<>>
        BY <3>1, ChunkFacts
      <4>2. QED
        BY <1>1, <2>1, <3>1, <4>1, ChunkFacts DEF PlaceAt, Start
    <3>2. CASE Len(dgs) # 0
      <4>1. Len(dgs) \in Nat
        BY ChunkFacts
      <4>2. 1 \in 1..Len(dgs) /\ 0 < Len(dgs)
        <5> HIDE DEF dgs
        <5>1. QED
          BY <3>2, <4>1
      <4>3. dgs[1].off = 0
        BY <4>2, ChunkFacts
      <4>4. QED
        BY <1>1, <2>1, <4>2, <4>3 DEF PlaceAt, Start
    <3>3. QED
      BY <3>1, <3>2
  <2>3. QED
    BY <1>1, <2>1, <2>2, ChunkFacts DEF Start
<1>2. CASE k = 1
  <2>1. Unread(k) = [chunks[k] EXCEPT !.dgs = Tail(@)]
    BY <1>2 DEF Unread, ToRead
  <2>2. chunks[k] \in Chunk /\ dgs \in Seq(Dgram) /\ Len(dgs) \in Nat /\ Len(dgs) >= 1
        /\ chunks[k].size \in Nat
    BY <1>2, ChunkFacts
  <2>3. Unread(k).size = chunks[k].size /\ rest = Tail(dgs)
    BY <2>1, <2>2 DEF Chunk
  <2>4. /\ rest \in Seq(Dgram) /\ Len(rest) = Len(dgs) - 1
        /\ \A i \in 1..Len(rest) : rest[i] = dgs[i + 1]
    <3> HIDE DEF dgs, rest
    <3>1. QED
      BY <2>2, <2>3
  <2>5. ASSUME NEW i \in 1..Len(rest)
        PROVE  /\ i + 1 \in 1..Len(dgs) /\ rest[i] = dgs[i + 1]
               /\ i < Len(rest) => i + 1 < Len(dgs) /\ rest[i + 1] = dgs[(i + 1) + 1]
               /\ i = Len(rest) => i + 1 = Len(dgs)
    <3> HIDE DEF dgs, rest
    <3>1. QED
      BY <2>2, <2>4
  <2>6. ASSUME NEW i \in 1..Len(rest)
        PROVE  /\ rest[i] \in Dgram /\ rest[i].off \in Nat /\ rest[i].total \in Nat /\ rest[i].ts \in Nat
               /\ End(rest[i]) = rest[i].off + rest[i].total
               /\ Hdr <= rest[i].total /\ rest[i].off < chunks[k].size
               /\ \E m \in 1..Len(dgs) : dgs[m] = rest[i]
               /\ i < Len(rest) => rest[i + 1].off = End(rest[i]) /\ End(rest[i]) < chunks[k].size
               /\ i = Len(rest) => chunks[k].size <= End(rest[i])
    BY <2>5, ChunkFacts
  <2>7. 1 \in 1..Len(dgs)
    <3> HIDE DEF dgs
    <3>1. QED
      BY <2>2
  <2>8. End(dgs[1]) \in Nat /\ End(dgs[1]) <= chunks[k].size
    <3>1. dgs[1].off \in Nat /\ dgs[1].total \in Nat /\ End(dgs[1]) = dgs[1].off + dgs[1].total
      BY <2>7, ChunkFacts
    <3>2. QED
      BY <1>2, <3>1, ChunkFacts
  <2>9. PlaceAt(k, 0) = End(dgs[1])
    <3>1. CASE Len(dgs) = 1
      <4>1. chunks[k].size <= End(dgs[1])
        BY <2>7, <3>1, ChunkFacts
      <4>2. ~ (0 < Len(rest))
        <5> HIDE DEF dgs, rest
        <5>1. QED
          BY <2>4, <3>1
      <4>3. QED
        BY <2>2, <2>8, <4>1, <4>2 DEF PlaceAt
    <3>2. CASE Len(dgs) # 1
      <4>1. 0 < Len(rest) /\ 1 \in 1..Len(rest) /\ 1 < Len(dgs)
        <5> HIDE DEF dgs, rest
        <5>1. QED
          BY <2>2, <2>4, <3>2
      <4>2. rest[1] = dgs[1 + 1] /\ dgs[1 + 1].off = End(dgs[1])
        BY <2>5, <2>7, <4>1, ChunkFacts
      <4>3. rest[0 + 1] = rest[1]
        OBVIOUS
      <4>4. QED
        BY <4>1, <4>2, <4>3 DEF PlaceAt
    <3>3. QED
      BY <3>1, <3>2
  <2>10. QED
    BY <1>2, <2>2, <2>3, <2>4, <2>6, <2>8, <2>9 DEF Start
<1>3. QED
  BY <1>1, <1>2

\* The dgrams of a chunk begin at ascending offsets.
LEMMA OffsetsAscend ==
  ASSUME TypeOK, NEW k \in 1..Len(chunks),
         NEW i \in 1..Len(chunks[k].dgs), NEW j \in 1..Len(chunks[k].dgs), i < j
  PROVE  chunks[k].dgs[i].off < chunks[k].dgs[j].off
<1> DEFINE n == Len(chunks[k].dgs)
           off(m) == chunks[k].dgs[m].off
           Bad == {m \in i + 1 .. n : ~ (off(i) < off(m))}
<1>1. n \in Nat /\ \A m \in 1..n : off(m) \in Nat
  BY ChunkFacts
<1>2. \A m \in 1..n : m < n => off(m) < off(m + 1)
  <2> SUFFICES ASSUME NEW m \in 1..n, m < n
               PROVE  off(m) < off(m + 1)
    OBVIOUS
  <2>1. /\ off(m) \in Nat /\ chunks[k].dgs[m].total \in Nat
        /\ off(m + 1) = off(m) + chunks[k].dgs[m].total /\ Hdr <= chunks[k].dgs[m].total
    BY ChunkFacts
  <2> HIDE DEF off
  <2>2. QED
    BY <2>1, HdrAssumption
<1> HIDE DEF n, off
<1>3. SUFFICES ASSUME Bad # {}
               PROVE  FALSE
  BY <1>1 DEF n, off
<1>4. Bad \subseteq Nat
  BY <1>1 DEF n
<1>5. PICK m \in Bad : \A y \in Bad : m <= y
  BY <1>3, <1>4, LeastElement
<1>6. i \in Nat /\ m \in Nat /\ m >= i + 1 /\ m <= n /\ m - 1 \in 1..n /\ (m - 1) + 1 = m /\ m \in 1..n
      /\ i \in 1..n
  BY <1>1, <1>5 DEF n
<1>7. off(m - 1) < off(m)
  BY <1>1, <1>2, <1>6
<1>8. CASE m - 1 = i
  BY <1>5, <1>7, <1>8
<1>9. CASE m - 1 # i
  <2>1. m - 1 \in i + 1 .. n /\ ~ (m <= m - 1)
    BY <1>1, <1>6, <1>9
  <2>2. off(i) < off(m - 1)
    BY <1>5, <2>1
  <2>3. off(i) \in Nat /\ off(m - 1) \in Nat /\ off(m) \in Nat
    BY <1>1, <1>6
  <2>4. off(i) < off(m)
    BY <1>7, <2>2, <2>3
  <2>5. QED
    BY <1>5, <2>4
<1>10. QED
  BY <1>8, <1>9

\* The dgrams of the unread part of chunk k that the file holds whole.
W(k) == Whole(Unread(k))

\* They are a prefix of what lies there, short of at most the cut last one.
LEMMA WholeFacts ==
  ASSUME TypeOK, NEW k \in 1..Len(chunks)
  PROVE  /\ W(k) \in Seq(Dgram) /\ Len(W(k)) \in Nat /\ Len(W(k)) <= Len(Unread(k).dgs)
         /\ \A i \in 1..Len(W(k)) : W(k)[i] = Unread(k).dgs[i]
         /\ \A i \in 1..Len(Unread(k).dgs) :
              i <= Len(W(k)) <=> End(Unread(k).dgs[i]) <= chunks[k].size
         /\ ~ Cut(Unread(k)) => Len(W(k)) = Len(Unread(k).dgs)
         /\ Cut(Unread(k)) => /\ Len(Unread(k).dgs) = Len(W(k)) + 1
                              /\ Last(Unread(k).dgs) = Unread(k).dgs[Len(W(k)) + 1]
<1> DEFINE u == Unread(k)
           dgs == u.dgs
           n == Len(dgs)
<1>1. /\ u.size = chunks[k].size /\ u.size \in Nat /\ dgs \in Seq(Dgram) /\ n \in Nat
      /\ \A i \in 1..n : dgs[i] \in Dgram /\ End(dgs[i]) \in Nat
      /\ \A i \in 1..n : i < n => End(dgs[i]) < u.size
      /\ \A i \in 1..n : i = n => u.size <= End(dgs[i])
  <2>1. u.size = chunks[k].size /\ u.size \in Nat /\ dgs \in Seq(Dgram) /\ n \in Nat
    BY UnreadFacts
  <2>2. ASSUME NEW i \in 1..n
        PROVE  /\ dgs[i] \in Dgram /\ End(dgs[i]) \in Nat
               /\ i = n => u.size <= End(dgs[i])
               /\ i < n => End(dgs[i]) < u.size
    <3>1. /\ dgs[i].off \in Nat /\ dgs[i].total \in Nat /\ End(dgs[i]) = dgs[i].off + dgs[i].total
          /\ dgs[i] \in Dgram
          /\ i < n => End(dgs[i]) < chunks[k].size
          /\ i = n => chunks[k].size <= End(dgs[i])
      BY UnreadFacts
    <3>2. End(dgs[i]) \in Nat
      BY <3>1
    <3> HIDE DEF u
    <3>3. QED
      BY <2>1, <3>1, <3>2
  <2>3. QED
    BY <2>1, <2>2
<1> HIDE DEF dgs, u
<1>2. Cut(u) <=> n # 0 /\ u.size < End(dgs[n])
  BY <1>1 DEF Cut, Last, dgs
<1>3. CASE ~ Cut(u)
  <2>1. Whole(u) = dgs
    BY <1>3 DEF Whole, dgs
  <2>2. ASSUME NEW i \in 1..n
        PROVE  End(dgs[i]) <= u.size
    <3>1. CASE i < n
      BY <1>1, <3>1
    <3>2. CASE i = n
      BY <1>1, <1>2, <1>3, <3>2
    <3>3. QED
      BY <1>1, <3>1, <3>2
  <2>3. QED
    BY <1>1, <1>3, <2>1, <2>2 DEF W, u, dgs
<1>4. CASE Cut(u)
  <2>1. Whole(u) = SubSeq(dgs, 1, n - 1)
    BY <1>4 DEF Whole, Front, dgs
  <2>2. n >= 1 /\ n \in 1..n /\ u.size < End(dgs[n])
    BY <1>1, <1>2, <1>4
  <2>3. /\ Whole(u) \in Seq(Dgram) /\ Len(Whole(u)) = n - 1
        /\ \A i \in 1..n - 1 : Whole(u)[i] = dgs[i]
    <3>1. n - 1 \in 0..n /\ \A i \in 1..n - 1 : i \in 1..n
      BY <1>1, <2>2
    <3>2. SubSeq(dgs, 1, n - 1) = [i \in 1..n - 1 |-> dgs[i]]
      BY <1>1, <2>2, <3>1
    <3>3. \A i \in 1..n - 1 : dgs[i] \in Dgram
      BY <1>1, <3>1
    <3>4. n - 1 \in Nat
      BY <3>1, <2>2
    <3> HIDE DEF n
    <3>5. QED
      BY <2>1, <3>2, <3>3, <3>4
  <2>4. ASSUME NEW i \in 1..n
        PROVE  i <= n - 1 <=> End(dgs[i]) <= u.size
    <3>1. CASE i < n
      BY <1>1, <3>1
    <3>2. CASE i = n
      BY <1>1, <2>2, <3>2
    <3>3. QED
      BY <1>1, <3>1, <3>2
  <2>5. Last(dgs) = dgs[n]
    BY DEF Last
  <2>6. n = (n - 1) + 1 /\ n - 1 \in Nat /\ n - 1 <= n
    BY <1>1, <2>2
  <2>7. QED
    BY <1>1, <1>4, <2>3, <2>4, <2>5, <2>6 DEF W, u, dgs
<1>5. QED
  BY <1>3, <1>4

-----------------------------------------------------------------------------
(* What may be served, as a function of how many chunks are read           *)

\* ServedUpTo is the recursive function its definition writes down: such a
\* function exists for every list of chunks.
LEMMA ServedUpToUnfolds ==
  ASSUME NEW files, Len(files) \in Nat
  PROVE  ServedUpTo(files) =
           [k \in 0..Len(files) |->
              IF k = 0 THEN [dgs |-> <<>>, stop |-> "ended"]
              ELSE ServeChunk(ServedUpTo(files)[k - 1], ToRead(files, k))]
<1> DEFINE zero == [dgs |-> <<>>, stop |-> "ended"]
           Body(f, k) == IF k = 0 THEN zero ELSE ServeChunk(f[k - 1], ToRead(files, k))
           Defines(f, m) == f = [k \in 0..m |-> Body(f, k)]
           T == {m \in 0..Len(files) : \E f : Defines(f, m)}
<1>1. PICK n : n = Len(files)
  OBVIOUS
<1>2. n \in Nat
  BY <1>1
<1>3. 0 \in T
  <2> DEFINE f == [k \in 0..0 |-> zero]
  <2>1. Defines(f, 0)
    OBVIOUS
  <2>2. 0 \in 0..Len(files)
    BY <1>1, <1>2
  <2> HIDE DEF f
  <2>3. QED
    BY <2>1, <2>2
<1>4. ASSUME NEW m \in 1..n, m - 1 \in T
      PROVE  m \in T
  <2>1. PICK f : Defines(f, m - 1)
    BY <1>4
  <2> DEFINE g == [k \in 0..m |-> IF k = m THEN ServeChunk(f[m - 1], ToRead(files, m)) ELSE f[k]]
  <2>2. ASSUME NEW k \in 0..m
        PROVE  g[k] = Body(g, k)
    <3>1. CASE k = m
      <4>1. k # 0 /\ m - 1 \in 0..m /\ m - 1 # m
        BY <3>1
      <4>2. g[k] = ServeChunk(f[m - 1], ToRead(files, m)) /\ g[m - 1] = f[m - 1]
        BY <3>1, <4>1
      <4> HIDE DEF g
      <4>3. QED
        BY <3>1, <4>1, <4>2
    <3>2. CASE k # m
      <4>1. k \in 0..m - 1 /\ g[k] = f[k]
        BY <3>2
      <4>2. f[k] = Body(f, k)
        BY <2>1, <4>1
      <4>3. k # 0 => k - 1 \in 0..m /\ k - 1 # m
        BY <3>2
      <4>4. k # 0 => g[k - 1] = f[k - 1]
        BY <4>3
      <4> HIDE DEF g
      <4>5. QED
        BY <4>1, <4>2, <4>4
    <3>3. QED
      BY <3>1, <3>2
  <2>3. g = [k \in 0..m |-> g[k]]
    OBVIOUS
  <2> HIDE DEF g
  <2>4. Defines(g, m)
    BY <2>2, <2>3
  <2>5. QED
    BY <1>1, <1>2, <2>4
<1> HIDE DEF T
<1>5. \A k \in 0..n : k \in T
  BY <1>2, <1>3, <1>4, IntervalInduction
<1>6. n \in T
  BY <1>2, <1>5
<1>7. PICK g : g = [k \in 0..Len(files) |-> Body(g, k)]
  BY <1>1, <1>6 DEF T
<1>8. QED
  BY <1>7 DEF ServedUpTo

\* How far the contract is from the start of chunk k + 1.
Acc(k) == ServedUpTo(chunks)[k]

LEMMA AccStep ==
  ASSUME TypeOK
  PROVE  /\ Acc(0) = [dgs |-> <<>>, stop |-> "ended"]
         /\ \A k \in 1..Len(chunks) : Acc(k) = ServeChunk(Acc(k - 1), Unread(k))
<1>1. PICK n : n = Len(chunks)
  OBVIOUS
<1>2. n \in Nat
  BY <1>1, ChunksWellFormed DEF TypeOK
<1>3. ServedUpTo(chunks) = [k \in 0..n |->
        IF k = 0 THEN [dgs |-> <<>>, stop |-> "ended"]
        ELSE ServeChunk(ServedUpTo(chunks)[k - 1], ToRead(chunks, k))]
  BY <1>1, <1>2, ServedUpToUnfolds
<1>4. ASSUME NEW k \in 0..n
      PROVE  ServedUpTo(chunks)[k] = IF k = 0 THEN [dgs |-> <<>>, stop |-> "ended"]
                ELSE ServeChunk(ServedUpTo(chunks)[k - 1], ToRead(chunks, k))
  BY <1>3, Zenon
<1>5. 0 \in 0..n /\ \A k \in 1..n : k \in 0..n /\ k # 0
  BY <1>2
<1>6. QED
  BY <1>1, <1>4, <1>5 DEF Acc, Unread
\* Chunk k continues the dgrams of `acc` in timestamp order.
Continues(acc, k) ==
  acc.dgs # <<>> /\ W(k) # <<>> => Last(acc.dgs).ts <= W(k)[1].ts

\* The three ways a chunk is taken up.
LEMMA ServeChunkCases ==
  ASSUME TypeOK, NEW k \in 1..Len(chunks), NEW acc \in Outcome
  PROVE  LET next == ServeChunk(acc, Unread(k)) IN
         /\ acc.stop \in {"cut", "raised"} => next = [dgs |-> acc.dgs, stop |-> "raised"]
         /\ acc.stop = "ended" /\ ~ Continues(acc, k) => next = [dgs |-> acc.dgs, stop |-> "raised"]
         /\ acc.stop = "ended" /\ Continues(acc, k) =>
              next = [dgs |-> acc.dgs \o W(k),
                      stop |-> IF ~ Cut(Unread(k)) THEN "ended"
                               ELSE IF CutInHeader(Unread(k)) THEN "cut" ELSE "raised"]
         /\ next \in Outcome
         /\ Len(acc.dgs) <= Len(next.dgs)
         /\ \A i \in 1..Len(acc.dgs) : next.dgs[i] = acc.dgs[i]
<1> DEFINE c == Unread(k)
           w == W(k)
           next == ServeChunk(acc, c)
           end == IF ~ Cut(c) THEN "ended" ELSE IF CutInHeader(c) THEN "cut" ELSE "raised"
           Back == acc.dgs # <<>> /\ w # <<>> /\ w[1].ts < Last(acc.dgs).ts
<1>1. w \in Seq(Dgram) /\ acc.dgs \in Seq(Dgram) /\ acc.stop \in Stops /\ end \in Stops
  BY WholeFacts DEF Outcome, Stops
<1>2. Back <=> ~ Continues(acc, k)
  <2>1. acc.dgs # <<>> /\ w # <<>> => Last(acc.dgs) \in Dgram /\ w[1] \in Dgram
    <3>1. acc.dgs # <<>> => Len(acc.dgs) \in 1..Len(acc.dgs)
      BY <1>1
    <3>2. w # <<>> => 1 \in 1..Len(w)
      <4> HIDE DEF w
      <4>1. QED
        BY <1>1
    <3>3. QED
      BY <1>1, <3>1, <3>2 DEF Last
  <2>2. acc.dgs # <<>> /\ w # <<>> => Last(acc.dgs).ts \in Nat /\ w[1].ts \in Nat
    BY <2>1 DEF Dgram
  <2> HIDE DEF w
  <2>3. QED
    BY <2>2 DEF Continues, w
<1>3. acc.stop \in {"cut", "raised"} => next = [acc EXCEPT !.stop = "raised"]
  BY DEF ServeChunk
<1>4. acc.stop = "ended" /\ Back => next = [acc EXCEPT !.stop = "raised"]
  BY DEF ServeChunk, W
<1>5. acc.stop = "ended" /\ ~ Back => next = [dgs |-> acc.dgs \o w, stop |-> end]
  BY DEF ServeChunk, W
<1>6. [acc EXCEPT !.stop = "raised"] = [dgs |-> acc.dgs, stop |-> "raised"]
  BY DEF Outcome
<1> HIDE DEF next, w, end, Back
<1>7. /\ acc.dgs \o w \in Seq(Dgram) /\ Len(acc.dgs) <= Len(acc.dgs \o w)
      /\ \A i \in 1..Len(acc.dgs) : (acc.dgs \o w)[i] = acc.dgs[i]
  BY <1>1
<1>8. CASE next = [dgs |-> acc.dgs, stop |-> "raised"]
  <2>1. next \in Outcome /\ next.dgs = acc.dgs
    BY <1>1, <1>8 DEF Outcome, Stops
  <2>2. Len(acc.dgs) <= Len(next.dgs)
    BY <1>1, <2>1
  <2>3. QED
    BY <1>2, <1>3, <1>4, <1>5, <1>6, <2>1, <2>2 DEF next, w, end
<1>9. CASE acc.stop = "ended" /\ ~ Back
  <2>1. next = [dgs |-> acc.dgs \o w, stop |-> end]
    BY <1>5, <1>9
  <2>2. next \in Outcome /\ next.dgs = acc.dgs \o w
    BY <1>1, <1>7, <2>1 DEF Outcome
  <2>3. QED
    BY <1>2, <1>7, <1>9, <2>1, <2>2 DEF next, w, end
<1>10. QED
  BY <1>1, <1>3, <1>4, <1>6, <1>8, <1>9 DEF Stops

LEMMA AccType ==
  ASSUME TypeOK
  PROVE  \A k \in 0..Len(chunks) : Acc(k) \in Outcome
<1> DEFINE T == {k \in 0..Len(chunks) : Acc(k) \in Outcome}
<1>1. PICK n : n = Len(chunks)
  OBVIOUS
<1>2. n \in Nat
  BY <1>1, ChunksWellFormed DEF TypeOK
<1>3. 0 \in T
  <2>1. 0 \in 0..Len(chunks)
    BY <1>1, <1>2
  <2>2. <<>> \in Seq(Dgram)
    OBVIOUS
  <2>3. [dgs |-> <<>>, stop |-> "ended"] \in Outcome
    BY <2>2 DEF Outcome, Stops
  <2>4. QED
    BY <2>1, <2>3, AccStep
<1>4. \A k \in 1..n : k - 1 \in T => k \in T
  <2> SUFFICES ASSUME NEW k \in 1..n, k - 1 \in T
               PROVE  k \in T
    OBVIOUS
  <2>1. k \in 0..Len(chunks) /\ k \in 1..Len(chunks)
    BY <1>1, <1>2
  <2>2. Acc(k) = ServeChunk(Acc(k - 1), Unread(k))
    BY <2>1, AccStep
  <2>3. QED
    BY <2>1, <2>2, ServeChunkCases
<1> HIDE DEF T
<1>5. \A k \in 0..n : k \in T
  BY <1>2, <1>3, <1>4, IntervalInduction
<1>6. QED
  BY <1>1, <1>5 DEF T

\* Reading on only adds dgrams, and none once the reader has refused.
Grown(k, m) ==
  /\ Len(Acc(k).dgs) <= Len(Acc(m).dgs)
  /\ \A i \in 1..Len(Acc(k).dgs) : Acc(m).dgs[i] = Acc(k).dgs[i]
  /\ Acc(k).stop \in {"cut", "raised"} /\ k < m =>
       Acc(m) = [dgs |-> Acc(k).dgs, stop |-> "raised"]

LEMMA AccGrows ==
  ASSUME TypeOK, NEW k \in 0..Len(chunks)
  PROVE  \A m \in k..Len(chunks) : Grown(k, m)
<1> DEFINE T == {m \in 0..Len(chunks) : k <= m => Grown(k, m)}
<1>1. PICK n : n = Len(chunks)
  OBVIOUS
<1>2. n \in Nat /\ k \in 0..n
  BY <1>1, ChunksWellFormed DEF TypeOK
<1>3. Acc(k) \in Outcome /\ Acc(k).dgs \in Seq(Dgram) /\ Len(Acc(k).dgs) \in Nat
  BY AccType DEF Outcome
<1>4. Grown(k, k)
  BY <1>2, <1>3 DEF Grown
<1>5. 0 \in T
  <2>1. 0 \in 0..Len(chunks) /\ (k <= 0 => k = 0)
    BY <1>1, <1>2
  <2>2. QED
    BY <1>4, <2>1
<1>6. \A m \in 1..n : m - 1 \in T => m \in T
  <2> SUFFICES ASSUME NEW m \in 1..n, m - 1 \in T, k <= m
               PROVE  Grown(k, m)
    BY <1>1, <1>2
  <2>1. CASE k = m
    BY <1>4, <2>1
  <2>2. CASE k # m
    <3>1. k <= m - 1 /\ m - 1 \in 0..Len(chunks) /\ m \in 1..Len(chunks)
      BY <1>1, <1>2, <2>2
    <3>2. Grown(k, m - 1)
      BY <3>1
    <3>3. Acc(m) = ServeChunk(Acc(m - 1), Unread(m)) /\ Acc(m - 1) \in Outcome
      BY <3>1, AccStep, AccType
    <3>4. Acc(m - 1).dgs \in Seq(Dgram) /\ Len(Acc(m - 1).dgs) \in Nat
      BY <3>3 DEF Outcome
    <3>5. /\ Acc(m) \in Outcome /\ Len(Acc(m - 1).dgs) <= Len(Acc(m).dgs)
          /\ \A i \in 1..Len(Acc(m - 1).dgs) : Acc(m).dgs[i] = Acc(m - 1).dgs[i]
          /\ Acc(m - 1).stop \in {"cut", "raised"} =>
               Acc(m) = [dgs |-> Acc(m - 1).dgs, stop |-> "raised"]
      BY <3>1, <3>3, ServeChunkCases
    <3>6. Len(Acc(m).dgs) \in Nat
      BY <3>5 DEF Outcome
    <3>7. ASSUME Acc(k).stop \in {"cut", "raised"}
          PROVE  Acc(m) = [dgs |-> Acc(k).dgs, stop |-> "raised"]
      <4>1. Acc(m - 1).dgs = Acc(k).dgs /\ Acc(m - 1).stop \in {"cut", "raised"}
        <5>1. CASE k = m - 1
          BY <3>7, <5>1
        <5>2. CASE k # m - 1
          <6>1. k < m - 1
            BY <1>2, <3>1, <5>2
          <6>2. QED
            BY <3>2, <3>7, <6>1 DEF Grown
        <5>3. QED
          BY <5>1, <5>2
      <4>2. QED
        BY <3>5, <4>1
    <3>8. ASSUME NEW i \in 1..Len(Acc(k).dgs)
          PROVE  Acc(m).dgs[i] = Acc(k).dgs[i]
      <4>1. i \in 1..Len(Acc(m - 1).dgs) /\ Acc(m - 1).dgs[i] = Acc(k).dgs[i]
        BY <1>3, <3>2, <3>4 DEF Grown
      <4>2. QED
        BY <3>5, <4>1
    <3>9. Len(Acc(k).dgs) <= Len(Acc(m).dgs)
      BY <1>3, <3>2, <3>4, <3>5, <3>6 DEF Grown
    <3>10. QED
      BY <3>7, <3>8, <3>9 DEF Grown
  <2>3. QED
    BY <2>1, <2>2
<1> HIDE DEF T
<1>7. \A m \in 0..n : m \in T
  BY <1>2, <1>5, <1>6, IntervalInduction
<1> USE DEF T
<1>8. QED
  BY <1>1, <1>2, <1>7
\* A chunk that continues the ones before it is served whole.
LEMMA AccNext ==
  ASSUME TypeOK, NEW k \in 1..Len(chunks), Acc(k - 1).stop = "ended", Continues(Acc(k - 1), k)
  PROVE  /\ Acc(k).dgs = Acc(k - 1).dgs \o W(k)
         /\ ~ Cut(Unread(k)) => Acc(k).stop = "ended"
         /\ Cut(Unread(k)) /\ CutInHeader(Unread(k)) => Acc(k).stop = "cut"
         /\ Cut(Unread(k)) /\ ~ CutInHeader(Unread(k)) => Acc(k).stop = "raised"
<1>1. k - 1 \in 0..Len(chunks)
  <2>1. Len(chunks) \in Nat
    BY ChunksWellFormed DEF TypeOK
  <2>2. QED
    BY <2>1
<1>2. Acc(k - 1) \in Outcome /\ Acc(k) = ServeChunk(Acc(k - 1), Unread(k))
  BY <1>1, AccType, AccStep
<1>3. QED
  BY <1>2, ServeChunkCases

\* What the contract says in the end, from what it says after chunk k.
LEMMA ServedIs ==
  ASSUME TypeOK, NEW k \in 1..Len(chunks)
  PROVE  /\ Served(chunks).stop \in {"ended", "raised"}
         /\ Acc(k).stop = "raised" =>
              Served(chunks).dgs = Acc(k).dgs /\ Served(chunks).stop = "raised"
         /\ Acc(k).stop = "cut" =>
              /\ Served(chunks).dgs = Acc(k).dgs
              /\ Served(chunks).stop = IF k < Len(chunks) THEN "raised" ELSE "ended"
         /\ Acc(k).stop = "ended" /\ ~ (k < Len(chunks)) =>
              Served(chunks).dgs = Acc(k).dgs /\ Served(chunks).stop = "ended"
         /\ Len(Acc(k).dgs) \in Nat /\ Len(Served(chunks).dgs) \in Nat
         /\ Len(Acc(k).dgs) <= Len(Served(chunks).dgs)
         /\ \A i \in 1..Len(Acc(k).dgs) : Served(chunks).dgs[i] = Acc(k).dgs[i]
<1>1. PICK n : n = Len(chunks)
  OBVIOUS
<1>2. n \in Nat /\ k \in 1..n
  BY <1>1, ChunksWellFormed DEF TypeOK
<1>3. k \in 0..Len(chunks) /\ n \in k..Len(chunks) /\ n \in 0..Len(chunks)
  BY <1>1, <1>2
<1>4. Acc(n) \in Outcome /\ Acc(k) \in Outcome /\ Grown(k, n)
  BY <1>3, AccType, AccGrows
<1>5. Served(chunks) = [Acc(n) EXCEPT !.stop = IF Acc(n).stop = "cut" THEN "ended" ELSE Acc(n).stop]
  BY <1>1 DEF Served, Acc
<1>6. /\ Served(chunks).dgs = Acc(n).dgs
      /\ Served(chunks).stop = IF Acc(n).stop = "cut" THEN "ended" ELSE Acc(n).stop
  BY <1>4, <1>5 DEF Outcome
<1>7. Served(chunks).stop \in {"ended", "raised"}
  BY <1>4, <1>6 DEF Outcome, Stops
<1>8. /\ Len(Acc(k).dgs) \in Nat /\ Len(Served(chunks).dgs) \in Nat
      /\ Len(Acc(k).dgs) <= Len(Served(chunks).dgs)
      /\ \A i \in 1..Len(Acc(k).dgs) : Served(chunks).dgs[i] = Acc(k).dgs[i]
  BY <1>4, <1>6 DEF Outcome, Grown
<1>9. CASE k < n
  BY <1>1, <1>4, <1>6, <1>7, <1>8, <1>9 DEF Grown
<1>10. CASE k = n
  BY <1>1, <1>2, <1>6, <1>7, <1>8, <1>10
<1>11. QED
  BY <1>2, <1>9, <1>10

-----------------------------------------------------------------------------
(* The cursor stands where the contract says                               *)

\* The cursor has delivered what the chunks before this one hold and the
\* first j unread dgrams of this one, and stands behind them; the chunk was
\* found to continue its predecessors by the time its first head is out.
Standing(j) ==
  /\ j \in 0..Len(W(idx))
  /\ delivered = Acc(idx - 1).dgs \o SubSeq(W(idx), 1, j)
  /\ base + pos = PlaceAt(idx, j)
  /\ (j > 0 \/ status = "head") => Continues(Acc(idx - 1), idx)
  /\ status = "head" => j < Len(W(idx)) /\ head.dg = W(idx)[j + 1] /\ ~ justRolled
  /\ status = "peek" => (justRolled <=> j = 0 /\ idx > 1)

ServesInv ==
  status \in {"peek", "head"} =>
    Acc(idx - 1).stop = "ended" /\ \E j \in Nat : Standing(j)

\* The same of the next state, for a step that leaves the files alone.
LEMMA StandsNext ==
  ASSUME chunks' = chunks,
         NEW j \in Nat, NEW k, k = idx',
         Acc(k - 1).stop = "ended",
         j \in 0..Len(W(k)),
         delivered' = Acc(k - 1).dgs \o SubSeq(W(k), 1, j),
         base' + pos' = PlaceAt(k, j),
         (j > 0 \/ status' = "head") => Continues(Acc(k - 1), k),
         status' = "head" => j < Len(W(k)) /\ head'.dg = W(k)[j + 1] /\ ~ justRolled',
         status' = "peek" => (justRolled' <=> j = 0 /\ k > 1)
  PROVE  ServesInv'
BY DEF ServesInv, Standing, Acc, W, PlaceAt, Continues, Unread

\* A header in the window is that of the next unread dgram.
LEMMA HeaderIsNext ==
  ASSUME IInv, NEW j \in Nat, Standing(j), Len(buf) >= pos + Hdr
  PROVE  /\ j < Len(Unread(idx).dgs) /\ HeaderAt(pos) = Unread(idx).dgs[j + 1]
<1> DEFINE dgs == chunks[idx].dgs
           rest == Unread(idx).dgs
           h == HeaderAt(pos)
<1>1. TypeOK /\ WindowIsFile /\ OnBoundary /\ idx \in 1..Len(chunks)
  BY DEF IInv, TypeOK
<1>2. h.off = base + pos /\ \E i \in 1..Len(dgs) : dgs[i] = h
  BY <1>1, HeaderIsDgram
<1>3. PICK i \in 1..Len(dgs) : dgs[i] = h
  BY <1>2
<1>4. /\ Size \in Nat /\ Len(rest) \in Nat /\ Len(dgs) \in Nat
      /\ h.off \in Nat /\ h.off < Size
  BY <1>1, <1>3, ChunkFacts, UnreadFacts DEF Size
<1>5. base + pos = PlaceAt(idx, j)
  BY DEF Standing
<1> HIDE DEF h
<1>6. j < Len(rest)
  <2>1. SUFFICES ASSUME ~ (j < Len(rest))
                 PROVE  FALSE
    OBVIOUS
  <2>2. base + pos = Size
    BY <1>5, <2>1 DEF PlaceAt, Size
  <2>3. QED
    BY <1>2, <1>4, <2>2
<1>7. rest[j + 1].off = base + pos
  BY <1>5, <1>6 DEF PlaceAt
<1>8. j + 1 \in 1..Len(rest)
  <2> HIDE DEF rest
  <2>1. QED
    BY <1>4, <1>6
<1>9. PICK m \in 1..Len(dgs) : dgs[m] = rest[j + 1]
  BY <1>1, <1>8, UnreadFacts
<1>10. dgs[m].off = dgs[i].off /\ dgs[i].off \in Nat
  BY <1>2, <1>3, <1>4, <1>7, <1>9
<1>11. ~ (i < m) /\ ~ (m < i)
  <2>1. i < m => dgs[i].off < dgs[m].off
    BY <1>1, OffsetsAscend
  <2>2. m < i => dgs[m].off < dgs[i].off
    BY <1>1, OffsetsAscend
  <2> HIDE DEF dgs
  <2>3. QED
    BY <1>10, <2>1, <2>2
<1>12. i = m
  <2> HIDE DEF dgs
  <2>1. QED
    BY <1>4, <1>11
<1>13. QED
  BY <1>3, <1>6, <1>9, <1>12 DEF h

\* At the end of the file with nothing left over, the chunk was whole.
LEMMA EndIsWhole ==
  ASSUME IInv, NEW j \in Nat, Standing(j), AtEndOfFile, pos = Len(buf)
  PROVE  ~ Cut(Unread(idx)) /\ j = Len(W(idx))
<1> DEFINE rest == Unread(idx).dgs
<1>1. /\ TypeOK /\ WindowIsFile /\ idx \in 1..Len(chunks) /\ base \in Nat /\ pos \in Nat
      /\ Len(buf) \in Nat
  BY DEF IInv, TypeOK
<1>2. Size \in Nat /\ Size = chunks[idx].size
  BY <1>1, ChunkFacts DEF Size
<1>3. base + pos = Size
  BY <1>1, <1>2 DEF AtEndOfFile, WindowIsFile
<1>4. base + pos = PlaceAt(idx, j) /\ j \in 0..Len(W(idx))
  BY DEF Standing
<1>5. Len(rest) \in Nat /\ Len(W(idx)) \in Nat /\ Len(W(idx)) <= Len(rest)
  BY <1>1, UnreadFacts, WholeFacts
<1>6. ~ (j < Len(rest))
  <2>1. SUFFICES ASSUME j < Len(rest)
                 PROVE  FALSE
    OBVIOUS
  <2>2. j + 1 \in 1..Len(rest)
    <3> HIDE DEF rest
    <3>1. QED
      BY <1>5, <2>1
  <2>3. rest[j + 1].off \in Nat /\ rest[j + 1].off < Size
    BY <1>1, <1>2, <2>2, UnreadFacts
  <2>4. base + pos = rest[j + 1].off
    BY <1>4, <2>1 DEF PlaceAt
  <2>5. QED
    BY <1>2, <1>3, <2>3, <2>4
<1>7. Len(W(idx)) = Len(rest) /\ j = Len(W(idx))
  <2> HIDE DEF rest
  <2>1. QED
    BY <1>4, <1>5, <1>6
<1>8. Cut(Unread(idx)) => Len(rest) = Len(W(idx)) + 1
  BY <1>1, WholeFacts
<1>9. QED
  <2> HIDE DEF rest
  <2>1. QED
    BY <1>5, <1>7, <1>8

\* At the end of the file with bytes left over, those are the cut dgram.
LEMMA LeftoverIsCut ==
  ASSUME IInv, NEW j \in Nat, Standing(j), AtEndOfFile, ~ Filled, pos # Len(buf)
  PROVE  /\ Cut(Unread(idx)) /\ j = Len(W(idx))
         /\ CutInHeader(Unread(idx)) <=> Len(buf) < pos + Hdr
<1> DEFINE rest == Unread(idx).dgs
           d == rest[j + 1]
<1>1. /\ TypeOK /\ WindowIsFile /\ idx \in 1..Len(chunks) /\ base \in Nat /\ pos \in Nat
      /\ Len(buf) \in Nat /\ Hdr \in Nat /\ pos <= Len(buf)
  BY HdrAssumption DEF IInv, TypeOK, OnBoundary
<1>2. Size \in Nat /\ Size = chunks[idx].size
  BY <1>1, ChunkFacts DEF Size
<1>3. base + Len(buf) = Size /\ base + pos < Size
  <2>1. base + Len(buf) = Size
    <3>1. base + Len(buf) <= Size /\ base + Len(buf) >= Size
      BY <1>1 DEF AtEndOfFile, WindowIsFile
    <3>2. QED
      BY <1>1, <1>2, <3>1
  <2>2. pos < Len(buf)
    BY <1>1
  <2>3. QED
    BY <1>1, <2>1, <2>2
<1>4. base + pos = PlaceAt(idx, j) /\ j \in 0..Len(W(idx))
  BY DEF Standing
<1>5. Len(rest) \in Nat /\ Len(W(idx)) \in Nat /\ Len(W(idx)) <= Len(rest)
  BY <1>1, UnreadFacts, WholeFacts
<1>6. j < Len(rest)
  BY <1>1, <1>2, <1>3, <1>4 DEF PlaceAt
<1>7. j + 1 \in 1..Len(rest) /\ d.off = base + pos
  <2>1. d.off = base + pos
    BY <1>4, <1>6 DEF PlaceAt
  <2> HIDE DEF rest, d
  <2>2. QED
    BY <1>5, <1>6, <2>1
<1>8. d.off \in Nat /\ d.total \in Nat /\ End(d) = d.off + d.total /\ Hdr <= d.total
  BY <1>1, <1>7, UnreadFacts
<1>9. ~ (End(d) <= Size)
  <2>1. CASE Len(buf) < pos + Hdr
    <3> HIDE DEF d
    <3>1. QED
      BY <1>1, <1>2, <1>3, <1>7, <1>8, <2>1
  <2>2. CASE Len(buf) >= pos + Hdr
    <3>1. HeaderAt(pos) = d
      BY <2>2, HeaderIsNext
    <3>2. ~ (Len(buf) >= pos + d.total)
      BY <1>1, <2>2, <3>1 DEF Filled, Wanted
    <3> HIDE DEF d
    <3>3. QED
      BY <1>1, <1>2, <1>3, <1>7, <1>8, <3>2
  <2>3. QED
    BY <1>1, <2>1, <2>2
<1>10. ~ (j + 1 <= Len(W(idx)))
  BY <1>1, <1>2, <1>7, <1>9, WholeFacts
<1>11. j = Len(W(idx))
  BY <1>4, <1>5, <1>10
<1>12. Cut(Unread(idx))
  <2>1. ~ Cut(Unread(idx)) => Len(W(idx)) = Len(rest)
    BY <1>1, WholeFacts
  <2> HIDE DEF rest
  <2>2. QED
    BY <1>5, <1>6, <1>11, <2>1
<1>13. Last(rest) = d
  BY <1>1, <1>11, <1>12, WholeFacts
<1>14. Unread(idx).size = Size
  BY <1>1, <1>2, UnreadFacts
<1>15. Size - d.off < Hdr <=> Len(buf) < pos + Hdr
  <2> HIDE DEF d
  <2>1. QED
    BY <1>1, <1>2, <1>3, <1>7, <1>8
<1>16. QED
  BY <1>11, <1>12, <1>13, <1>14, <1>15 DEF CutInHeader
-----------------------------------------------------------------------------
(* The cursor's steps as the contract's                                    *)

\* A step inside one open cursor that consumes nothing is invisible.
LEMMA InvisibleStep ==
  ASSUME UNCHANGED <<chunks, delivered>>, status \in {"peek", "head"}, status' \in {"peek", "head"}
  PROVE  UNCHANGED Contract!vars
BY DEF Contract!vars

\* Once all is delivered the cursor may stop the way the contract says.
LEMMA StopStep ==
  ASSUME TypeOK, UNCHANGED <<chunks, delivered>>, status \in {"peek", "head"},
         delivered = Served(chunks).dgs, status' = Served(chunks).stop
  PROVE  ServesInv' /\ Contract!Stop
<1>1. 1 \in 1..Len(chunks)
  <2>1. Len(chunks) \in Nat /\ Len(chunks) >= 1
    BY ChunksWellFormed DEF TypeOK
  <2>2. QED
    BY <2>1
<1>2. status' \in {"ended", "raised"}
  BY <1>1, ServedIs
<1>3. QED
  BY <1>2 DEF ServesInv, Contract!Stop

\* What is delivered when the unread dgrams of the chunk are used up.
LEMMA DeliveredChunk ==
  ASSUME IInv, NEW j \in Nat, Standing(j), j = Len(W(idx)), Acc(idx - 1).stop = "ended"
  PROVE  Continues(Acc(idx - 1), idx) /\ delivered = Acc(idx).dgs
<1>1. TypeOK /\ idx \in 1..Len(chunks) /\ W(idx) \in Seq(Dgram)
  BY WholeFacts DEF IInv, TypeOK
<1>2. Continues(Acc(idx - 1), idx)
  <2>1. CASE j > 0
    BY <2>1 DEF Standing
  <2>2. CASE ~ (j > 0)
    <3>1. Len(W(idx)) = 0
      BY <2>2
    <3>2. W(idx) = <<>>
      BY <1>1, <3>1
    <3>3. QED
      BY <3>2 DEF Continues
  <2>3. QED
    BY <2>1, <2>2
<1>3. SubSeq(W(idx), 1, j) = W(idx)
  BY <1>1
<1>4. Acc(idx).dgs = Acc(idx - 1).dgs \o W(idx)
  BY <1>1, <1>2, AccNext
<1>5. QED
  BY <1>2, <1>3, <1>4 DEF Standing

LEMMA FillServes == IInv /\ ServesInv /\ Fill => ServesInv' /\ UNCHANGED Contract!vars
<1> SUFFICES ASSUME IInv, ServesInv, Fill
             PROVE  ServesInv' /\ UNCHANGED Contract!vars
  OBVIOUS
<1>1. status = "peek" /\ UNCHANGED <<chunks, idx, base, pos, head, justRolled, status, delivered>>
  BY DEF Fill
<1>2. ServesInv'
  BY <1>1 DEF ServesInv, Standing, Acc, W, PlaceAt, Continues, Unread
<1>3. QED
  BY <1>1, <1>2, InvisibleStep

LEMMA CutShortServes == IInv /\ ServesInv /\ CutShort => ServesInv' /\ Contract!Stop
<1> SUFFICES ASSUME IInv, ServesInv, CutShort
             PROVE  ServesInv' /\ Contract!Stop
  OBVIOUS
<1>1. /\ status = "peek" /\ ~ Filled /\ AtEndOfFile /\ pos # Len(buf)
      /\ status' = IF Len(buf) >= pos + Hdr \/ HasNextChunk THEN "raised" ELSE "ended"
      /\ UNCHANGED <<chunks, delivered>>
  BY DEF CutShort
<1>2. Acc(idx - 1).stop = "ended"
  BY <1>1 DEF ServesInv
<1>3. PICK j \in Nat : Standing(j)
  BY <1>1 DEF ServesInv
<1>4. /\ TypeOK /\ idx \in 1..Len(chunks) /\ Len(buf) \in Nat /\ pos \in Nat /\ Hdr \in Nat
  BY HdrAssumption DEF IInv, TypeOK
<1>5. /\ Cut(Unread(idx)) /\ j = Len(W(idx))
      /\ CutInHeader(Unread(idx)) <=> Len(buf) < pos + Hdr
  BY <1>1, <1>3, LeftoverIsCut
<1>6. Continues(Acc(idx - 1), idx) /\ delivered = Acc(idx).dgs
  BY <1>2, <1>3, <1>5, DeliveredChunk
<1>7. CASE Len(buf) >= pos + Hdr
  <2>1. Acc(idx).stop = "raised"
    BY <1>2, <1>4, <1>5, <1>6, <1>7, AccNext
  <2>2. status' = "raised"
    BY <1>1, <1>7
  <2>3. QED
    BY <1>1, <1>4, <1>6, <2>1, <2>2, ServedIs, StopStep
<1>8. CASE ~ (Len(buf) >= pos + Hdr)
  <2>1. Acc(idx).stop = "cut"
    BY <1>2, <1>4, <1>5, <1>6, <1>8, AccNext
  <2>2. status' = IF idx < Len(chunks) THEN "raised" ELSE "ended"
    BY <1>1, <1>8 DEF HasNextChunk
  <2>3. QED
    BY <1>1, <1>4, <1>6, <2>1, <2>2, ServedIs, StopStep
<1>9. QED
  BY <1>7, <1>8

LEMMA EndServes == IInv /\ ServesInv /\ EndOfStream => ServesInv' /\ Contract!Stop
<1> SUFFICES ASSUME IInv, ServesInv, EndOfStream
             PROVE  ServesInv' /\ Contract!Stop
  OBVIOUS
<1>1. /\ status = "peek" /\ AtEndOfFile /\ pos = Len(buf)
      /\ ~ (idx < Len(chunks)) /\ status' = "ended"
      /\ UNCHANGED <<chunks, delivered>>
  BY DEF EndOfStream, HasNextChunk
<1>2. Acc(idx - 1).stop = "ended"
  BY <1>1 DEF ServesInv
<1>3. PICK j \in Nat : Standing(j)
  BY <1>1 DEF ServesInv
<1>4. TypeOK /\ idx \in 1..Len(chunks)
  BY DEF IInv, TypeOK
<1>5. ~ Cut(Unread(idx)) /\ j = Len(W(idx))
  BY <1>1, <1>3, EndIsWhole
<1>6. Continues(Acc(idx - 1), idx) /\ delivered = Acc(idx).dgs
  BY <1>2, <1>3, <1>5, DeliveredChunk
<1>7. Acc(idx).stop = "ended"
  BY <1>2, <1>4, <1>5, <1>6, AccNext
<1>8. QED
  BY <1>1, <1>4, <1>6, <1>7, ServedIs, StopStep

LEMMA RollServes == IInv /\ ServesInv /\ Roll => ServesInv' /\ UNCHANGED Contract!vars
<1> SUFFICES ASSUME IInv, ServesInv, Roll
             PROVE  ServesInv' /\ UNCHANGED Contract!vars
  OBVIOUS
<1>1. /\ status = "peek" /\ AtEndOfFile /\ pos = Len(buf) /\ idx < Len(chunks)
      /\ idx' = idx + 1 /\ base' = 0 /\ pos' = 0 /\ justRolled' = TRUE
      /\ UNCHANGED <<chunks, status, delivered>>
  BY DEF Roll, HasNextChunk
<1>2. Acc(idx - 1).stop = "ended"
  BY <1>1 DEF ServesInv
<1>3. PICK j \in Nat : Standing(j)
  BY <1>1 DEF ServesInv
<1>4. TypeOK /\ idx \in 1..Len(chunks) /\ Len(chunks) \in Nat
  BY ChunkFacts DEF IInv, TypeOK
<1>5. ~ Cut(Unread(idx)) /\ j = Len(W(idx))
  BY <1>1, <1>3, EndIsWhole
<1>6. Continues(Acc(idx - 1), idx) /\ delivered = Acc(idx).dgs
  BY <1>2, <1>3, <1>5, DeliveredChunk
<1>7. Acc(idx).stop = "ended"
  BY <1>2, <1>4, <1>5, <1>6, AccNext
<1>8. PICK k : k = idx'
  OBVIOUS
<1>9. k \in 1..Len(chunks) /\ k - 1 = idx /\ k > 1 /\ k # 1
  BY <1>1, <1>4, <1>8
<1>10. W(k) \in Seq(Dgram) /\ Len(W(k)) \in Nat /\ 0 \in 0..Len(W(k))
  <2>1. W(k) \in Seq(Dgram) /\ Len(W(k)) \in Nat
    BY <1>4, <1>9, WholeFacts
  <2>2. QED
    BY <2>1
<1>11. delivered' = Acc(k - 1).dgs \o SubSeq(W(k), 1, 0)
  <2>1. idx \in 0..Len(chunks)
    BY <1>4
  <2>2. Acc(idx).dgs \in Seq(Dgram)
    BY <1>4, <2>1, AccType DEF Outcome
  <2>3. SubSeq(W(k), 1, 0) = <<>>
    BY <1>10
  <2>4. Acc(idx).dgs \o <<>> = Acc(idx).dgs
    BY <2>2
  <2>5. QED
    BY <1>1, <1>6, <1>9, <2>3, <2>4
<1>12. base' + pos' = PlaceAt(k, 0)
  BY <1>1, <1>4, <1>9, UnreadFacts DEF Start
<1>13. ServesInv'
  BY <1>1, <1>7, <1>8, <1>9, <1>10, <1>11, <1>12, StandsNext
<1>14. QED
  BY <1>1, <1>13, InvisibleStep
\* A served head is the next unread dgram, whole; a roll the contract does
\* not allow is exactly the one the cursor refuses.
LEMMA ServeServes ==
  IInv /\ RollChecked /\ ServesInv /\ Serve => ServesInv' /\ (UNCHANGED Contract!vars \/ Contract!Stop)
<1> SUFFICES ASSUME IInv, RollChecked, ServesInv, Serve
             PROVE  ServesInv' /\ (UNCHANGED Contract!vars \/ Contract!Stop)
  OBVIOUS
<1> DEFINE h == HeaderAt(pos)
           w == W(idx)
           acc == Acc(idx - 1)
           Back == justRolled /\ lastTs # None /\ h.ts < lastTs
<1>1. /\ status = "peek" /\ Filled /\ UNCHANGED <<chunks, idx, base, pos, delivered>>
      /\ ~ justRolled'
      /\ Back => status' = "raised"
      /\ ~ Back => status' = "head" /\ head' = [dg |-> h, at |-> pos]
  BY DEF Serve
<1>2. acc.stop = "ended"
  BY <1>1 DEF ServesInv
<1>3. PICK j \in Nat : Standing(j)
  BY <1>1 DEF ServesInv
<1>4. /\ TypeOK /\ WindowIsFile /\ idx \in 1..Len(chunks) /\ Len(chunks) \in Nat
      /\ base \in Nat /\ pos \in Nat /\ Len(buf) \in Nat /\ Hdr \in Nat
  BY HdrAssumption, ChunkFacts DEF IInv, TypeOK
<1>5. Len(buf) >= pos + Hdr /\ Len(buf) >= pos + h.total
  BY <1>1, <1>4 DEF Filled, Wanted
<1>6. j < Len(Unread(idx).dgs) /\ h = Unread(idx).dgs[j + 1]
  BY <1>3, <1>5, HeaderIsNext
<1>7. /\ Len(Unread(idx).dgs) \in Nat /\ w \in Seq(Dgram) /\ Len(w) \in Nat /\ j \in 0..Len(w)
      /\ Size \in Nat /\ Size = chunks[idx].size
  BY <1>3, <1>4, UnreadFacts, WholeFacts DEF Standing, Size
<1>8. j + 1 \in 1..Len(Unread(idx).dgs)
  <2> HIDE DEF h
  <2>1. QED
    BY <1>6, <1>7
<1>9. h.off = base + pos /\ h.off \in Nat /\ h.total \in Nat /\ h.ts \in Nat
      /\ End(h) = h.off + h.total
  <2>1. base + pos = PlaceAt(idx, j)
    BY <1>3 DEF Standing
  <2>2. h.off = base + pos
    BY <1>6, <2>1 DEF PlaceAt
  <2>3. h.off \in Nat /\ h.total \in Nat /\ h.ts \in Nat /\ End(h) = h.off + h.total
    BY <1>4, <1>6, <1>8, UnreadFacts
  <2>4. QED
    BY <2>2, <2>3
<1>10. End(h) <= chunks[idx].size
  <2>1. base + Len(buf) <= Size
    BY <1>4 DEF WindowIsFile
  <2> HIDE DEF h
  <2>2. QED
    BY <1>4, <1>5, <1>7, <1>9, <2>1
<1>11. j < Len(w) /\ h = w[j + 1]
  <2>1. j + 1 <= Len(w)
    BY <1>4, <1>6, <1>8, <1>10, WholeFacts
  <2>2. j + 1 \in 1..Len(w)
    <3> HIDE DEF w
    <3>1. QED
      BY <1>7, <2>1
  <2>3. w[j + 1] = Unread(idx).dgs[j + 1]
    BY <1>4, <2>2, WholeFacts
  <2> HIDE DEF h, w
  <2>4. QED
    BY <1>6, <1>7, <2>1, <2>3
<1>12. justRolled <=> j = 0 /\ idx > 1
  BY <1>1, <1>3 DEF Standing
<1>13. /\ acc \in Outcome /\ acc.dgs \in Seq(Dgram)
       /\ idx = 1 => acc.dgs = <<>>
  <2>1. idx - 1 \in 0..Len(chunks)
    BY <1>4
  <2>2. acc \in Outcome
    BY <1>4, <2>1, AccType
  <2>3. idx = 1 => acc = [dgs |-> <<>>, stop |-> "ended"]
    BY <1>4, AccStep
  <2>4. QED
    BY <2>2, <2>3 DEF Outcome
<1>14. j = 0 => delivered = acc.dgs
  <2>1. SubSeq(w, 1, 0) = <<>> /\ acc.dgs \o <<>> = acc.dgs
    BY <1>7, <1>13
  <2>2. QED
    BY <1>3, <2>1 DEF Standing
<1>15. j = 0 => lastTs = IF acc.dgs = <<>> THEN None ELSE Last(acc.dgs).ts
  BY <1>14 DEF RollChecked, Last
<1>16. acc.dgs # <<>> => Last(acc.dgs).ts \in Nat /\ Last(acc.dgs).ts # None
  <2>1. ASSUME acc.dgs # <<>>
        PROVE  Last(acc.dgs) \in Dgram
    <3>1. Len(acc.dgs) \in 1..Len(acc.dgs)
      BY <1>13, <2>1
    <3>2. QED
      BY <1>13, <3>1 DEF Last
  <2>2. QED
    BY <2>1, NoneAssumption DEF Dgram
<1>17. Continues(acc, idx) \/ j # 0 <=> ~ Back
  <2>1. CASE j # 0
    BY <1>12, <2>1
  <2>2. CASE j = 0
    <3>1. w # <<>> /\ w[1] = h
      <4> HIDE DEF w
      <4>1. QED
        BY <1>7, <1>11, <2>2
    <3>2. CASE acc.dgs = <<>>
      BY <1>15, <2>2, <3>2 DEF Continues
    <3>3. CASE acc.dgs # <<>>
      <4>1. lastTs = Last(acc.dgs).ts /\ lastTs # None /\ lastTs \in Nat /\ justRolled
        <5>1. idx > 1
          BY <1>4, <1>13, <3>3
        <5>2. QED
          BY <1>12, <1>15, <1>16, <2>2, <3>3, <5>1
      <4>2. Continues(acc, idx) <=> lastTs <= h.ts
        BY <3>1, <3>3, <4>1 DEF Continues
      <4> HIDE DEF h, acc
      <4>3. QED
        BY <1>9, <2>2, <4>1, <4>2
    <3>4. QED
      BY <3>2, <3>3
  <2>3. QED
    BY <2>1, <2>2
<1>18. CASE Back
  <2>1. j = 0 /\ ~ Continues(acc, idx)
    BY <1>17, <1>18
  <2>2. Acc(idx) = [dgs |-> acc.dgs, stop |-> "raised"]
    BY <1>2, <1>4, <1>13, <2>1, AccStep, ServeChunkCases
  <2>3. delivered = Served(chunks).dgs /\ Served(chunks).stop = "raised"
    BY <1>4, <1>14, <2>1, <2>2, ServedIs
  <2>4. QED
    BY <1>1, <1>4, <1>18, <2>3, StopStep
<1>19. CASE ~ Back
  <2>1. Continues(acc, idx)
    <3>1. j > 0 => Continues(acc, idx)
      BY <1>3 DEF Standing
    <3>2. QED
      BY <1>17, <1>19, <3>1
  <2>2. status' = "head" /\ head'.dg = h
    BY <1>1, <1>19
  <2>3. /\ delivered' = acc.dgs \o SubSeq(w, 1, j) /\ base' + pos' = PlaceAt(idx, j)
    BY <1>1, <1>3 DEF Standing
  <2>4. idx = idx'
    BY <1>1
  <2>5. ServesInv'
    BY <1>1, <1>2, <1>7, <1>11, <2>1, <2>2, <2>3, <2>4, StandsNext
  <2>6. QED
    BY <1>1, <2>2, <2>5, InvisibleStep
<1>20. QED
  BY <1>18, <1>19

\* Consuming the head delivers the dgram the contract has next.
LEMMA AdvanceServes == IInv /\ ServesInv /\ Advance => ServesInv' /\ Contract!Deliver
<1> SUFFICES ASSUME IInv, ServesInv, Advance
             PROVE  ServesInv' /\ Contract!Deliver
  OBVIOUS
<1> DEFINE d == head.dg
           w == W(idx)
           rest == Unread(idx).dgs
           acc == Acc(idx - 1)
<1>1. /\ status = "head" /\ status' = "peek" /\ delivered' = Append(delivered, d)
      /\ Trim(pos + d.total) /\ UNCHANGED <<chunks, idx, justRolled>>
  BY DEF Advance
<1>2. acc.stop = "ended"
  BY <1>1 DEF ServesInv
<1>3. PICK j \in Nat : Standing(j)
  BY <1>1 DEF ServesInv
<1>4. /\ TypeOK /\ idx \in 1..Len(chunks) /\ base \in Nat /\ pos \in Nat
  BY DEF IInv, TypeOK
<1>5. /\ w \in Seq(Dgram) /\ Len(w) \in Nat /\ j < Len(w) /\ d = w[j + 1]
      /\ delivered = acc.dgs \o SubSeq(w, 1, j)
      /\ base + pos = PlaceAt(idx, j) /\ Continues(acc, idx)
  BY <1>1, <1>3, <1>4, WholeFacts DEF Standing
<1>6. Len(rest) \in Nat /\ Len(w) <= Len(rest) /\ rest \in Seq(Dgram)
  BY <1>4, UnreadFacts, WholeFacts
<1>7. j + 1 \in 1..Len(w) /\ j + 1 \in 1..Len(rest) /\ j < Len(rest)
  <2> HIDE DEF w, rest
  <2>1. QED
    BY <1>5, <1>6
<1>8. d = rest[j + 1] /\ End(rest[j + 1]) <= chunks[idx].size
  <2>1. w[j + 1] = rest[j + 1]
    BY <1>4, <1>7, WholeFacts
  <2>2. j + 1 <= Len(w)
    BY <1>5
  <2>3. End(rest[j + 1]) <= chunks[idx].size
    BY <1>4, <1>7, <2>2, WholeFacts
  <2>4. QED
    BY <1>5, <2>1, <2>3
<1>9. /\ d.off \in Nat /\ d.total \in Nat /\ End(d) = d.off + d.total /\ d.off = base + pos
      /\ chunks[idx].size \in Nat
  <2>1. d.off \in Nat /\ d.total \in Nat /\ End(d) = d.off + d.total /\ chunks[idx].size \in Nat
    BY <1>4, <1>7, <1>8, UnreadFacts
  <2>2. d.off = base + pos
    BY <1>5, <1>7, <1>8 DEF PlaceAt
  <2>3. QED
    BY <2>1, <2>2
<1>10. base' + pos' = End(d)
  <2> HIDE DEF d
  <2>1. QED
    BY <1>1, <1>4, <1>9 DEF Trim
<1>11. PlaceAt(idx, j + 1) = End(d)
  <2>1. CASE j + 1 < Len(rest)
    <3>1. rest[(j + 1) + 1].off = End(rest[j + 1])
      BY <1>4, <1>7, <2>1, UnreadFacts
    <3>2. QED
      BY <1>8, <2>1, <3>1 DEF PlaceAt
  <2>2. CASE ~ (j + 1 < Len(rest))
    <3>1. j + 1 = Len(rest)
      <4> HIDE DEF rest
      <4>1. QED
        BY <1>6, <1>7, <2>2
    <3>2. chunks[idx].size <= End(rest[j + 1])
      BY <1>4, <1>7, <3>1, UnreadFacts
    <3>3. End(d) = chunks[idx].size
      <4> HIDE DEF d
      <4>1. QED
        BY <1>8, <1>9, <3>2
    <3>4. QED
      BY <2>2, <3>3 DEF PlaceAt
  <2>3. QED
    BY <2>1, <2>2
<1>12. acc.dgs \in Seq(Dgram) /\ Len(acc.dgs) \in Nat
  <2>1. Len(chunks) \in Nat
    BY <1>4, ChunkFacts
  <2>2. idx - 1 \in 0..Len(chunks)
    BY <1>4, <2>1
  <2>3. QED
    BY <1>4, <2>2, AccType DEF Outcome
<1> HIDE DEF w
<1>13. /\ SubSeq(w, 1, j) \in Seq(Dgram) /\ Len(SubSeq(w, 1, j)) = j
       /\ Append(SubSeq(w, 1, j), w[j + 1]) = SubSeq(w, 1, j + 1)
  <2>1. j \in 0..Len(w) /\ 1 <= j + 1 /\ j + 1 <= Len(w)
    BY <1>5
  <2>2. SubSeq(w, 1, j) = [i \in 1..j |-> w[i]]
    BY <1>5, <2>1
  <2>3. \A i \in 1..j : w[i] \in Dgram
    BY <1>5
  <2>4. SubSeq(w, 1, j) \in Seq(Dgram) /\ Len(SubSeq(w, 1, j)) = j
    BY <2>2, <2>3
  <2>5. SubSeq(w, 1, j + 1) = [i \in 1..j + 1 |-> w[i]]
    BY <1>5, <2>1
  <2>6. Append(SubSeq(w, 1, j), w[j + 1]) = [i \in 1..j + 1 |-> w[i]]
    BY <2>2, <2>4
  <2>7. QED
    BY <2>4, <2>5, <2>6
<1>14. delivered' = acc.dgs \o SubSeq(w, 1, j + 1)
  <2>1. Append(acc.dgs \o SubSeq(w, 1, j), w[j + 1]) = acc.dgs \o Append(SubSeq(w, 1, j), w[j + 1])
    <3>1. PICK s : s = SubSeq(w, 1, j)
      OBVIOUS
    <3>2. PICK t : t = acc.dgs
      OBVIOUS
    <3>3. w[j + 1] \in Dgram
      BY <1>5, <1>7
    <3>4. t \in Seq(Dgram) /\ s \in Seq(Dgram)
      BY <1>12, <1>13, <3>1, <3>2
    <3>5. Append(t \o s, w[j + 1]) = t \o Append(s, w[j + 1])
      BY <3>3, <3>4
    <3>6. QED
      BY <3>1, <3>2, <3>5
  <2>2. QED
    BY <1>1, <1>5, <1>13, <2>1
<1>15. ServesInv'
  <2>1. j + 1 \in Nat /\ j + 1 \in 0..Len(w) /\ idx' = idx /\ j + 1 # 0
    BY <1>1, <1>5
  <2>2. ~ justRolled'
    BY <1>1, <1>3 DEF Standing
  <2>3. QED
    BY <1>1, <1>2, <1>5, <1>10, <1>11, <1>14, <2>1, <2>2, StandsNext DEF w
<1>16. /\ Len(delivered) = Len(acc.dgs) + j /\ Len(delivered) \in Nat
  <2>1. PICK t : t = acc.dgs
    OBVIOUS
  <2>2. PICK v : v = SubSeq(w, 1, j)
    OBVIOUS
  <2>3. t \in Seq(Dgram) /\ v \in Seq(Dgram)
    BY <1>12, <1>13, <2>1, <2>2
  <2>4. Len(t \o v) = Len(t) + Len(v) /\ Len(t) \in Nat
    BY <2>3
  <2>5. delivered = t \o v /\ Len(v) = j /\ j \in Nat
    BY <1>5, <1>13, <2>1, <2>2
  <2>6. QED
    BY <2>1, <2>4, <2>5
<1>17. Acc(idx).dgs = acc.dgs \o w
  BY <1>2, <1>4, <1>5, AccNext DEF w
<1>18. Len(delivered) + 1 \in 1..Len(Acc(idx).dgs) /\ Acc(idx).dgs[Len(delivered) + 1] = w[j + 1]
  <2>1. PICK t : t = acc.dgs
    OBVIOUS
  <2>2. PICK n : n = Len(t)
    OBVIOUS
  <2>3. PICK v : v = w
    OBVIOUS
  <2>4. /\ t \in Seq(Dgram) /\ v \in Seq(Dgram) /\ n \in Nat /\ Len(v) \in Nat /\ j + 1 \in 1..Len(v)
        /\ Len(delivered) = n + j
    BY <1>5, <1>7, <1>12, <1>16, <2>1, <2>2, <2>3 DEF w
  <2>5. Len(t \o v) = n + Len(v) /\ (t \o v)[n + (j + 1)] = v[j + 1]
    BY <2>2, <2>4
  <2>6. (n + j) + 1 = n + (j + 1) /\ n + (j + 1) \in 1..n + Len(v)
    BY <2>4
  <2>7. QED
    BY <1>17, <2>1, <2>3, <2>4, <2>5, <2>6
<1>19. /\ Len(delivered) < Len(Served(chunks).dgs)
       /\ Served(chunks).dgs[Len(delivered) + 1] = d
  <2>1. /\ Len(Acc(idx).dgs) \in Nat /\ Len(Served(chunks).dgs) \in Nat
        /\ Len(Acc(idx).dgs) <= Len(Served(chunks).dgs)
        /\ Served(chunks).dgs[Len(delivered) + 1] = Acc(idx).dgs[Len(delivered) + 1]
    BY <1>4, <1>18, ServedIs
  <2>2. Len(delivered) < Len(Served(chunks).dgs)
    BY <1>16, <1>18, <2>1
  <2>3. QED
    BY <1>5, <1>18, <2>1, <2>2
<1>20. QED
  BY <1>1, <1>15, <1>19 DEF Contract!Deliver

\* Every step of the cursor is the contract's, or invisible to it.
LEMMA NextServes ==
  IInv /\ RollChecked /\ ServesInv /\ [Next]_vars => ServesInv' /\ [Contract!Next]_(Contract!vars)
<1> SUFFICES ASSUME IInv, RollChecked, ServesInv, [Next]_vars
             PROVE  ServesInv' /\ [Contract!Next]_(Contract!vars)
  OBVIOUS
<1>1. CASE Fill
  BY <1>1, FillServes
<1>2. CASE CutShort
  BY <1>2, CutShortServes DEF Contract!Next
<1>3. CASE Roll
  BY <1>3, RollServes
<1>4. CASE EndOfStream
  BY <1>4, EndServes DEF Contract!Next
<1>5. CASE Serve
  BY <1>5, ServeServes DEF Contract!Next
<1>6. CASE Advance
  BY <1>6, AdvanceServes DEF Contract!Next
<1>7. CASE Close
  <2>1. ServesInv'
    BY <1>7 DEF Close, ServesInv
  <2>2. Contract!Close
    BY <1>7 DEF Close, Contract!Close
  <2>3. QED
    BY <2>1, <2>2 DEF Contract!Next
<1>8. CASE UNCHANGED vars
  <2>1. ServesInv'
    BY <1>8 DEF vars, ServesInv, Standing, Acc, W, PlaceAt, Continues, Unread
  <2>2. UNCHANGED Contract!vars
    BY <1>8 DEF vars, Contract!vars
  <2>3. QED
    BY <2>1, <2>2
<1>9. QED
  BY <1>1, <1>2, <1>3, <1>4, <1>5, <1>6, <1>7, <1>8 DEF Next, Read

LEMMA InitServes == Init => ServesInv /\ Contract!Init
<1> SUFFICES ASSUME Init
             PROVE  ServesInv /\ Contract!Init
  OBVIOUS
<1>1. TypeOK
  BY InitEstablishes DEF IInv
<1>2. /\ idx = 1 /\ base = End(chunks[1].dgs[1]) /\ pos = 0 /\ justRolled = FALSE
      /\ status = "peek" /\ delivered = <<>>
  BY DEF Init
<1>3. idx \in 1..Len(chunks)
  BY <1>1 DEF TypeOK
<1>4. Acc(idx - 1) = [dgs |-> <<>>, stop |-> "ended"]
  BY <1>1, <1>2, AccStep
<1>5. Standing(0)
  <2>1. W(idx) \in Seq(Dgram) /\ Len(W(idx)) \in Nat
    BY <1>1, <1>3, WholeFacts
  <2>2. SubSeq(W(idx), 1, 0) = <<>> /\ 0 \in 0..Len(W(idx)) /\ <<>> \o <<>> = <<>>
    BY <2>1
  <2>3. PlaceAt(idx, 0) = Start(1) /\ Start(1) \in Nat
    BY <1>1, <1>2, <1>3, UnreadFacts
  <2>4. base + pos = PlaceAt(idx, 0)
    BY <1>2, <2>3 DEF Start
  <2>5. QED
    BY <1>2, <1>4, <2>2, <2>4 DEF Standing
<1>6. ServesInv
  BY <1>4, <1>5 DEF ServesInv
<1>7. Contract!Init
  BY <1>1, <1>2, <1>3, ServedIs DEF Contract!Init
<1>8. QED
  BY <1>6, <1>7

\* The cursor implements the stream its consumers are promised: whatever the
\* files, the reads and the trims, its steps deliver the dgrams the files hold
\* in order, none skipped or doubled, and it stops only when they are all
\* delivered and the way the contract says.  (That it gets there is liveness,
\* which the run checks.)
THEOREM CursorKeepsContract == Spec => Contract!Init /\ [][Contract!Next]_(Contract!vars)
<1>1. Init => IInv /\ RollChecked /\ ServesInv /\ Contract!Init
  BY InitEstablishes, InitChecked, InitServes
<1>2. IInv /\ [Next]_vars => IInv'
  BY NextPreserves
<1>3. IInv /\ RollChecked /\ [Next]_vars => RollChecked'
  BY NextChecked
<1>4. IInv /\ RollChecked /\ ServesInv /\ [Next]_vars =>
        ServesInv' /\ [Contract!Next]_(Contract!vars)
  BY NextServes
<1>5. QED
  BY <1>1, <1>2, <1>3, <1>4, PTL DEF Spec
=============================================================================
