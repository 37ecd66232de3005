---------------------------- MODULE StreamCursor ----------------------------
(***************************************************************************)
(* stream.py `_StreamCursor`: the forward cursor over one stream's chunk   *)
(* files.  It keeps a window `buf` of the current chunk, grown by pread,   *)
(* serves the dgram at `pos` as the head, drops the consumed prefix once   *)
(* it is long enough, and rolls to the next chunk file at a clean end.     *)
(*                                                                         *)
(* A byte is identified by where it lies on disk, <<chunk, offset>>, so    *)
(* the window's content is compared with the file, not just its length.    *)
(***************************************************************************)
EXTENDS StreamDisk

CONSTANTS
  Disks,          \* the layouts on disk the cursor may be opened on
  ReadChunk,      \* read_chunk: most bytes one pread returns
  TrimThreshold,  \* trim_threshold: consumed bytes that trigger compaction
  MaxTotal,       \* bound on the size a dgram header declares
  None

ASSUME DisksAssumption ==
  \A d \in Disks :
    /\ DiskOK(d)
    /\ \A k \in 1..Len(d.files) : d.files[k] # NoFile =>
         \A i \in 1..Len(d.files[k].dgs) : d.files[k].dgs[i].total <= MaxTotal

ASSUME SizesAssumption ==
  /\ ReadChunk \in Nat \ {0}
  /\ TrimThreshold \in Nat \ {0}
  /\ MaxTotal \in Nat /\ MaxTotal >= Hdr

ASSUME NoneAssumption == None \notin Nat /\ None \notin [dg : Dgram, at : Nat]

VARIABLES
  disk,        \* the files, unchanged while the cursor lives
  chunks,      \* _chunks, enumerated once at open
  idx,         \* _chunk_idx + 1
  base,        \* file offset the code believes buf[0] has
  buf,         \* the window: a sequence of bytes <<chunk, offset>>
  pos,         \* bytes of the window already consumed
  head,        \* None, or the served dgram and where in buf it starts
  lastTs,      \* _last_ts: ts of the last consumed dgram, or None
  justRolled,  \* _just_rolled: next head is the first of its chunk
  status,      \* "peek", "head", or a final "ended", "raised", "closed"
  delivered    \* history: the dgrams consumed so far

vars == <<disk, chunks, idx, base, buf, pos, head, lastTs, justRolled, status, delivered>>

-----------------------------------------------------------------------------
Size == chunks[idx].size

\* Fault: the comparison in _has_next_chunk is off by one.
HasNextChunkOffByOne == idx <= Len(chunks)

HasNextChunk == idx < Len(chunks)

\* os.pread(fd, n, off), off < Size: the n bytes of the current chunk there.
Pread(off, n) == [i \in 1..n |-> <<idx, off + i - 1>>]

\* parse_dgram_header at window offset p: the dgram whose first byte is
\* there; bytes that start no dgram parse as some header of no dgram.
HeaderAt(p) ==
  LET byte == buf[p + 1]
      dgs  == chunks[byte[1]].dgs
  IN  IF \E i \in 1..Len(dgs) : dgs[i].off = byte[2]
      THEN dgs[CHOOSE i \in 1..Len(dgs) : dgs[i].off = byte[2]]
      ELSE [ts |-> 0, off |-> byte[2], total |-> Hdr]

\* The window end peek asks _fill_to for: the header first, then the body.
Wanted == IF Len(buf) < pos + Hdr THEN pos + Hdr ELSE pos + HeaderAt(pos).total

\* Fault: the body is not waited for.
FilledByHeader == Len(buf) >= pos + Hdr

Filled == Len(buf) >= Wanted

AtEndOfFile == base + Len(buf) >= Size

-----------------------------------------------------------------------------
Init ==
  /\ disk \in Disks
  /\ chunks = EnumerateStreamChunks(disk)
  /\ idx = 1
  /\ base = End(chunks[1].dgs[1])
  /\ buf = <<>>
  /\ pos = 0
  /\ head = None
  /\ lastTs = None
  /\ justRolled = FALSE
  /\ status = "peek"
  /\ delivered = <<>>

\* One pread of _fill_to; it may return fewer bytes than asked for.
Fill ==
  /\ status = "peek" /\ ~Filled /\ ~AtEndOfFile
  /\ \E n \in 1..ReadChunk :
       /\ base + Len(buf) + n <= Size
       /\ buf' = buf \o Pread(base + Len(buf), n)
  /\ UNCHANGED <<disk, chunks, idx, base, pos, head, lastTs, justRolled, status, delivered>>

\* Fault: a dgram cut in its body counts as the end of the stream.
CutShortEnds ==
  /\ status = "peek" /\ ~Filled /\ AtEndOfFile
  /\ pos # Len(buf)
  /\ status' = "ended"
  /\ UNCHANGED <<disk, chunks, idx, base, buf, pos, head, lastTs, justRolled, delivered>>

\* _fill_to fails with part of a header, or part of a body, in the window.
CutShort ==
  /\ status = "peek" /\ ~Filled /\ AtEndOfFile
  /\ pos # Len(buf)
  /\ status' = IF Len(buf) >= pos + Hdr \/ HasNextChunk THEN "raised" ELSE "ended"
  /\ UNCHANGED <<disk, chunks, idx, base, buf, pos, head, lastTs, justRolled, delivered>>

\* _roll_to_next_chunk, from the loop in peek.
Roll ==
  /\ status = "peek" /\ ~Filled /\ AtEndOfFile
  /\ pos = Len(buf)
  /\ HasNextChunk
  /\ idx' = idx + 1
  /\ base' = 0
  /\ buf' = <<>>
  /\ pos' = 0
  /\ justRolled' = TRUE
  /\ UNCHANGED <<disk, chunks, head, lastTs, status, delivered>>

\* Fault: the answer of _roll_to_next_chunk is ignored and peek loops.
EndOfStreamSpins ==
  /\ status = "peek" /\ ~Filled /\ AtEndOfFile
  /\ pos = Len(buf)
  /\ ~HasNextChunk
  /\ UNCHANGED vars

EndOfStream ==
  /\ status = "peek" /\ ~Filled /\ AtEndOfFile
  /\ pos = Len(buf)
  /\ ~HasNextChunk
  /\ status' = "ended"
  /\ UNCHANGED <<disk, chunks, idx, base, buf, pos, head, lastTs, justRolled, delivered>>

\* Fault: the first head of a rolled chunk is served unchecked.
ServeUnchecked ==
  /\ status = "peek" /\ Filled
  /\ status' = "head" /\ head' = [dg |-> HeaderAt(pos), at |-> pos]
  /\ justRolled' = FALSE
  /\ UNCHANGED <<disk, chunks, idx, base, buf, pos, lastTs, delivered>>

\* The whole dgram is in the window: check the roll, then cache the head.
Serve ==
  /\ status = "peek" /\ Filled
  /\ LET h == HeaderAt(pos) IN
       IF justRolled /\ lastTs # None /\ h.ts < lastTs
       THEN status' = "raised" /\ head' = None
       ELSE status' = "head" /\ head' = [dg |-> h, at |-> pos]
  /\ justRolled' = FALSE
  /\ UNCHANGED <<disk, chunks, idx, base, buf, pos, lastTs, delivered>>

\* Fault: the window moves but base does not.
TrimKeepsBase(p) ==
  /\ buf' = IF p >= TrimThreshold THEN SubSeq(buf, p + 1, Len(buf)) ELSE buf
  /\ pos' = IF p >= TrimThreshold THEN 0 ELSE p
  /\ UNCHANGED base

\* Fault: the threshold itself does not trigger compaction.
TrimLate(p) ==
  IF p > TrimThreshold
  THEN /\ buf' = SubSeq(buf, p + 1, Len(buf))
       /\ base' = base + p
       /\ pos' = 0
  ELSE /\ pos' = p
       /\ UNCHANGED <<buf, base>>

\* _maybe_trim with the cursor at window offset p.
Trim(p) ==
  IF p >= TrimThreshold
  THEN /\ buf' = SubSeq(buf, p + 1, Len(buf))
       /\ base' = base + p
       /\ pos' = 0
  ELSE /\ pos' = p
       /\ UNCHANGED <<buf, base>>

Advance ==
  /\ status = "head"
  /\ lastTs' = head.dg.ts
  /\ delivered' = Append(delivered, head.dg)
  /\ head' = None
  /\ status' = "peek"
  /\ Trim(pos + head.dg.total)
  /\ UNCHANGED <<disk, chunks, idx, justRolled>>

\* The merge is done with the cursor: at its end, between two events, or
\* when an interrupt or another cursor's error ends the merge in a peek.
Close ==
  /\ status # "closed"
  /\ status' = "closed"
  /\ UNCHANGED <<disk, chunks, idx, base, buf, pos, head, lastTs, justRolled, delivered>>

Read == Fill \/ CutShort \/ Roll \/ EndOfStream \/ Serve \/ Advance

Next == Read \/ Close

\* Fairness: peek and advance are straight-line code run by a consumer that
\* keeps pulling; nothing forces it to close.
Spec == Init /\ [][Next]_vars /\ WF_vars(Read)

-----------------------------------------------------------------------------
\* The cursor's fields have their types; the chunk index never runs past the
\* chunks that were enumerated when the cursor was opened.
TypeOK ==
  /\ disk \in Disks
  /\ chunks = EnumerateStreamChunks(disk)
  /\ idx \in 1..Len(chunks)
  /\ base \in Nat
  /\ pos \in Nat
  /\ buf \in Seq(Nat \X Nat)
  /\ head \in [dg : Dgram, at : Nat] \cup {None}
  /\ lastTs \in Nat \cup {None}
  /\ justRolled \in BOOLEAN
  /\ status \in {"peek", "head", "ended", "raised", "closed"}

\* The window is always the current chunk's bytes from `base` on: no stale
\* prefix survives a trim or a roll, so every relative offset means what
\* the code takes it to mean.
WindowIsFile ==
  /\ base + Len(buf) <= Size
  /\ \A i \in 1..Len(buf) : buf[i] = <<idx, base + i - 1>>

\* The bytes events() snapshots for the head, buf[at : at + total], are
\* exactly one whole dgram of the current chunk.
HeadIsOneDgram ==
  status = "head" =>
    /\ head.dg \in Range(chunks[idx].dgs)
    /\ head.at + head.dg.total <= Len(buf)
    /\ \A i \in 1..head.dg.total : buf[head.at + i] = <<idx, head.dg.off + i - 1>>

\* However long the stream, the window never exceeds the trim threshold, one
\* read and one dgram (less the byte that would have triggered each).
WindowBounded == Len(buf) + 2 <= TrimThreshold + ReadChunk + MaxTotal

\* A chunk rolled into never takes the stream's timestamps backward: the
\* merge above relies on ascending heads.
RollAscends ==
  \A i \in 2..Len(delivered) :
    delivered[i].off = 0 => delivered[i - 1].ts <= delivered[i].ts

\* The cursor serves what the files hold, dgram by dgram, and stops as the
\* reader's contract says.
Contract ==
  INSTANCE DgramStream WITH
    dgs <- Served(chunks).dgs, outcome <- Served(chunks).stop, status <-
      IF status \in {"peek", "head"} THEN "open" ELSE status

ServesTheFiles == Contract!Spec

\* A cursor that is pulled reaches an answer: the loops in peek end.
Answers == <>(status \in {"ended", "raised", "closed"})
=============================================================================
