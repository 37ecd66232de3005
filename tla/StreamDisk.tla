----------------------------- MODULE StreamDisk -----------------------------
(***************************************************************************)
(* The bigdata files of one stream as they lie on disk, and how the        *)
(* forward cursor enumerates them, up to the first missing chunk id.       *)
(*                                                                         *)
(* A chunk file is the list of dgrams written to it and its size in bytes. *)
(* All dgrams but the last are whole; the last may be cut by the end of    *)
(* the file, inside its header or inside its body.                         *)
(***************************************************************************)
EXTENDS Integers, Sequences, SequencesExt

CONSTANTS
  Hdr,      \* DGRAM_HDR, the bytes of a dgram header (24)
  NoFile    \* a chunk id with no file behind it

ASSUME HdrAssumption == Hdr \in Nat \ {0}

\* [off, total): the bytes a dgram declares; `ts` is the 64-bit timestamp.
Dgram == [ts : Nat, off : Nat, total : Nat]

End(d) == d.off + d.total

Chunk == [dgs : Seq(Dgram), size : Nat]

\* Dgrams are written back to back from offset 0, each at least a header
\* long, and the file ends inside or right after the last one.
WellFormed(c) ==
  /\ c \in Chunk
  /\ \A i \in 1..Len(c.dgs) : c.dgs[i].total >= Hdr
  /\ \A i \in 1..Len(c.dgs) : c.dgs[i].off = IF i = 1 THEN 0 ELSE End(c.dgs[i - 1])
  /\ \A i \in 1..Len(c.dgs) : c.dgs[i].off < c.size
  /\ \A i \in 1..Len(c.dgs) : i < Len(c.dgs) => End(c.dgs[i]) < c.size
  /\ IF c.dgs = <<>> THEN c.size = 0 ELSE c.size <= End(c.dgs[Len(c.dgs)])

\* files[1] is -c000, which discovery has opened: it holds at least a whole
\* Configure.  `rollable` is FALSE for a name without the -cNNN.xtc2 suffix.
DiskOK(d) ==
  /\ d.rollable \in BOOLEAN
  /\ d.files \in Seq(Chunk \cup {NoFile})
  /\ Len(d.files) >= 1
  /\ \A i \in 1..Len(d.files) : d.files[i] # NoFile => WellFormed(d.files[i])
  /\ d.files[1] # NoFile /\ d.files[Len(d.files)] # NoFile
  /\ d.files[1].dgs # <<>>
  /\ End(d.files[1].dgs[1]) <= d.files[1].size

-----------------------------------------------------------------------------
(* Enumeration                                                             *)

\* The number of chunk ids present before the first missing one.
FirstMiss(files) ==
  CHOOSE n \in 1..Len(files) :
    /\ \A i \in 1..n : files[i] # NoFile
    /\ n < Len(files) => files[n + 1] = NoFile

\* The chunk files the forward cursor rolls through.
EnumerateStreamChunks(d) ==
  IF d.rollable THEN SubSeq(d.files, 1, FirstMiss(d.files)) ELSE <<d.files[1]>>

-----------------------------------------------------------------------------
(* What the files hold                                                     *)

Cut(c) == c.dgs # <<>> /\ c.size < End(Last(c.dgs))

\* The dgrams a chunk file has whole: only its last one can be cut.
Whole(c) == IF Cut(c) THEN Front(c.dgs) ELSE c.dgs

CutInHeader(c) == Cut(c) /\ c.size - Last(c.dgs).off < Hdr

\* What a forward reader of these chunk files may serve, and how it stops:
\* whole dgrams chunk after chunk, up to the first chunk that does not
\* continue in timestamp order, or that is cut -- except that a cut inside
\* a header counts as a regular end when no chunk follows.
ServeChunk(acc, c) ==
  CASE acc.stop = "cut" \/ acc.stop = "raised" -> [acc EXCEPT !.stop = "raised"]
    [] /\ acc.stop = "ended"
       /\ acc.dgs # <<>> /\ Whole(c) # <<>>
       /\ Whole(c)[1].ts < Last(acc.dgs).ts -> [acc EXCEPT !.stop = "raised"]
    [] OTHER -> [dgs  |-> acc.dgs \o Whole(c),
                 stop |-> IF ~Cut(c) THEN "ended"
                          ELSE IF CutInHeader(c) THEN "cut" ELSE "raised"]

\* The dgram of c000 in front of everything is the Configure, already read.
ToRead(chunks, k) == IF k = 1 THEN [chunks[1] EXCEPT !.dgs = Tail(@)] ELSE chunks[k]

ServedUpTo(chunks) ==
  LET acc[k \in 0..Len(chunks)] ==
        IF k = 0 THEN [dgs |-> <<>>, stop |-> "ended"]
        ELSE ServeChunk(acc[k - 1], ToRead(chunks, k))
  IN  acc

Served(chunks) ==
  LET all == ServedUpTo(chunks)[Len(chunks)]
  IN  [all EXCEPT !.stop = IF @ = "cut" THEN "ended" ELSE @]
=============================================================================
