--------------------------- MODULE MCStreamCursor ---------------------------
(***************************************************************************)
(* Small disks for the stream cursor: every layout of two chunk files, and *)
(* a selection of three-file layouts with an empty chunk, a hole or a name *)
(* that does not roll.                                                     *)
(***************************************************************************)
EXTENDS StreamCursor

\* A chunk file from <<ts, total>> pairs; the file lacks its last `cut` bytes.
MkChunk(pairs, cut) ==
  LET off[i \in 1..Len(pairs) + 1] == IF i = 1 THEN 0 ELSE off[i - 1] + pairs[i - 1][2]
  IN  [dgs  |-> [i \in 1..Len(pairs) |-> [ts |-> pairs[i][1], off |-> off[i], total |-> pairs[i][2]]],
       size |-> off[Len(pairs) + 1] - cut]

\* Every cut of the last dgram that leaves some of it on disk.
Cuts(pairs) == IF pairs = <<>> THEN {0} ELSE 0..(pairs[Len(pairs)][2] - 1)

Files(lists) == UNION {{MkChunk(p, c) : c \in Cuts(p)} : p \in lists}

Configure == <<0, 2>>

\* Timestamps ascend within a chunk; sizes 2 (a bare header) and 4.
Lists ==
  {<<>>, <<<<1, 2>>>>, <<<<1, 4>>>>, <<<<2, 3>>>>,
   <<<<1, 2>>, <<1, 3>>>>, <<<<1, 4>>, <<2, 2>>>>, <<<<2, 2>>, <<2, 4>>>>,
   <<<<1, 2>>, <<1, 4>>, <<2, 4>>>>, <<<<1, 3>>, <<2, 4>>, <<3, 4>>>>}

FirstLists == {<<Configure>> \o p : p \in Lists}

FirstFiles == Files(FirstLists) \ {MkChunk(<<Configure>>, 1)}

TwoFiles == {[files |-> <<a, b>>, rollable |-> TRUE] : a \in FirstFiles, b \in Files(Lists)}

OneFile == {[files |-> <<a>>, rollable |-> r] : a \in FirstFiles, r \in BOOLEAN}

Whole1 == MkChunk(<<Configure, <<2, 3>>>>, 0)
LateChunks == {MkChunk(<<<<1, 2>>>>, 0), MkChunk(<<<<2, 2>>, <<3, 4>>>>, 0), MkChunk(<<<<3, 4>>>>, 3)}

ThreeFiles ==
  {[files |-> <<Whole1, b, c>>, rollable |-> r] :
     b \in {NoFile, MkChunk(<<>>, 0), MkChunk(<<<<2, 4>>>>, 0), MkChunk(<<<<2, 4>>>>, 2)},
     c \in LateChunks, r \in BOOLEAN}

MCDisks == OneFile \cup TwoFiles \cup ThreeFiles
=============================================================================
