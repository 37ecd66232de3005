---------------------------- MODULE MCIndexBuild ----------------------------
(***************************************************************************)
(* Two streams of up to two chunks, with the Enable of the roll on either  *)
(* side of it, a hole, cut files, a repeated timestamp, a shutdown tail,   *)
(* and sidecars that are complete, cut or missing.                         *)
(***************************************************************************)
EXTENDS IndexBuild

D(t, svc, size) == [ts |-> t, svc |-> svc, size |-> size, roll |-> 0]
Ev(t, size) == D(t, L1Accept, size)
Enable(t, id) == [D(t, "Enable", 1) EXCEPT !.roll = id]
Chunk(dgs, tail) == [dgs |-> dgs, tail |-> tail]

Configure == D(0, "Other", 3)

\* Stream 1 as one file; it may stop early, miss events or repeat one.
Single ==
  {<<Configure, D(1, "BeginRun", 1), Enable(2, 0), Ev(3, 2), Ev(4, 2)>>,
   <<Configure, D(1, "BeginStep", 1), Ev(4, 2), D(5, "SlowUpdate", 2)>>,
   <<Configure, Ev(3, 1), D(4, "Other", 1), Ev(6, 2), Ev(7, 2)>>,
   <<Configure, Ev(3, 1), Ev(3, 2)>>}

\* Stream 0 rolls: the Enable that says so ends a chunk or begins the next.
Rolls ==
  {<<<<Configure, Ev(3, 2), Enable(4, 1)>>, <<Ev(4, 3), D(5, "SlowUpdate", 2), Ev(6, 2)>>>>,
   <<<<Configure, D(1, "BeginRun", 1), Ev(3, 2)>>, <<Enable(4, 1), Ev(6, 3), Enable(7, 0), Ev(7, 1)>>>>,
   <<<<Configure, Ev(3, 2)>>, <<>>>>}

Whole(dgs) == Chunk(dgs, "clean")

\* [chunks] of both streams, all files whole.
WholeChunks == {<<<<Whole(a)>>, <<Whole(b[1]), Whole(b[2])>>>> : a \in Single, b \in Rolls}

AsFunction(pair) == [s \in Streams |-> pair[2 - s]]

Timings == {{}, {0}, {0, 1}}

WithoutSmd == [s \in Streams |-> NoFile]

\* Every sidecar is what the writer wrote, possibly cut, possibly gone.
WithSmd ==
  UNION {{[chunks |-> AsFunction(c), timing |-> w, ask |-> a, keepTail |-> k,
           smd |-> [s \in Streams |->
             IF t[s] = "none" THEN NoFile
             ELSE Chunk(SmdOf(AsFunction(c), w, s), t[s])]] :
            t \in [Streams -> {"none", "clean", "remnant"}]} :
         c \in WholeChunks, w \in Timings, a \in {"auto", "smd", "bigdata"}, k \in BOOLEAN}

\* Damaged bigdata: any file may be cut, and the second of three is missing.
CutChunks ==
  {<<<<Chunk(a, t[1])>>, <<Chunk(b[1], t[2]), Chunk(b[2], t[3])>>>> :
     a \in Single, b \in Rolls, t \in [1..3 -> Tails]}

Holed == {<<<<Whole(a)>>, <<Whole(b[1]), NoFile, Whole(b[2])>>>> : a \in Single, b \in Rolls}

Damaged ==
  {[chunks |-> AsFunction(c), timing |-> {0}, ask |-> "auto", keepTail |-> FALSE, smd |-> WithoutSmd] :
     c \in CutChunks \cup Holed}

MCRuns == WithSmd \cup Damaged

CutRuns ==
  {[chunks |-> AsFunction(c), timing |-> {0}, ask |-> "auto", keepTail |-> FALSE, smd |-> WithoutSmd] :
     c \in CutChunks}
=============================================================================
