----------------------------- MODULE MCBatchRead -----------------------------
(***************************************************************************)
(* Three events.  Stream 0 writes all of them to chunk 1, with gaps of up  *)
(* to two bytes, or rolls to chunk 3 for the last; stream 1 has no part in *)
(* the middle one.  Chunk 1 is whole, cut inside or in front of its last   *)
(* dgram, or holds another run's dgram there.                              *)
(***************************************************************************)
EXTENDS BatchRead

Timestamps == [k \in 0 .. 2 |-> k + 10]

Bytes(ts, size) == [n \in 1 .. size |-> [ts |-> ts, nth |-> n]]
Gap(size) == Bytes(0, size)

\* Where stream 0 puts its dgrams, and the chunk files that result.
Laid(gaps, sizes, last, lastTs, cut) ==
    LET offset == <<gaps[1], gaps[1] + sizes[1] + gaps[2],
                    gaps[1] + sizes[1] + gaps[2] + sizes[2]>>
        front == Gap(gaps[1]) \o Bytes(10, sizes[1]) \o Gap(gaps[2]) \o Bytes(11, sizes[2])
        tail == SubSeq(Bytes(lastTs, sizes[3]), 1, sizes[3] - cut)
        at == [k \in 0 .. 2 |-> IF k = 2 /\ last = 3
                  THEN [chunk |-> 3, offset |-> 0, size |-> sizes[3]]
                  ELSE [chunk |-> 1, offset |-> offset[k + 1], size |-> sizes[k + 1]]]
    IN [timestamps |-> Timestamps,
        entries |-> [k \in 0 .. 2 |->
            IF k = 1 THEN 0 :> at[k]
            ELSE (0 :> at[k]) @@ (1 :> [chunk |-> 2, offset |-> k, size |-> 2])],
        shapes |-> [k \in 0 .. 2 |-> IF k = 1 THEN None ELSE 0],
        files |-> IF last = 3
                  THEN <<front, Bytes(10, 2) \o Bytes(12, 2), tail>>
                  ELSE <<front \o tail, Bytes(10, 2) \o Bytes(12, 2), <<>>>>]

MCRuns ==
    {Laid(gaps, sizes, last, lastTs, cut) :
        gaps \in {<<0, 0>>, <<1, 1>>, <<0, 2>>}, sizes \in {<<2, 2, 2>>, <<1, 5, 1>>, <<2, 1, 3>>},
        last \in {1, 3}, lastTs \in {12, 99}, cut \in {0, 1}}

Asked == {<<>>, <<0>>, <<2, 0>>, <<0, 0>>, <<2, 1, 0>>, <<1, 0, 1>>, <<0, 2, 0>>, <<0, 3>>, <<-1>>,
          <<0, 1, 2, 2>>, <<2, 2, 0, 2>>}

MCRequests ==
    [api : WholeSlice, ks : Asked, limit : {None, 7}, batch : {0}]
        \cup [api : {"iter_events", "iter_stack"}, ks : Asked, limit : {None}, batch : {0, 1, 2}]
=============================================================================
