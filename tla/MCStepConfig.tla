---------------------------- MODULE MCStepConfig ----------------------------
(***************************************************************************)
(* The lookups of MCEnvAsOf, and runs of two streams: stream 0 declares    *)
(* segment a or none, stream 1 declares b and c.  The configuration of a   *)
(* segment rides on any of the transitions that Carriers allows; steps may *)
(* be without events, absent from stream 1, or none at all; the first      *)
(* chunk of stream 1 has all of its dgrams, or its Configure only, the     *)
(* rest of it in later chunks or cut off while the sidecar is whole.       *)
(***************************************************************************)
EXTENDS StepConfig, MCEnvAsOf

\* Service by service, the timestamp is the position.
Broadcasts ==
    {<<"Configure", "BeginRun", "BeginStep", "L1Accept", "BeginStep", "L1Accept", "L1Accept">>,
     <<"Configure", "BeginRun", "BeginStep", "BeginStep", "L1Accept", "BeginStep", "L1Accept">>,
     <<"Configure", "BeginRun", "Enable", "L1Accept">>,
     <<"Configure", "BeginStep", "Enable", "L1Accept">>}

\* Stream 1 has every dgram, or misses the fourth or the fifth.
Heard(b) == {DOMAIN b, DOMAIN b \ {4}, DOMAIN b \ {5}}

MayCarry(b) == {i \in DOMAIN b : b[i] \in {"Configure", "BeginStep", "Enable"}}

Stream(b, heard, carried) ==
    SelectSeq([k \in DOMAIN b |-> [service |-> b[k], ts |-> k, segs |-> carried[k]]],
              LAMBDA d : d.ts \in heard)

MCRuns ==
    UNION {
      UNION {
        {[dgrams |-> 0 :> Stream(b, DOMAIN b, [k \in DOMAIN b |-> IF k \in a THEN {"a"} ELSE {}])
                     @@ 1 :> Stream(b, heard, [k \in DOMAIN b |->
                              (IF k \in c THEN {"b"} ELSE {}) \cup (IF k = d THEN {"c"} ELSE {})]),
          front |-> 0 :> Len(b) @@ 1 :> front,
          segs |-> 0 :> {"a"} @@ 1 :> {"b", "c"}]
         : a \in {{}, {1}, MayCarry(b)}, c \in SUBSET MayCarry(b), d \in MayCarry(b),
           front \in {1, Cardinality(heard)}}
        : heard \in Heard(b) }
      : b \in Broadcasts }
    \cup
    {[dgrams |-> 0 :> Stream(b, DOMAIN b, [k \in DOMAIN b |-> {}])
                 @@ 1 :> Stream(b, DOMAIN b, [k \in DOMAIN b |-> IF k \in c THEN {"b"} ELSE {}]),
      front |-> 0 :> Len(b) @@ 1 :> Len(b),
      segs |-> 0 :> {} @@ 1 :> {"b"}]
     : b \in {<<"Configure", "BeginRun", "BeginStep", "L1Accept", "BeginStep", "L1Accept">>},
       c \in SUBSET {1, 3, 5}}
=============================================================================
