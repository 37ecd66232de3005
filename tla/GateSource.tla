----------------------------- MODULE GateSource -----------------------------
(***************************************************************************)
(* index.py `iter_gate_timestamps`: the canonical timestamps of a run as a *)
(* generator.  Each stream's SMD sidecar, or its bigdata headers, yields   *)
(* the timestamps of its L1Accepts; `_merge_join_gate_ts` walks them in    *)
(* lockstep with heapq.merge, groups equal timestamps, and yields a group  *)
(* if a timing stream is in it (or if there is no clamp).                  *)
(*                                                                         *)
(* heapq.merge holds one record of every stream that has one left, so a    *)
(* stream is read one record past the group that is yielded: a file cut    *)
(* right behind a group refuses the group itself.                          *)
(***************************************************************************)
EXTENDS Integers, Sequences, FiniteSets, FiniteSetsExt

CONSTANTS
  Streams,
  L1Accept   \* SERVICE_L1ACCEPT: the only service the index records

VARIABLES
  source,   \* per stream: the L1Accept timestamps, and how reading them stops
  timing,   \* the timing streams of the clamp; {} when there is no clamp
  taken,    \* per stream, the records that have gone into groups
  gate      \* "open", then "exhausted", "raised" or "closed"

gateVars == <<source, timing, taken, gate>>

Source == [ts : Seq(Nat), stop : {"ended", "raised"}]

AscendingTs(ts) == \A i, j \in 1..Len(ts) : i <= j => ts[i] <= ts[j]

-----------------------------------------------------------------------------
\* _iter_bigdata_l1_timestamps over one stream: its headers, without the
\* payloads; unlike the forward cursor it takes any partial dgram, even a
\* remnant too short for a header, for a cut.
BigdataSource(dgs, tail) ==
  LET accepts == SelectSeq(dgs, LAMBDA d : d.svc = L1Accept)
  IN  [ts   |-> [i \in 1..Len(accepts) |-> accepts[i].ts],
       stop |-> IF tail = "clean" THEN "ended" ELSE "raised"]

-----------------------------------------------------------------------------
Waiting == {s \in Streams : taken[s] < Len(source[s].ts)}

GroupTs == Min({source[s].ts[taken[s] + 1] : s \in Waiting})

GroupStreams == {s \in Waiting : source[s].ts[taken[s] + 1] = GroupTs}

\* The records up to and including the current group.
TakenWithGroup ==
  [s \in Streams |-> Cardinality({i \in 1..Len(source[s].ts) : source[s].ts[i] <= GroupTs})]

\* Fault: a cut file is taken for the end of the gate.
RefusesNever(upto) == FALSE

\* Reading past `upto` runs into the end of a stream that is cut there.
Refuses(upto) ==
  \E s \in Streams : source[s].stop = "raised" /\ upto[s] = Len(source[s].ts)

Canonical(streams) == timing = {} \/ timing \cap streams # {}

GateInit ==
  /\ taken = [s \in Streams |-> 0]
  /\ gate = "open"

\* One turn of the generator's loop: the group is complete once a record
\* behind it, or the end of every stream, has been read.
GateYield ==
  /\ gate = "open" /\ Waiting # {}
  /\ ~Refuses(taken) /\ ~Refuses(TakenWithGroup)
  /\ Canonical(GroupStreams)
  /\ taken' = TakenWithGroup
  /\ UNCHANGED <<source, timing, gate>>

\* Fault: a group without a timing stream is not left behind.
GateSkipStays ==
  /\ gate = "open" /\ Waiting # {}
  /\ ~Refuses(taken) /\ ~Refuses(TakenWithGroup)
  /\ ~Canonical(GroupStreams)
  /\ UNCHANGED gateVars

GateSkip ==
  /\ gate = "open" /\ Waiting # {}
  /\ ~Refuses(taken) /\ ~Refuses(TakenWithGroup)
  /\ ~Canonical(GroupStreams)
  /\ taken' = TakenWithGroup
  /\ UNCHANGED <<source, timing, gate>>

GateExhausted ==
  /\ gate = "open" /\ Waiting = {}
  /\ ~Refuses(taken)
  /\ gate' = "exhausted"
  /\ UNCHANGED <<source, timing, taken>>

GateRaises ==
  /\ gate = "open"
  /\ Refuses(taken) \/ (Waiting # {} /\ Refuses(TakenWithGroup))
  /\ gate' = "raised"
  /\ UNCHANGED <<source, timing, taken>>

GateClose ==
  /\ gate' = IF gate = "open" THEN "closed" ELSE gate
  /\ UNCHANGED <<source, timing, taken>>

-----------------------------------------------------------------------------
(* build_index on the same source: every record of every stream at once.   *)

IndexTimestamps ==
  LET Carrying(t) == {s \in Streams : \E i \in 1..Len(source[s].ts) : source[s].ts[i] = t}
      all == UNION {{source[s].ts[i] : i \in 1..Len(source[s].ts)} : s \in Streams}
  IN  {t \in all : Canonical(Carrying(t))}

\* A cut file, or two L1Accepts of one stream at one timestamp.
IndexRaises ==
  \E s \in Streams :
    \/ source[s].stop = "raised"
    \/ \E i, j \in 1..Len(source[s].ts) : i # j /\ source[s].ts[i] = source[s].ts[j]
=============================================================================
