--------------------------- MODULE MCGatedStream ---------------------------
(***************************************************************************)
(* Runs of two streams for the gated stream: bigdata files with every kind *)
(* of tail and their own headers as gate, and runs with SMD sidecars.      *)
(***************************************************************************)
EXTENDS GatedStream

L1(t) == [ts |-> t, svc |-> "L1"]
Eob(t) == [ts |-> t, svc |-> "EOB"]
Tr(t) == [ts |-> t, svc |-> "TR"]

\* What one stream may hold of a well-formed run: transitions and events
\* never share a timestamp, and any stream may miss any dgram.
SubsequencesOf(s) ==
  {SelectSeq(s, LAMBDA d : d \in D) : D \in SUBSET {s[i] : i \in 1..Len(s)}}

ForwardStop(tail) == IF tail = "cut" THEN "raised" ELSE "ended"

Bigdata(contents, tails, timings) ==
  {[streams |-> [s \in Streams |-> [dgs |-> c[s], stop |-> ForwardStop(t[s])]],
    source  |-> [s \in Streams |-> Gate!BigdataSource(c[s], t[s])],
    timing  |-> w] :
     c \in [Streams -> contents], t \in [Streams -> tails], w \in timings}

\* SMD sidecars of a run whose SMD writer stopped after time `until`; both
\* the bigdata files and the sidecars may be cut.
Smd(contents, bdStops, smdTails, untils) ==
  {[streams |-> [s \in Streams |-> [dgs |-> c[s], stop |-> b]],
    source  |-> [s \in Streams |->
      Gate!BigdataSource(SelectSeq(c[s], LAMBDA d : d.ts <= u), t[s])],
    timing  |-> {}] :
     c \in [Streams -> contents], b \in bdStops, t \in [Streams -> smdTails], u \in untils}

Tails == {"clean", "remnant", "cut"}
Stops == {"ended", "raised"}

\* Well-formed runs, cut or not.
RegularRuns ==
  Bigdata(SubsequencesOf(<<L1(1), Tr(2), L1(3), L1(4)>>), Tails, {{}, {0}})
    \cup Bigdata({<<L1(1), L1(3)>>, <<Tr(2), Eob(5)>>, <<L1(3), Eob(5)>>}, Tails, {{1}})
    \cup Smd(SubsequencesOf(<<L1(1), Tr(2), L1(3), L1(4)>>), Stops, {"clean", "cut"}, {1, 3})
    \cup Smd(SubsequencesOf(<<L1(1), L1(3)>>), Stops, {"clean", "cut"}, {0})

\* Anomalies: repeated timestamps, a transition at the time of an event.
OddContents ==
  {<<>>, <<L1(1), L1(3)>>, <<L1(1), L1(1), L1(3)>>, <<Tr(1), L1(3)>>, <<L1(3), L1(3)>>,
   <<L1(1), Eob(1), L1(2)>>, <<L1(2), L1(4)>>}

\* SMD sidecars that do not belong to these bigdata files.
ForeignSmd ==
  {[streams |-> [s \in Streams |-> [dgs |-> c[s], stop |-> "ended"]],
    source  |-> [s \in Streams |-> Gate!BigdataSource(d[s], t[s])],
    timing  |-> {}] :
     c \in [Streams -> OddContents], d \in [Streams -> {<<>>, <<L1(1), L1(4)>>, <<L1(2), L1(3)>>}],
     t \in [Streams -> {"clean", "cut"}]}

OddRuns == Bigdata(OddContents, Tails, {{}, {0}}) \cup ForeignSmd

MCRuns == RegularRuns \cup OddRuns

\* A transition of stream 0 carries the timestamp of an event of stream 1.
CollidingRuns ==
  Bigdata({<<Tr(1), L1(2), Tr(3), L1(4)>>, <<Tr(1), L1(2), L1(3), L1(4)>>, <<L1(2), L1(3), L1(4)>>},
          {"clean"}, {{}})
=============================================================================
