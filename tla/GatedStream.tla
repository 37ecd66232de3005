---------------------------- MODULE GatedStream ----------------------------
(***************************************************************************)
(* run.py `Run.events(gate=True)`: `_gated_stream` merge-joins the forward *)
(* merge over the bigdata with the gate over the index source, so that     *)
(* only indexed events come out, and closes both generators however it     *)
(* ends.                                                                   *)
(***************************************************************************)
EXTENDS Integers, Sequences, FiniteSets, FiniteSetsExt

CONSTANTS
  Streams, EventServices, Services,
  L1Accept,   \* the only service the index records
  Runs,       \* [streams, source, timing]: what the bigdata and the gate read
  None

VARIABLES
  input, at, everLive, dropped, out, status,   \* the forward merge
  source, timing, taken, gate,                 \* the gate source
  head,      \* the gate timestamp the join stands at, None before the first
  yielded,   \* history: the events the consumer got
  join       \* "start", "pull", "compare", "suspended", or how it ended

mergeVars == <<input, at, everLive, dropped, out, status>>
gateVars  == <<source, timing, taken, gate>>
joinVars  == <<head, yielded, join>>
vars      == <<mergeVars, gateVars, joinVars>>

Merge == INSTANCE EventMerge WITH Inputs <- {r.streams : r \in Runs}

Gate == INSTANCE GateSource

ASSUME StreamsAssumption == Streams \subseteq Nat /\ IsFiniteSet(Streams) /\ Streams # {}

ASSUME ServicesAssumption == EventServices \subseteq Services /\ L1Accept \in EventServices

ASSUME NoneAssumption == None \notin Nat

\* The DAQ writes bigdata files and sidecars in ascending time order; what
\* they hold of each other, and whether they are cut, is anyone's guess.
ASSUME RunsAssumption ==
  \A r \in Runs :
    /\ r.streams \in [Streams -> Merge!Input]
    /\ r.source \in [Streams -> Gate!Source]
    /\ r.timing \subseteq Streams
    /\ \A s \in Streams :
         Merge!Ascending(r.streams[s].dgs) /\ Gate!AscendingTs(r.source[s].ts)

Evt == out[Len(out)]

-----------------------------------------------------------------------------
Init ==
  /\ \E r \in Runs : input = r.streams /\ source = r.source /\ timing = r.timing
  /\ Merge!Begin
  /\ Gate!GateInit
  /\ head = None
  /\ yielded = <<>>
  /\ join = "start"

\* Fault: the forward merge is left suspended.
LeaveMergeOpen == UNCHANGED mergeVars

\* The `finally`: whatever ends the join closes both generators.
CloseMerge ==
  /\ status' = IF Merge!Suspended THEN "closed" ELSE status
  /\ UNCHANGED <<input, at, everLive, dropped, out>>

Finish(how) ==
  /\ join' = how
  /\ UNCHANGED <<head, yielded>>

\* Fault: the head is given up on a match, too.
GateDueOnMatch == join = "start" \/ (join = "compare" /\ head <= Evt.ts)

\* next(gate) is due at the start and while the head lies before the event.
GateDue == join = "start" \/ (join = "compare" /\ head < Evt.ts)

AdvanceGate ==
  /\ GateDue
  /\ Gate!GateYield
  /\ head' = Gate!GroupTs
  /\ join' = IF join = "start" THEN "pull" ELSE join
  /\ UNCHANGED <<mergeVars, yielded>>

SkipUncanonical ==
  /\ GateDue
  /\ Gate!GateSkip
  /\ UNCHANGED <<mergeVars, joinVars>>

\* The gate has no further timestamp: the rest is the shutdown tail.
GateEnds ==
  /\ GateDue
  /\ Gate!GateExhausted
  /\ CloseMerge
  /\ Finish("done")

GateFails ==
  /\ GateDue
  /\ Gate!GateRaises
  /\ CloseMerge
  /\ Finish("raised")

\* next(merged), from the loop or when the consumer resumes behind a yield:
\* iterations of events() until one yields.
Pulling == join \in {"pull", "suspended"}

PullEvent ==
  /\ Pulling
  /\ Merge!YieldEvent
  /\ join' = "compare"
  /\ UNCHANGED <<gateVars, head, yielded>>

PullTransition ==
  /\ Pulling
  /\ Merge!SkipTransition
  /\ join' = "pull"
  /\ UNCHANGED <<gateVars, head, yielded>>

MergeEnds ==
  /\ Pulling
  /\ Merge!Exhausted
  /\ Gate!GateClose
  /\ Finish("done")

MergeFails ==
  /\ Pulling
  /\ Merge!PeekRaises
  /\ Gate!GateClose
  /\ Finish("raised")

\* Fault: events before the head slip through the gate.
GateInPhantom ==
  /\ join = "compare" /\ head >= Evt.ts
  /\ yielded' = Append(yielded, Evt)
  /\ join' = "suspended"
  /\ UNCHANGED <<mergeVars, gateVars, head>>

\* head = b: the event is indexed; the head stays for a repeated timestamp.
GateIn ==
  /\ join = "compare" /\ head = Evt.ts
  /\ yielded' = Append(yielded, Evt)
  /\ join' = "suspended"
  /\ UNCHANGED <<mergeVars, gateVars, head>>

\* head > b: a phantom the index does not have.
GateOut ==
  /\ join = "compare" /\ head > Evt.ts
  /\ join' = "pull"
  /\ UNCHANGED <<mergeVars, gateVars, head, yielded>>

\* The consumer breaks out after an event it was given.
ConsumerBreak ==
  /\ join = "suspended"
  /\ CloseMerge
  /\ Gate!GateClose
  /\ Finish("closed")

Step ==
  \/ AdvanceGate \/ SkipUncanonical \/ GateEnds \/ GateFails
  \/ PullEvent \/ PullTransition \/ MergeEnds \/ MergeFails
  \/ GateIn \/ GateOut

Next == Step \/ ConsumerBreak

\* Fairness: a consumer that keeps asking for events; it never has to break.
Spec == Init /\ [][Next]_vars /\ WF_vars(Step)

-----------------------------------------------------------------------------
\* The forward events the join has compared with the gate so far: all but
\* the one in hand while it is held, or was when the gate failed.
Compared ==
  IF (join = "compare" \/ gate = "raised") /\ out # <<>> THEN Len(out) - 1 ELSE Len(out)

\* Those of the first n forward events that the index has.
Indexed(n) == {i \in 1..n : out[i].ts \in Gate!IndexTimestamps}

\* At every moment the consumer has been given exactly those forward events
\* that the index has, in the same order (each at its rank among them): the
\* streaming join is the filter by the whole index, although it never holds
\* more than one timestamp.
JoinIsFilter ==
  /\ Len(yielded) = Cardinality(Indexed(Compared))
  /\ \A i \in Indexed(Compared) : yielded[Cardinality(Indexed(i))] = out[i]

\* run.py:247: forward streaming "yields exactly the events psana and
\* read_event_at do": an iteration that ends regularly has delivered the
\* whole index, and the index can be built from the same source.
YieldsTheIndex ==
  join = "done" =>
    /\ {yielded[i].ts : i \in 1..Len(yielded)} = Gate!IndexTimestamps
    /\ ~Gate!IndexRaises

\* A run the DAQ writes when nothing goes wrong but the end of files: equal
\* timestamps mean the same event of different streams, and the sidecars
\* index dgrams that are there, each once.
Regular ==
  /\ \A s, r \in Streams : \A i \in 1..Len(input[s].dgs), j \in 1..Len(input[r].dgs) :
       input[s].dgs[i].ts = input[r].dgs[j].ts =>
         IF s = r THEN i = j ELSE input[s].dgs[i].svc = input[r].dgs[j].svc
  /\ \A s \in Streams : \A i \in 1..Len(source[s].ts) :
       \E j \in 1..Len(input[s].dgs) : input[s].dgs[j] = [ts |-> source[s].ts[i], svc |-> L1Accept]
  /\ \A s \in Streams : \A i, j \in 1..Len(source[s].ts) :
       source[s].ts[i] = source[s].ts[j] => i = j

\* On a regular run, cut anywhere or not, a gated iteration that ends
\* without an error has delivered the whole index, and the index can be
\* built: no file is silently short.
RegularYieldsTheIndex == Regular => YieldsTheIndex

\* The gate is never read further than the first indexed timestamp at or
\* behind the last forward event: startup is O(1) and nothing is buffered.
InLockstep ==
  head # None => \A t \in Gate!IndexTimestamps :
    t < head => \E i \in 1..Len(out) : t < out[i].ts

\* However the join ends, no generator is left open behind it.
ReleasesBoth == join \in {"done", "raised", "closed"} => ~Merge!Active /\ gate # "open"

\* Every iteration over a run comes to an end.
JoinEnds == <>(join \in {"done", "raised", "closed"})
=============================================================================
