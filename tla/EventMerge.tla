----------------------------- MODULE EventMerge -----------------------------
(***************************************************************************)
(* stream.py `events()`: the k-way merge of the streams' cursors.  Each    *)
(* iteration peeks every cursor, takes the smallest head timestamp, lets   *)
(* the lowest-numbered stream at that timestamp decide whether it is an    *)
(* event, and consumes exactly the heads that carry it.                    *)
(*                                                                         *)
(* A stream is what DgramStream promises: dgrams in order, then a regular  *)
(* end or a refusal.                                                       *)
(***************************************************************************)
EXTENDS Integers, Sequences, FiniteSets, FiniteSetsExt

CONSTANTS
  Streams,        \* stream numbers; cursors are visited in this order
  EventServices,  \* _EVENT_SERVICES: L1Accept and its end-of-batch form
  Services,       \* every service a dgram may carry
  Inputs          \* the contents of the streams

Dgram == [ts : Nat, svc : Services]

Input == [dgs : Seq(Dgram), stop : {"ended", "raised"}]

\* The DAQ writes each stream in ascending time order; equal timestamps in
\* one stream are a clock anomaly the reader must survive.
Ascending(dgs) == \A i, j \in 1..Len(dgs) : i <= j => dgs[i].ts <= dgs[j].ts

ASSUME StreamsAssumption == Streams \subseteq Nat /\ IsFiniteSet(Streams) /\ Streams # {}

ASSUME ServicesAssumption == EventServices \subseteq Services

ASSUME InputsAssumption ==
  /\ Inputs \subseteq [Streams -> Input]
  /\ \A input \in Inputs, s \in Streams : Ascending(input[s].dgs)

VARIABLES
  input,     \* what the cursors serve, unchanged while the merge runs
  at,        \* per stream, how many dgrams have been consumed
  everLive,  \* ever_live: streams that have shown a head
  dropped,   \* streams that were live and have since run dry
  out,       \* history: the events yielded
  status     \* "suspended" or "running", then "done", "raised" or "closed"

vars == <<input, at, everLive, dropped, out, status>>

-----------------------------------------------------------------------------
\* A generator is suspended before its first step and at a yield.
Suspended == status = "suspended"

Active == Suspended \/ status = "running"

\* peek: a stream has a head, or it is exhausted, or it refuses to go on.
Live == {s \in Streams : at[s] < Len(input[s].dgs)}

HeadOf(s) == input[s].dgs[at[s] + 1]

\* Fault: a cut stream is taken for one that ended.
RefusingNever == {}

Refusing == {s \in Streams \ Live : input[s].stop = "raised"}

\* Fault: the first cursor's head instead of the smallest.
FirstTs == HeadOf(Min(Live)).ts

MinTs == Min({HeadOf(s).ts : s \in Live})

\* The cursors whose head belongs to this iteration; others wait.
Joining == {s \in Live : HeadOf(s).ts = MinTs}

\* Fault: the highest-numbered joining stream decides.
ServiceOfLast == HeadOf(Max(Joining)).svc

Service == HeadOf(Min(Joining)).svc

\* The generator's locals when it starts.
Begin ==
  /\ at = [s \in Streams |-> 0]
  /\ everLive = {}
  /\ dropped = {}
  /\ out = <<>>
  /\ status = "suspended"

Init == input \in Inputs /\ Begin

\* Fault: a stream missing from this one event is reported as dropped.
PeekRoundByAbsence ==
  /\ Active
  /\ Refusing = {} /\ Live # {}
  /\ everLive' = everLive \cup Live
  /\ dropped' = everLive \ Joining

\* The peek round of an iteration in which some stream still has a head.
PeekRound ==
  /\ Active
  /\ Refusing = {} /\ Live # {}
  /\ everLive' = everLive \cup Live
  /\ dropped' = dropped \cup (everLive \ Live)

\* Fault: every cursor advances.
ConsumeAll == at' = [s \in Streams |-> at[s] + 1]

Consume == at' = [s \in Streams |-> IF s \in Joining THEN at[s] + 1 ELSE at[s]]

YieldEvent ==
  /\ PeekRound
  /\ Service \in EventServices
  /\ Consume
  /\ out' = Append(out, [ts |-> MinTs, svc |-> Service, streams |-> Joining, dropped |-> dropped'])
  /\ status' = "suspended"
  /\ UNCHANGED input

\* Fault: a transition is skipped without consuming its dgrams.
SkipWithoutConsuming ==
  /\ PeekRound
  /\ Service \notin EventServices
  /\ UNCHANGED <<input, at, out, status>>

\* Configure, BeginRun, Enable, SlowUpdate, ...: consumed, not yielded.
SkipTransition ==
  /\ PeekRound
  /\ Service \notin EventServices
  /\ Consume
  /\ status' = "running"
  /\ UNCHANGED <<input, out>>

Exhausted ==
  /\ Active
  /\ Refusing = {} /\ Live = {}
  /\ status' = "done"
  /\ UNCHANGED <<input, at, everLive, dropped, out>>

\* A cursor raises out of peek: the generator dies, its locals with it.
PeekRaises ==
  /\ Active
  /\ Refusing # {}
  /\ status' = "raised"
  /\ UNCHANGED <<input, at, everLive, dropped, out>>

\* The consumer drops the generator, before it starts or after an event.
ConsumerClose ==
  /\ Suspended
  /\ status' = "closed"
  /\ UNCHANGED <<input, at, everLive, dropped, out>>

Iterate == YieldEvent \/ SkipTransition \/ Exhausted \/ PeekRaises

Next == Iterate \/ ConsumerClose

\* Fairness: a consumer that keeps asking for the next event makes the
\* generator run its loop; nothing forces it to close.
Spec == Init /\ [][Next]_vars /\ WF_vars(Iterate)

-----------------------------------------------------------------------------
Event == [ts : Nat, svc : EventServices, streams : SUBSET Streams, dropped : SUBSET Streams]

LocalsOK ==
  /\ at \in [Streams -> Nat]
  /\ \A s \in Streams : at[s] <= Len(input[s].dgs)
  /\ everLive \subseteq Streams
  /\ dropped \subseteq Streams
  /\ out \in Seq(Event)
  /\ status \in {"suspended", "running", "done", "raised", "closed"}

\* The generator's locals have their types, and no cursor is consumed past
\* the dgrams its stream holds.
TypeOK == input \in Inputs /\ LocalsOK

\* Events come out in ascending time order, and never earlier than a head
\* still waiting in some stream.
AscendingEvents ==
  /\ \A i, j \in 1..Len(out) : i <= j => out[i].ts <= out[j].ts
  /\ \A i \in 1..Len(out), s \in Live : out[i].ts <= HeadOf(s).ts

\* A drop-out is final: a stream reported dropped in one event is dropped in
\* every later one and contributes to none of them.
DropOutIsFinal ==
  \A i, j \in 1..Len(out) : i <= j =>
    out[i].dropped \subseteq out[j].dropped /\ out[i].dropped \cap out[j].streams = {}

\* A stream whose files are cut is never passed off as a quiet drop-out: no
\* event is yielded once it has nothing left.
CutIsNotDropOut ==
  \A i \in 1..Len(out), s \in Streams : input[s].stop = "raised" => s \notin out[i].dropped

\* The merge yields the event groups of the streams, each once, complete
\* and in order, and stops as its streams do.
Builder == INSTANCE EventBuilder WITH
  status <- IF Active THEN "running" ELSE status

BuildsEvents == Builder!Spec

\* A consumer that keeps pulling reaches the end of the run.
RunEnds == <>(~Active)
=============================================================================
