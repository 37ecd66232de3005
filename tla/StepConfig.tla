----------------------------- MODULE StepConfig -----------------------------
(***************************************************************************)
(* Run.seg_configs(det, evt=e): the configuration of each segment that was *)
(* active at an event, beside Run.scan, which tells the step of that event.*)
(* The base is what the transitions in front of the first event wrote,     *)
(* stream by stream; the steps are that base with every BeginStep of the   *)
(* scan store laid over it in the order of time; an event belongs to the   *)
(* last step that began at or before it.  The caller asks scan first and   *)
(* seg_configs then, of one event.                                         *)
(*                                                                         *)
(* A dgram is [service, ts, segs]: segs are the detector's segments whose  *)
(* configuration rides on it, and the value it writes is known by its ts.  *)
(***************************************************************************)
EXTENDS EnvAsOf

CONSTANT Runs    \* [dgrams : stream -> Seq(dgram), front : stream -> Nat,
                 \* segs : stream -> set]: a run, how many dgrams of a stream its
                 \* first chunk has whole, the segments a stream declares

ASSUME StepRunsAssumption ==
    \A r \in Runs :
        /\ IsFiniteSet(DOMAIN r.dgrams) /\ DOMAIN r.dgrams \subseteq Nat /\ 0 \in DOMAIN r.dgrams
        /\ DOMAIN r.segs = DOMAIN r.dgrams /\ \E s \in DOMAIN r.segs : r.segs[s] # {}
        /\ \A s, t \in DOMAIN r.segs : s # t => r.segs[s] \cap r.segs[t] = {}
        /\ \A s \in DOMAIN r.dgrams :
               /\ r.dgrams[s] \in Seq([service : STRING, ts : Nat, segs : SUBSET r.segs[s]])
               /\ r.front[s] \in 1 .. Len(r.dgrams[s])
               /\ \A i \in DOMAIN r.dgrams[s] : r.dgrams[s][i].service = "Configure" <=> i = 1
               \* Only events may share a timestamp.
               /\ \A i, j \in DOMAIN r.dgrams[s] : i < j =>
                      \/ r.dgrams[s][i].ts < r.dgrams[s][j].ts
                      \/ /\ r.dgrams[s][i].service = "L1Accept" /\ r.dgrams[s][j].service = "L1Accept"
                         /\ r.dgrams[s][i].ts = r.dgrams[s][j].ts

ASSUME StagesAssumption == None \notin {"scan", "front", "overlay", "resolved"}

L1Accepts == {"L1Accept"}    \* and L1Accept_EndOfBatch, which is read alike

VARIABLES
    run,      \* the run; None where only a store is asked
    stage,    \* "scan", "front", "overlay", "resolved"; None without a run
    streams,  \* the detector's streams whose front is not walked; the head is
    off,      \* dgrams walked in the head
    active,   \* segment -> value: the running state the steps fold into
    pending,  \* timestamps of the scan records not laid over yet, ascending
    steps     \* Seq([ts, config])

stepVars == <<run, stage, streams, off, active, pending, steps>>

\* DetectorInfo.streams_for: the streams that declare a segment, ascending.
StreamsFor == Ascending({s \in DOMAIN run.segs : run.segs[s] # {}})

ScanRecords(r, s) ==
    LET at == Ascending({i \in DOMAIN r.dgrams[s] : r.dgrams[s][i].service \in {"BeginRun", "BeginStep"}})
    IN  [k \in DOMAIN at |-> r.dgrams[s][at[k]]]

\* The scan store of a run: the container rides on stream 0's BeginSteps.
ScanStore(r) ==
    [algs |-> <<[tables |-> [s \in {0} |-> {"step_value"}]]>>,
     records |-> [s \in DOMAIN r.dgrams |->
        [i \in DOMAIN ScanRecords(r, s) |->
            [ts |-> ScanRecords(r, s)[i].ts,
             algs |-> IF s = 0 /\ ScanRecords(r, s)[i].service = "BeginStep"
                      THEN {1} ELSE {}]]]]

EventTimes(r) ==
    UNION {{d.ts : d \in {e \in Range(r.dgrams[s]) : e.service \in L1Accepts}}
             : s \in DOMAIN r.dgrams}

\* Fault: a step replaces the configuration instead of overriding it.
OverlaidAlone(config, segs, ts) == [seg \in segs |-> ts]

\* What dgrams of one time leave active: last wins, segment by segment.
Overlaid(config, segs, ts) ==
    [seg \in segs \cup DOMAIN config |-> IF seg \in segs THEN ts ELSE config[seg]]

StepInit ==
    \/ AsOfInit /\ run = None /\ stage = None /\ streams = <<>> /\ off = 0
       /\ active = <<>> /\ pending = <<>> /\ steps = <<>>
    \/ /\ run \in Runs
       /\ store = ScanStore(run)
       /\ query \in [var : {"step_value"}, ts : EventTimes(run)]
       /\ depth \in Depths
       /\ left = <<>> /\ p = None /\ status = "called" /\ answer = None
       /\ stage = "scan" /\ streams = <<>> /\ off = 0
       /\ active = <<>> /\ pending = <<>> /\ steps = <<>>

\* Run.scan, Run.epics.
AskScan == AsOfNext /\ UNCHANGED stepVars

SegConfigs ==
    /\ stage = "scan" /\ status = "answered"
    /\ stage' = "front"
    /\ streams' = StreamsFor
    /\ UNCHANGED <<asOfVars, run, off, active, pending, steps>>

\* The next dgram of the head stream's first chunk is a whole transition.
InFront ==
    /\ stage = "front" /\ streams # <<>>
    /\ off < run.front[Head(streams)]
    /\ run.dgrams[Head(streams)][off + 1].service \notin L1Accepts

WalkTransition ==
    /\ InFront
    /\ LET d == run.dgrams[Head(streams)][off + 1] IN active' = Overlaid(active, d.segs, d.ts)
    /\ off' = off + 1
    /\ UNCHANGED <<asOfVars, run, stage, streams, pending, steps>>

\* An event, the end of the chunk or a cut dgram ends the walk of a stream.
LeaveFront ==
    /\ stage = "front" /\ streams # <<>> /\ ~InFront
    /\ streams' = Tail(streams) /\ off' = 0
    /\ UNCHANGED <<asOfVars, run, stage, active, pending, steps>>

\* per_ts: the timestamps of the scan records of the detector's streams.
GroupScanRecords ==
    /\ stage = "front" /\ streams = <<>>
    /\ pending' = Ascending(
           UNION {{d.ts : d \in Range(ScanRecords(run, s))} : s \in Range(StreamsFor)})
    /\ stage' = "overlay"
    /\ UNCHANGED <<asOfVars, run, streams, off, active, steps>>

\* Fault: the BeginRuns of the scan store overlaid too.
AnyRecordsAt(ts) ==
    UNION {{d \in Range(ScanRecords(run, s)) : d.ts = ts} : s \in Range(StreamsFor)}

\* The BeginSteps at ts; a BeginRun is no overlay.
BeginStepsAt(ts) ==
    UNION {{d \in Range(ScanRecords(run, s)) : d.ts = ts /\ d.service = "BeginStep"}
             : s \in Range(StreamsFor)}

LayOver ==
    /\ stage = "overlay" /\ pending # <<>>
    /\ LET written == UNION {d.segs : d \in BeginStepsAt(Head(pending))}
           config == Overlaid(active, written, Head(pending))
       IN IF BeginStepsAt(Head(pending)) = {}
          THEN UNCHANGED <<active, steps>>
          ELSE /\ active' = config
               /\ steps' = Append(steps, [ts |-> Head(pending), config |-> config])
    /\ pending' = Tail(pending)
    /\ UNCHANGED <<asOfVars, run, stage, streams, off>>

Resolve ==
    /\ stage = "overlay" /\ pending = <<>>
    /\ steps' = IF steps = <<>> THEN <<[ts |-> None, config |-> active]>> ELSE steps
    /\ stage' = "resolved"
    /\ UNCHANGED <<asOfVars, run, streams, off, active, pending>>

\* bisect_right - 1, no less than the first step.
Pos(ts) ==
    LET begun == {i \in DOMAIN steps : steps[i].ts # None /\ steps[i].ts <= ts}
    IN IF begun = {} THEN 1 ELSE Max(begun)

StepNext ==
    \/ AskScan
    \/ SegConfigs \/ WalkTransition \/ LeaveFront \/ GroupScanRecords \/ LayOver \/ Resolve

StepSpec == StepInit /\ [][StepNext]_<<asOfVars, stepVars>>

-----------------------------------------------------------------------------
\* The streams that have data at ts.
Contributors(ts) ==
    {s \in DOMAIN run.dgrams : \E d \in Range(run.dgrams[s]) : d.service \in L1Accepts /\ d.ts = ts}

Transitions(s, service) == {i \in DOMAIN run.dgrams[s] : run.dgrams[s][i].service = service}

\* The configuration rides on Configure and BeginStep only, and a stream that
\* is told of steps has no event before its first.
Regular ==
    \A s \in DOMAIN run.dgrams :
        /\ \A d \in Range(run.dgrams[s]) : d.segs # {} => d.service \in {"Configure", "BeginStep"}
        /\ \A i \in Transitions(s, "BeginStep") : \E j \in Transitions(s, "BeginStep") :
               j <= i /\ \A e \in Transitions(s, "L1Accept") : j < e

\* The writes of a segment that psana has seen when it yields the event at ts.
Writes(s, seg, ts) ==
    {i \in DOMAIN run.dgrams[s] :
        /\ seg \in run.dgrams[s][i].segs
        /\ \E j \in Transitions(s, "L1Accept") : j > i /\ run.dgrams[s][j].ts = ts}

\* Random access to the configuration gives what psana's stateful reader has
\* at the event: for every segment of a stream with data in the event, the
\* value last written before it, and no value where none was.  It holds
\* although the base may have run ahead into later steps, the first chunk may
\* end or be cut inside the front, and a stream may have missed a broadcast.
ConfigActiveAtEvent ==
    stage = "resolved" /\ Regular =>
        LET config == steps[Pos(query.ts)].config
        IN \A s \in Contributors(query.ts) : \A seg \in run.segs[s] :
               IF Writes(s, seg, query.ts) = {}
               THEN seg \notin DOMAIN config
               ELSE /\ seg \in DOMAIN config
                    /\ config[seg] = run.dgrams[s][Max(Writes(s, seg, query.ts))].ts

StepTimes(s) == {run.dgrams[s][i].ts : i \in Transitions(s, "BeginStep")}

\* The two lookups, written apart, put an event in one step: the record that
\* scan answers from is the BeginStep whose configuration seg_configs answers
\* with, when every stream of the detector was told of the same steps as
\* stream 0 and scan may search them all.
StepAgreesWithScan ==
    stage = "resolved" /\ depth >= Len(Records(0))
    /\ (\A s \in Range(StreamsFor) : StepTimes(s) = StepTimes(0)) =>
        IF answer = None
        THEN \A i \in DOMAIN steps : steps[i].ts = None \/ steps[i].ts > query.ts
        ELSE steps[Pos(query.ts)].ts = Records(0)[answer.position].ts
=============================================================================
