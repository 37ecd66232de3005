---------------------------- MODULE EventBuilder ----------------------------
(***************************************************************************)
(* What forward streaming promises about events, without cursors: the      *)
(* dgrams of all streams fall into groups by timestamp, the event groups   *)
(* come out once each and in order, each with exactly the streams that     *)
(* hold a dgram of the group and the streams that had already run dry, and *)
(* a stream whose files are cut stops everything at the cut.               *)
(*                                                                         *)
(* A timestamp that one stream repeats opens a second group: group <<t, k>>*)
(* holds the k-th dgram at time t of every stream that has one.            *)
(***************************************************************************)
EXTENDS Integers, Sequences, SequencesExt

CONSTANTS Streams, EventServices

VARIABLES
  input,    \* per stream, its dgrams [ts, svc] and how it stops
  out,      \* the events yielded so far
  status    \* "running", "done", "raised" or "closed"

vars == <<input, out, status>>

\* The groups of one stream's dgrams, in its own order.
GroupsOf(dgs) ==
  [i \in 1..Len(dgs) |-> <<dgs[i].ts, Cardinality({j \in 1..i : dgs[j].ts = dgs[i].ts})>>]

Before(g, h) == g[1] < h[1] \/ (g[1] = h[1] /\ g[2] < h[2])

\* All events the streams of in hold, in order.  The dgram of the lowest-numbered
\* member says whether a group is an event.  A stream is dropped from a
\* group when it had dgrams and all lie before; a group is reached unless a
\* cut stream lies wholly before it.
ScheduleOf(in) ==
  LET group == [s \in Streams |-> GroupsOf(in[s].dgs)]
      Members(g) == {s \in Streams : Contains(group[s], g)}
      Service(g) ==
        LET s == Min(Members(g))
        IN  in[s].dgs[SelectInSeq(group[s], LAMBDA h : h = g)].svc
      DryAt(g) == {s \in Streams : \A i \in 1..Len(group[s]) : Before(group[s][i], g)}
      Reached(g) == \A s \in DryAt(g) : in[s].stop # "raised"
      Event(g) == [ts |-> g[1], svc |-> Service(g), streams |-> Members(g),
                   dropped |-> {s \in DryAt(g) : group[s] # <<>>}]
      events == {g \in UNION {Range(group[s]) : s \in Streams} :
                   Service(g) \in EventServices /\ Reached(g)}
      Nth(k) == CHOOSE g \in events : Cardinality({h \in events : Before(h, g)}) = k - 1
  IN  [k \in 1..Cardinality(events) |-> Event(Nth(k))]

Schedule == ScheduleOf(input)

-----------------------------------------------------------------------------
Init == out = <<>> /\ status = "running"

Emit ==
  /\ status = "running"
  /\ LET schedule == Schedule IN
       /\ Len(out) < Len(schedule)
       /\ out' = Append(out, schedule[Len(out) + 1])
  /\ UNCHANGED <<input, status>>

Stop ==
  /\ status = "running"
  /\ out = Schedule
  /\ status' = IF \E s \in Streams : input[s].stop = "raised" THEN "raised" ELSE "done"
  /\ UNCHANGED <<input, out>>

Close ==
  /\ status = "running"
  /\ status' = "closed"
  /\ UNCHANGED <<input, out>>

Next == Emit \/ Stop \/ Close

Spec == Init /\ [][Next]_vars
=============================================================================
