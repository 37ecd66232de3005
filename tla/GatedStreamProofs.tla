------------------------- MODULE GatedStreamProofs -------------------------
(***************************************************************************)
(* For any number of streams and any runs: the gated stream is the forward *)
(* stream filtered by the whole index, it keeps in lockstep with the gate, *)
(* it leaves no generator open, and on a regular run an iteration that     *)
(* ends regularly has delivered the whole index.                           *)
(***************************************************************************)
EXTENDS GatedStream, TLAPS, FiniteSetTheorems

\* A non-empty set of naturals has a least element, and Min finds it.
LEMMA MinProperties ==
  ASSUME NEW T, T \subseteq Nat, T # {}
  PROVE  Min(T) \in T /\ \A y \in T : Min(T) <= y
<1> DEFINE R == OpToRel(<, Nat)
<1>1. IsWellFoundedOn(R, Nat)
  BY NatLessThanWellFounded
<1>2. \A x, y \in Nat : x < y => <<x, y>> \in R
  BY DEF OpToRel
<1> HIDE DEF R
<1>3. PICK x \in T : \A y \in T : ~ (<<y, x>> \in R)
  BY <1>1, WFMin
<1>4. \A y \in T : x \in Nat /\ y \in Nat /\ ~ (y < x)
  BY <1>2, <1>3
<1>5. \A y \in T : x <= y
  BY <1>4
<1>6. QED
  BY <1>5 DEF Min

\* The forward merge, with what EventMergeProofs proves of it.
MP == INSTANCE EventMergeProofs WITH Inputs <- {r.streams : r \in Runs}

Rec(s, i) == source[s].ts[i]

Records(s) == 1..Len(source[s].ts)

Carrying(t) == {s \in Streams : \E i \in Records(s) : Rec(s, i) = t}

\* The gate's locals have their types.
GateTypes ==
  /\ source \in [Streams -> Gate!Source]
  /\ \A s \in Streams : Gate!AscendingTs(source[s].ts)
  /\ timing \subseteq Streams
  /\ taken \in [Streams -> Nat]
  /\ \A s \in Streams : taken[s] <= Len(source[s].ts)
  /\ gate \in {"open", "exhausted", "raised", "closed"}

\* The groups so far are a time slice: across all streams, what has gone
\* into a group lies before what has not.
Swept ==
  \A s, r \in Streams : \A i \in 1..taken[s], j \in (taken[r] + 1)..Len(source[r].ts) :
    Rec(s, i) < Rec(r, j)

\* The head is the last indexed timestamp of that slice, and no stream that
\* refuses has been read to its end.
HeadOK ==
  /\ \A s \in Streams : \A i \in 1..taken[s] :
       Rec(s, i) \in Gate!IndexTimestamps => head # None /\ Rec(s, i) <= head
  /\ head # None =>
       /\ head \in Nat /\ head \in Gate!IndexTimestamps
       /\ \A s \in Streams : \A j \in (taken[s] + 1)..Len(source[s].ts) : head < Rec(s, j)
       /\ \A s \in Streams : source[s].stop = "raised" => taken[s] < Len(source[s].ts)

\* Where the join stands, and what that says of both generators.
JoinOK ==
  /\ join \in {"start", "pull", "compare", "suspended", "done", "raised", "closed"}
  /\ join \in {"start", "pull", "compare", "suspended"} => gate = "open"
  /\ join \in {"start", "compare", "suspended"} => status = "suspended"
  /\ join = "pull" => status \in {"suspended", "running"}
  /\ join = "start" => head = None /\ out = <<>>
  /\ join \in {"pull", "compare", "suspended"} =>
       head # None /\ \A i \in 1..Compared : out[i].ts <= head
  /\ join = "compare" => out # <<>>
  /\ gate = "raised" => join = "raised"
  /\ join \in {"done", "raised", "closed"} =>
       status \notin {"suspended", "running"} /\ gate # "open"

\* On a regular run every L1Accept that has been consumed came out.
NothingSwallowed ==
  Regular =>
    \A s \in Streams : \A i \in 1..at[s] :
      input[s].dgs[i].svc = L1Accept =>
        \E k \in 1..Len(out) : out[k].ts = input[s].dgs[i].ts

\* The consumer is given indexed events only.
OnlyIndexed == \A i \in 1..Len(yielded) : yielded[i].ts \in Gate!IndexTimestamps

\* The inductive invariant.
IInv ==
  /\ MP!IInv
  /\ GateTypes /\ Swept /\ HeadOK
  /\ JoinOK
  /\ InLockstep
  /\ yielded \in Seq(MP!Event) /\ JoinIsFilter /\ OnlyIndexed
  /\ NothingSwallowed
  /\ RegularYieldsTheIndex

-----------------------------------------------------------------------------
(* The instance of the merge: its assumptions hold, and its steps are the  *)
(* ones the join takes.                                                    *)

LEMMA MergeAssumptions ==
  /\ {r.streams : r \in Runs} \subseteq [Streams -> MP!Input]
  /\ \A i \in {r.streams : r \in Runs}, s \in Streams : MP!Ascending(i[s].dgs)
  /\ EventServices \subseteq Services
  /\ Streams \subseteq Nat /\ MP!IsFiniteSet(Streams) /\ Streams # {}
<1>1. Merge!Input = MP!Input
  BY DEF Merge!Dgram, MP!Dgram, Merge!Input, MP!Input
<1>2. \A d : Merge!Ascending(d) <=> MP!Ascending(d)
  BY DEF MP!Ascending, Merge!Ascending
<1>3. MP!IsFiniteSet(Streams)
  BY StreamsAssumption DEF IsFiniteSet, MP!IsFiniteSet
<1>4. QED
  BY <1>1, <1>2, <1>3, StreamsAssumption, ServicesAssumption, RunsAssumption

LEMMA SameMerge ==
  /\ Merge!Begin <=> MP!Begin
  /\ Merge!Suspended <=> status = "suspended"
  /\ Merge!Active <=> status \in {"suspended", "running"}
  /\ Merge!YieldEvent <=> MP!YieldEvent
  /\ Merge!SkipTransition <=> MP!SkipTransition
  /\ Merge!Exhausted <=> MP!Exhausted
  /\ Merge!PeekRaises <=> MP!PeekRaises
<1> USE DEF Merge!PeekRound, MP!PeekRound, Merge!Consume, MP!Consume, Merge!Live, MP!Live,
        Merge!Service, MP!Service, Merge!Joining, MP!Joining, Merge!HeadOf, MP!HeadOf,
        Merge!MinTs, MP!MinTs, Merge!Active, MP!Active, Merge!Refusing, MP!Refusing,
        Merge!Suspended, MP!Suspended, Merge!Min, MP!Min
<1>1. Merge!Begin <=> MP!Begin
  BY DEF Merge!Begin, MP!Begin
<1>2. Merge!Suspended <=> status = "suspended"
  OBVIOUS
<1>3. Merge!Active <=> status \in {"suspended", "running"}
  OBVIOUS
<1>4. Merge!YieldEvent <=> MP!YieldEvent
  BY DEF Merge!YieldEvent, MP!YieldEvent
<1>5. Merge!SkipTransition <=> MP!SkipTransition
  BY DEF Merge!SkipTransition, MP!SkipTransition
<1>6. Merge!Exhausted <=> MP!Exhausted
  BY DEF Merge!Exhausted, MP!Exhausted
<1>7. Merge!PeekRaises <=> MP!PeekRaises
  BY DEF Merge!PeekRaises, MP!PeekRaises
<1>8. QED
  BY <1>1, <1>2, <1>3, <1>4, <1>5, <1>6, <1>7

\* What the invariant of the merge says, in the words of this module.
LEMMA MergeFacts ==
  ASSUME MP!IInv
  PROVE  /\ input \in {r.streams : r \in Runs}
         /\ out \in Seq(MP!Event) /\ Len(out) \in Nat
         /\ \A i \in 1..Len(out) : out[i] \in MP!Event /\ out[i].ts \in Nat
         /\ \A i, j \in 1..Len(out) : i <= j => out[i].ts <= out[j].ts
         /\ \A s \in Streams :
              /\ at[s] \in Nat /\ Len(input[s].dgs) \in Nat /\ at[s] <= Len(input[s].dgs)
              /\ \A i \in 1..Len(input[s].dgs) : input[s].dgs[i].ts \in Nat
         /\ \A s \in Streams : \A j \in (at[s] + 1)..Len(input[s].dgs), i \in 1..Len(out) :
              out[i].ts <= input[s].dgs[j].ts
<1>1. MP!TypeOK /\ MP!AscendingEvents
  BY DEF MP!IInv
<1>2. input \in {r.streams : r \in Runs} /\ out \in Seq(MP!Event)
  BY <1>1 DEF MP!TypeOK, MP!LocalsOK
<1>3. \A i \in 1..Len(out) : out[i] \in MP!Event /\ out[i].ts \in Nat
  <2>1. \A i \in 1..Len(out) : out[i] \in MP!Event
    BY <1>2
  <2>2. QED
    BY <2>1 DEF MP!Event
<1>4. \A s \in Streams :
        /\ at[s] \in Nat /\ Len(input[s].dgs) \in Nat /\ at[s] <= Len(input[s].dgs)
        /\ \A i \in 1..Len(input[s].dgs) : input[s].dgs[i] \in MP!Dgram
        /\ \A i, j \in 1..Len(input[s].dgs) :
             i <= j => input[s].dgs[i].ts <= input[s].dgs[j].ts
  BY <1>1, MergeAssumptions, MP!StreamFacts
<1>5. \A s \in Streams : \A i \in 1..Len(input[s].dgs) : input[s].dgs[i].ts \in Nat
  BY <1>4 DEF MP!Dgram
<1>6. ASSUME NEW s \in Streams, NEW j \in (at[s] + 1)..Len(input[s].dgs), NEW i \in 1..Len(out)
      PROVE  out[i].ts <= input[s].dgs[j].ts
  <2>1. at[s] + 1 \in 1..Len(input[s].dgs) /\ j \in 1..Len(input[s].dgs) /\ at[s] + 1 <= j
    BY <1>4
  <2>2. s \in MP!Live
    BY <1>4, <2>1 DEF MP!Live
  <2>3. out[i].ts <= input[s].dgs[at[s] + 1].ts
    BY <1>1, <2>2 DEF MP!AscendingEvents, MP!HeadOf
  <2>4. input[s].dgs[at[s] + 1].ts <= input[s].dgs[j].ts
    BY <1>4, <2>1
  <2>5. QED
    BY <1>3, <1>5, <2>1, <2>3, <2>4
<1>7. QED
  BY <1>1, <1>2, <1>3, <1>4, <1>5, <1>6 DEF MP!AscendingEvents

-----------------------------------------------------------------------------
(* The gate source: one turn takes all the records of one timestamp, the   *)
(* smallest not taken yet.                                                 *)

\* In an ascending sequence of numbers those up to g come first, so that
\* their number is the position of the last one.
LEMMA PrefixUpTo ==
  ASSUME NEW ts \in Seq(Nat), Gate!AscendingTs(ts), NEW g \in Nat
  PROVE  LET c == Cardinality({i \in 1..Len(ts) : ts[i] <= g})
         IN  c \in 0..Len(ts) /\ \A i \in 1..Len(ts) : i <= c <=> ts[i] <= g
<1> DEFINE S == {i \in 1..Len(ts) : ts[i] <= g}
           T == {i \in 1..(Len(ts) + 1) : i = Len(ts) + 1 \/ ~(ts[i] <= g)}
<1>1. Len(ts) \in Nat /\ \A i \in 1..Len(ts) : ts[i] \in Nat
  OBVIOUS
<1>2. PICK m \in T : \A k \in T : m <= k
  <2>1. T \subseteq Nat /\ Len(ts) + 1 \in T
    BY <1>1
  <2>2. QED
    BY <2>1, MinProperties
<1>3. m - 1 \in 0..Len(ts)
  BY <1>1, <1>2
<1>4. \A i \in 1..Len(ts) : i <= m - 1 <=> ts[i] <= g
  <2>1. ASSUME NEW i \in 1..Len(ts), i <= m - 1
        PROVE  ts[i] <= g
    BY <1>1, <1>2, <2>1
  <2>2. ASSUME NEW i \in 1..Len(ts), m <= i
        PROVE  ~(ts[i] <= g)
    <3>1. m \in 1..Len(ts) /\ ~(ts[m] <= g)
      BY <1>1, <1>2, <2>2
    <3>2. ts[m] <= ts[i]
      BY <2>2, <3>1 DEF Gate!AscendingTs
    <3>3. QED
      BY <1>1, <3>1, <3>2
  <2>3. QED
    BY <1>1, <1>3, <2>1, <2>2
<1>5. S = 1..(m - 1)
  BY <1>1, <1>3, <1>4
<1>6. Cardinality(S) = m - 1
  <2>1. Cardinality(1..(m - 1)) = m - 1
    BY <1>3, FS_Interval
  <2>2. QED
    BY <1>5, <2>1
<1>7. QED
  BY <1>3, <1>4, <1>6

\* The facts about the records of a stream that the steps use.
LEMMA RecordFacts ==
  ASSUME GateTypes
  PROVE  \A s \in Streams :
           /\ taken[s] \in Nat /\ Len(source[s].ts) \in Nat
           /\ taken[s] <= Len(source[s].ts)
           /\ source[s].ts \in Seq(Nat)
           /\ \A i \in Records(s) : Rec(s, i) \in Nat
           /\ \A i, j \in Records(s) : i <= j => Rec(s, i) <= Rec(s, j)
<1>1. ASSUME NEW s \in Streams
      PROVE  source[s].ts \in Seq(Nat)
  <2>1. source[s] \in Gate!Source
    BY DEF GateTypes
  <2>2. QED
    BY <2>1 DEF Gate!Source
<1>2. ASSUME NEW s \in Streams
      PROVE  Len(source[s].ts) \in Nat /\ \A i \in Records(s) : Rec(s, i) \in Nat
  BY <1>1 DEF Records, Rec
<1>3. QED
  BY <1>1, <1>2 DEF GateTypes, Gate!AscendingTs, Records, Rec

LEMMA IndexMembers ==
  ASSUME NEW t
  PROVE  t \in Gate!IndexTimestamps <=> Carrying(t) # {} /\ Gate!Canonical(Carrying(t))
BY DEF Gate!IndexTimestamps, Carrying, Rec, Records

\* The current group: every record at its timestamp, none of them taken,
\* and nothing smaller left.
LEMMA GroupProperties ==
  ASSUME GateTypes, Swept, Gate!Waiting # {}
  PROVE  /\ Gate!GroupTs \in Nat
         /\ \A s \in Streams :
              /\ \A i \in 1..taken[s] : Rec(s, i) < Gate!GroupTs
              /\ \A i \in (taken[s] + 1)..Len(source[s].ts) : Gate!GroupTs <= Rec(s, i)
         /\ Gate!GroupStreams = Carrying(Gate!GroupTs)
         /\ Gate!GroupStreams # {}
<1> DEFINE W == {source[s].ts[taken[s] + 1] : s \in Gate!Waiting}
<1>1. \A s \in Gate!Waiting : s \in Streams /\ taken[s] < Len(source[s].ts)
  BY DEF Gate!Waiting
<1>2. \A s \in Gate!Waiting : taken[s] + 1 \in Records(s)
  BY <1>1, RecordFacts DEF Records
<1>3. W \subseteq Nat /\ W # {}
  BY <1>1, <1>2, RecordFacts DEF Rec
<1>4. Gate!GroupTs \in W /\ \A t \in W : Gate!GroupTs <= t
  <2>1. Gate!Min(W) = Min(W)
    BY DEF Gate!Min, Min
  <2>2. Min(W) \in W /\ \A t \in W : Min(W) <= t
    <3> HIDE DEF W
    <3>1. QED
      BY <1>3, MinProperties
  <2>3. QED
    BY <2>1, <2>2 DEF Gate!GroupTs
<1>5. PICK w \in Gate!Waiting : Gate!GroupTs = Rec(w, taken[w] + 1)
  BY <1>4 DEF Rec
<1>6. \A s \in Gate!Waiting : Gate!GroupTs <= Rec(s, taken[s] + 1)
  BY <1>4 DEF Rec
<1> HIDE DEF W
<1>7. Gate!GroupTs \in Nat
  BY <1>3, <1>4
<1>8. ASSUME NEW s \in Streams, NEW i \in 1..taken[s]
      PROVE  Rec(s, i) < Gate!GroupTs
  <2>1. /\ w \in Streams /\ taken[w] \in Nat /\ Len(source[w].ts) \in Nat
        /\ taken[w] < Len(source[w].ts)
    BY <1>1, RecordFacts
  <2>2. taken[w] + 1 \in (taken[w] + 1)..Len(source[w].ts)
    BY <2>1
  <2>3. QED
    BY <1>5, <2>1, <2>2 DEF Swept
<1>9. ASSUME NEW s \in Streams, NEW i \in (taken[s] + 1)..Len(source[s].ts)
      PROVE  Gate!GroupTs <= Rec(s, i)
  <2>1. s \in Gate!Waiting /\ i \in Records(s) /\ taken[s] + 1 <= i
    BY RecordFacts DEF Gate!Waiting, Records
  <2>2. Rec(s, taken[s] + 1) <= Rec(s, i)
    BY <1>2, <2>1, RecordFacts
  <2>3. QED
    BY <1>2, <1>6, <1>7, <2>1, <2>2, RecordFacts
<1>10. ASSUME NEW s \in Streams
       PROVE  s \in Gate!GroupStreams <=> s \in Carrying(Gate!GroupTs)
  <2>1. ASSUME s \in Gate!GroupStreams
        PROVE  s \in Carrying(Gate!GroupTs)
    BY <1>2, <2>1 DEF Gate!GroupStreams, Carrying, Rec
  <2>2. ASSUME NEW i \in Records(s), Rec(s, i) = Gate!GroupTs
        PROVE  s \in Gate!GroupStreams
    <3>1. i \notin 1..taken[s]
      BY <1>7, <1>8, <2>2
    <3>2. taken[s] + 1 <= i /\ s \in Gate!Waiting
      BY <3>1, RecordFacts DEF Records, Gate!Waiting
    <3>3. Rec(s, taken[s] + 1) <= Gate!GroupTs
      BY <1>2, <2>2, <3>2, RecordFacts
    <3>4. Rec(s, taken[s] + 1) = Gate!GroupTs
      BY <1>2, <1>6, <1>7, <3>2, <3>3, RecordFacts
    <3>5. QED
      BY <3>2, <3>4 DEF Gate!GroupStreams, Rec
  <2>3. QED
    BY <2>1, <2>2 DEF Carrying
<1>11. Gate!GroupStreams = Carrying(Gate!GroupTs)
  BY <1>1, <1>10 DEF Gate!GroupStreams, Carrying
<1>12. w \in Gate!GroupStreams
  BY <1>5 DEF Gate!GroupStreams, Rec
<1>13. QED
  BY <1>7, <1>8, <1>9, <1>11, <1>12

\* A turn of the gate: the slice grows by the group.
LEMMA TurnTakesTheGroup ==
  ASSUME GateTypes, Swept, Gate!Waiting # {}, taken' = Gate!TakenWithGroup,
         UNCHANGED <<source, timing>>, gate' = gate
  PROVE  /\ GateTypes' /\ Swept'
         /\ \A s \in Streams :
              /\ \A i \in 1..taken'[s] : i \in 1..taken[s] \/ Rec(s, i) = Gate!GroupTs
              /\ \A i \in (taken'[s] + 1)..Len(source[s].ts) : Gate!GroupTs < Rec(s, i)
<1>1. Gate!GroupTs \in Nat
  BY GroupProperties
<1>2. ASSUME NEW s \in Streams
      PROVE  /\ taken'[s] \in 0..Len(source[s].ts)
             /\ \A i \in Records(s) : i <= taken'[s] <=> Rec(s, i) <= Gate!GroupTs
  <2>1. taken'[s] = Cardinality({i \in 1..Len(source[s].ts) : source[s].ts[i] <= Gate!GroupTs})
    BY DEF Gate!TakenWithGroup, Gate!Cardinality, Cardinality
  <2>2. source[s].ts \in Seq(Nat) /\ Gate!AscendingTs(source[s].ts)
    BY RecordFacts DEF GateTypes
  <2>3. QED
    BY <1>1, <2>1, <2>2, PrefixUpTo DEF Records, Rec
<1>3. \A s \in Streams : taken'[s] \in Nat /\ taken'[s] <= Len(source[s].ts)
  BY <1>2, RecordFacts
<1>4. taken' \in [Streams -> Nat]
  <2>1. taken' = [s \in Streams |-> taken'[s]]
    BY DEF Gate!TakenWithGroup
  <2>2. QED
    BY <1>3, <2>1
<1>5. GateTypes'
  BY <1>3, <1>4 DEF GateTypes
<1>6. ASSUME NEW s \in Streams, NEW i \in 1..taken'[s]
      PROVE  /\ i \in Records(s) /\ Rec(s, i) <= Gate!GroupTs
             /\ i \in 1..taken[s] \/ Rec(s, i) = Gate!GroupTs
  <2>1. i \in Records(s) /\ Rec(s, i) <= Gate!GroupTs
    BY <1>2, <1>3, RecordFacts DEF Records
  <2>2. i \notin 1..taken[s] => Gate!GroupTs <= Rec(s, i)
    BY <2>1, GroupProperties, RecordFacts DEF Records
  <2>3. QED
    BY <1>1, <2>1, <2>2, RecordFacts
<1>7. ASSUME NEW s \in Streams, NEW i \in (taken'[s] + 1)..Len(source[s].ts)
      PROVE  i \in Records(s) /\ Gate!GroupTs < Rec(s, i)
  <2>1. i \in Records(s) /\ ~(i <= taken'[s])
    BY <1>3, RecordFacts DEF Records
  <2>2. QED
    BY <1>1, <1>2, <2>1, RecordFacts
<1>8. ASSUME NEW s \in Streams, NEW r \in Streams, NEW i \in 1..taken'[s],
             NEW j \in (taken'[r] + 1)..Len(source[r].ts)
      PROVE  Rec(s, i) < Rec(r, j)
  BY <1>1, <1>6, <1>7, RecordFacts
<1>9. Swept'
  <2>1. \A s, i : Rec(s, i)' = Rec(s, i)
    BY DEF Rec
  <2>2. QED
    BY <1>8, <2>1 DEF Swept
<1>10. QED
  BY <1>5, <1>6, <1>7, <1>9

\* Nothing but the records decides what is in the index.
LEMMA SourceDecides ==
  ASSUME UNCHANGED <<source, timing>>
  PROVE  /\ Gate!IndexTimestamps' = Gate!IndexTimestamps
         /\ \A s, i : Rec(s, i)' = Rec(s, i)
BY DEF Gate!IndexTimestamps, Gate!Canonical, Rec

\* The gate yields: the head moves on to the next indexed timestamp.
LEMMA YieldMovesHead ==
  ASSUME GateTypes, Swept, HeadOK, Gate!GateYield, head' = Gate!GroupTs
  PROVE  /\ GateTypes' /\ Swept' /\ HeadOK'
         /\ head' \in Nat /\ head' \in Gate!IndexTimestamps
         /\ head # None => head < head'
         /\ \A t \in Gate!IndexTimestamps : t < head' => head # None /\ t <= head
<1>1. /\ Gate!Waiting # {} /\ taken' = Gate!TakenWithGroup
      /\ UNCHANGED <<source, timing>> /\ gate' = gate
      /\ Gate!Canonical(Gate!GroupStreams) /\ ~Gate!Refuses(Gate!TakenWithGroup)
  BY DEF Gate!GateYield
<1>2. /\ head' \in Nat /\ Gate!GroupStreams = Carrying(head') /\ Gate!GroupStreams # {}
      /\ \A s \in Streams :
           /\ \A i \in 1..taken[s] : Rec(s, i) < head'
           /\ \A i \in (taken[s] + 1)..Len(source[s].ts) : head' <= Rec(s, i)
  BY <1>1, GroupProperties
<1>3. /\ GateTypes' /\ Swept'
      /\ \A s \in Streams :
           /\ \A i \in 1..taken'[s] : i \in 1..taken[s] \/ Rec(s, i) = head'
           /\ \A i \in (taken'[s] + 1)..Len(source[s].ts) : head' < Rec(s, i)
  BY <1>1, TurnTakesTheGroup
<1>4. head' \in Gate!IndexTimestamps
  <2>1. Carrying(head') # {} /\ Gate!Canonical(Carrying(head'))
    BY <1>1, <1>2
  <2>2. QED
    BY <2>1, IndexMembers
<1>5. PICK w \in Streams : \E i \in Records(w) : Rec(w, i) = head'
  BY <1>2 DEF Carrying
<1>6. PICK k \in Records(w) : Rec(w, k) = head'
  BY <1>5
<1>7. head # None => head < head'
  <2>1. k \in (taken[w] + 1)..Len(source[w].ts)
    BY <1>2, <1>6, RecordFacts DEF Records
  <2>2. QED
    BY <1>6, <2>1 DEF HeadOK
<1>8. ASSUME NEW t \in Gate!IndexTimestamps, t < head'
      PROVE  head # None /\ t <= head
  <2>1. PICK s \in Streams : \E i \in Records(s) : Rec(s, i) = t
    BY IndexMembers DEF Carrying
  <2>2. PICK i \in Records(s) : Rec(s, i) = t
    BY <2>1
  <2>3. i \in 1..taken[s]
    <3>1. /\ taken[s] \in Nat /\ Len(source[s].ts) \in Nat
          /\ i \in 1..Len(source[s].ts) /\ Rec(s, i) \in Nat
      BY RecordFacts DEF Records
    <3>2. ~(head' <= Rec(s, i))
      BY <1>2, <1>8, <2>2, <3>1
    <3>3. i \notin (taken[s] + 1)..Len(source[s].ts)
      BY <1>2, <3>2
    <3>4. QED
      BY <3>1, <3>3
  <2>4. QED
    BY <2>2, <2>3 DEF HeadOK
<1>9. ASSUME NEW s \in Streams, NEW i \in 1..taken'[s], Rec(s, i) \in Gate!IndexTimestamps
      PROVE  Rec(s, i) <= head'
  <2>1. CASE Rec(s, i) = head'
    BY <1>2, <2>1
  <2>2. CASE i \in 1..taken[s]
    <3>1. Rec(s, i) \in Nat
      BY <2>2, RecordFacts DEF Records
    <3>2. QED
      BY <1>2, <2>2, <3>1
  <2>3. QED
    BY <1>3, <2>1, <2>2
<1>10. \A s \in Streams : source[s].stop = "raised" => taken'[s] < Len(source[s].ts)
  <2>1. \A s \in Streams : source[s].stop = "raised" => taken'[s] # Len(source[s].ts)
    BY <1>1 DEF Gate!Refuses
  <2>2. \A s \in Streams : taken'[s] <= Len(source[s].ts) /\ taken'[s] \in Nat
    BY <1>1, <1>3 DEF GateTypes
  <2>3. QED
    BY <2>1, <2>2, RecordFacts
<1>11. HeadOK'
  BY <1>1, <1>2, <1>3, <1>4, <1>9, <1>10, SourceDecides, NoneAssumption DEF HeadOK
<1>12. QED
  BY <1>2, <1>3, <1>4, <1>7, <1>8, <1>11

\* The gate leaves out a group the clamp refuses: the head stays.
LEMMA SkipKeepsHead ==
  ASSUME GateTypes, Swept, HeadOK, Gate!GateSkip, head' = head
  PROVE  GateTypes' /\ Swept' /\ HeadOK'
<1>1. /\ Gate!Waiting # {} /\ taken' = Gate!TakenWithGroup
      /\ UNCHANGED <<source, timing>> /\ gate' = gate
      /\ ~Gate!Canonical(Gate!GroupStreams) /\ ~Gate!Refuses(Gate!TakenWithGroup)
  BY DEF Gate!GateSkip
<1>2. /\ GateTypes' /\ Swept'
      /\ \A s \in Streams :
           /\ \A i \in 1..taken'[s] : i \in 1..taken[s] \/ Rec(s, i) = Gate!GroupTs
           /\ \A i \in (taken'[s] + 1)..Len(source[s].ts) : Gate!GroupTs < Rec(s, i)
  BY <1>1, TurnTakesTheGroup
<1>3. Gate!GroupTs \notin Gate!IndexTimestamps
  BY <1>1, GroupProperties, IndexMembers
<1>4. \A s \in Streams : \A i \in 1..taken'[s] :
        Rec(s, i) \in Gate!IndexTimestamps => head # None /\ Rec(s, i) <= head
  BY <1>2, <1>3 DEF HeadOK
<1>5. \A s \in Streams : source[s].stop = "raised" => taken'[s] < Len(source[s].ts)
  <2>1. \A s \in Streams : source[s].stop = "raised" => taken'[s] # Len(source[s].ts)
    BY <1>1 DEF Gate!Refuses
  <2>2. \A s \in Streams : taken'[s] <= Len(source[s].ts) /\ taken'[s] \in Nat
    BY <1>1, <1>2 DEF GateTypes
  <2>3. QED
    BY <2>1, <2>2, RecordFacts
<1>6. ASSUME head # None, NEW s \in Streams, NEW j \in (taken'[s] + 1)..Len(source[s].ts)
      PROVE  head < Rec(s, j)
  <2>1. taken'[s] \in Nat /\ j \in Records(s) /\ Gate!GroupTs < Rec(s, j)
    BY <1>1, <1>2, RecordFacts DEF GateTypes, Records
  <2>2. j \notin 1..taken[s]
    <3>1. ASSUME j \in 1..taken[s] PROVE FALSE
      BY <2>1, <3>1, <1>1, GroupProperties, RecordFacts
    <3>2. QED
      BY <3>1
  <2>3. j \in (taken[s] + 1)..Len(source[s].ts)
    BY <2>1, <2>2, RecordFacts DEF Records
  <2>4. QED
    BY <1>6, <2>3 DEF HeadOK
<1>7. HeadOK'
  BY <1>1, <1>4, <1>5, <1>6, SourceDecides DEF HeadOK
<1>8. QED
  BY <1>2, <1>7

-----------------------------------------------------------------------------
(* The filter: comparing one more event adds its rank, or leaves it out.   *)

LEMMA IndexedCount ==
  ASSUME NEW n \in Nat
  PROVE  /\ Indexed(n) \subseteq 1..n /\ IsFiniteSet(Indexed(n))
         /\ Cardinality(Indexed(n)) \in Nat
         /\ IF out[n + 1].ts \in Gate!IndexTimestamps
            THEN /\ Indexed(n + 1) = Indexed(n) \cup {n + 1}
                 /\ Cardinality(Indexed(n + 1)) = Cardinality(Indexed(n)) + 1
            ELSE Indexed(n + 1) = Indexed(n)
         /\ \A i \in Indexed(n) :
              Cardinality(Indexed(i)) \in 1..Cardinality(Indexed(n))
<1>1. ASSUME NEW m \in Nat
      PROVE  /\ Indexed(m) \subseteq 1..m /\ IsFiniteSet(Indexed(m))
             /\ Cardinality(Indexed(m)) \in Nat
  <2>1. Indexed(m) \subseteq 1..m
    BY DEF Indexed
  <2>2. IsFiniteSet(1..m)
    BY FS_Interval
  <2>3. IsFiniteSet(Indexed(m))
    BY <2>1, <2>2, FS_Subset
  <2>4. QED
    BY <2>1, <2>3, FS_CardinalityType
<1>2. 1..(n + 1) = (1..n) \cup {n + 1}
  OBVIOUS
<1>3. ASSUME out[n + 1].ts \in Gate!IndexTimestamps
      PROVE  /\ Indexed(n + 1) = Indexed(n) \cup {n + 1}
             /\ Cardinality(Indexed(n + 1)) = Cardinality(Indexed(n)) + 1
  <2>1. Indexed(n + 1) = Indexed(n) \cup {n + 1}
    BY <1>2, <1>3 DEF Indexed
  <2>2. n + 1 \notin Indexed(n)
    BY DEF Indexed
  <2>3. Cardinality(Indexed(n + 1)) = Cardinality(Indexed(n)) + 1
    BY <1>1, <2>1, <2>2, FS_AddElement
  <2>4. QED
    BY <2>1, <2>3
<1>4. ASSUME out[n + 1].ts \notin Gate!IndexTimestamps
      PROVE  Indexed(n + 1) = Indexed(n)
  BY <1>2, <1>4 DEF Indexed
<1>5. ASSUME NEW i \in Indexed(n)
      PROVE  Cardinality(Indexed(i)) \in 1..Cardinality(Indexed(n))
  <2>1. i \in 1..n /\ i \in Indexed(i) /\ Indexed(i) \subseteq Indexed(n)
    BY DEF Indexed
  <2>2. Cardinality(Indexed(i)) <= Cardinality(Indexed(n))
    BY <1>1, <2>1, FS_Subset
  <2>3. Cardinality(Indexed(i)) # 0
    BY <1>1, <2>1, FS_EmptySet
  <2>4. QED
    BY <1>1, <2>1, <2>2, <2>3
<1>6. QED
  BY <1>1, <1>3, <1>4, <1>5

LEMMA FilterKept ==
  ASSUME JoinIsFilter, Compared \in Nat, UNCHANGED <<source, timing, yielded>>,
         Compared' = Compared, \A i \in 1..Compared : out'[i] = out[i]
  PROVE  JoinIsFilter'
<1> DEFINE New(m) == {i \in 1..m : out'[i].ts \in Gate!IndexTimestamps'}
<1>1. ASSUME NEW m \in 0..Compared
      PROVE  New(m) = Indexed(m)
  BY SourceDecides DEF Indexed
<1>2. Compared \in 0..Compared
  OBVIOUS
<1>3. \A i \in Indexed(Compared) : i \in 0..Compared /\ out'[i] = out[i]
  BY DEF Indexed
<1>4. /\ Len(yielded') = Cardinality(New(Compared))
      /\ \A i \in New(Compared) : yielded'[Cardinality(New(i))] = out'[i]
  <2> HIDE DEF New
  <2>1. QED
    BY <1>1, <1>2, <1>3 DEF JoinIsFilter
<1>5. QED
  BY <1>4 DEF JoinIsFilter, Indexed

LEMMA FilterGrows ==
  ASSUME JoinIsFilter, Compared \in Nat, UNCHANGED <<source, timing, out>>,
         Compared' = Compared + 1,
         yielded \in Seq(MP!Event), out[Compared + 1] \in MP!Event,
         yielded' = IF out[Compared + 1].ts \in Gate!IndexTimestamps
                    THEN Append(yielded, out[Compared + 1]) ELSE yielded
  PROVE  JoinIsFilter' /\ yielded' \in Seq(MP!Event)
<1> DEFINE n == Compared
           Kept(m) == Cardinality(Indexed(m))
<1>1. \A m : {i \in 1..m : out'[i].ts \in Gate!IndexTimestamps'} = Indexed(m)
  BY SourceDecides DEF Indexed
<1>2. /\ Len(yielded) = Kept(n) /\ Kept(n) \in Nat
      /\ \A i \in Indexed(n) : Kept(i) \in 1..Len(yielded) /\ yielded[Kept(i)] = out[i]
  BY IndexedCount DEF JoinIsFilter
<1>3. /\ Len(yielded') = Kept(n + 1)
      /\ \A i \in Indexed(n + 1) : yielded'[Kept(i)] = out[i]
  <2>1. CASE out[n + 1].ts \in Gate!IndexTimestamps
    <3>1. Indexed(n + 1) = Indexed(n) \cup {n + 1} /\ Kept(n + 1) = Kept(n) + 1
      BY <2>1, IndexedCount
    <3>2. /\ Len(yielded') = Len(yielded) + 1
          /\ yielded'[Len(yielded) + 1] = out[n + 1]
          /\ \A k \in 1..Len(yielded) : yielded'[k] = yielded[k]
      BY <2>1
    <3> HIDE DEF Kept
    <3>3. QED
      BY <1>2, <3>1, <3>2
  <2>2. CASE out[n + 1].ts \notin Gate!IndexTimestamps
    BY <1>2, <2>2, IndexedCount
  <2>3. QED
    BY <2>1, <2>2
<1>4. JoinIsFilter'
  BY <1>1, <1>3 DEF JoinIsFilter, Indexed
<1>5. QED
  BY <1>4

-----------------------------------------------------------------------------
(* What the steps leave alone.                                             *)

LEMMA ComparedBounds ==
  ASSUME IInv
  PROVE  /\ Len(out) \in Nat /\ Compared \in 0..Len(out)
         /\ out # <<>> => Len(out) \in 1..Len(out)
<1>1. out \in Seq(MP!Event)
  BY MergeFacts DEF IInv
<1>2. Len(out) \in Nat /\ (out # <<>> => Len(out) # 0)
  BY <1>1
<1>3. QED
  BY <1>2 DEF Compared

LEMMA GateKept ==
  ASSUME GateTypes, Swept, HeadOK, UNCHANGED <<source, timing, taken, head>>,
         gate' \in {"open", "exhausted", "raised", "closed"}
  PROVE  GateTypes' /\ Swept' /\ HeadOK'
<1>1. GateTypes'
  BY DEF GateTypes
<1>2. Swept'
  BY SourceDecides DEF Swept
<1>3. HeadOK'
  BY SourceDecides DEF HeadOK
<1>4. QED
  BY <1>1, <1>2, <1>3

LEMMA MergeKept ==
  ASSUME MP!IInv, CloseMerge \/ UNCHANGED mergeVars
  PROVE  MP!IInv' /\ UNCHANGED <<input, at, out>>
<1>1. UNCHANGED <<input, at, everLive, dropped, out>>
  BY DEF CloseMerge, mergeVars
<1>2. MP!ConsumerClose \/ UNCHANGED MP!vars
  BY SameMerge DEF CloseMerge, mergeVars, MP!ConsumerClose, MP!Suspended, MP!vars
<1>3. MP!IInv'
  BY <1>2, MergeAssumptions, MP!StopPreserves
<1>4. QED
  BY <1>1, <1>3

LEMMA HistoryKept ==
  ASSUME IInv, UNCHANGED <<input, at, out, source, timing, yielded>>
  PROVE  /\ yielded' \in Seq(MP!Event) /\ OnlyIndexed'
         /\ NothingSwallowed' /\ (Regular' <=> Regular)
         /\ head' = head => InLockstep'
         /\ Compared' = Compared => JoinIsFilter'
<1>1. Regular' <=> Regular
  BY DEF Regular
<1>2. NothingSwallowed'
  BY <1>1 DEF IInv, NothingSwallowed
<1>3. OnlyIndexed' /\ yielded' \in Seq(MP!Event)
  BY SourceDecides DEF IInv, OnlyIndexed
<1>4. head' = head => InLockstep'
  BY SourceDecides DEF IInv, InLockstep
<1>5. Compared' = Compared => JoinIsFilter'
  BY ComparedBounds, FilterKept DEF IInv
<1>6. QED
  BY <1>1, <1>2, <1>3, <1>4, <1>5

-----------------------------------------------------------------------------
(* The turns of the gate.                                                  *)

LEMMA AdvancePreserves ==
  ASSUME IInv, AdvanceGate
  PROVE  IInv'
<1>1. /\ GateDue /\ Gate!GateYield /\ head' = Gate!GroupTs
      /\ join' = IF join = "start" THEN "pull" ELSE join
      /\ UNCHANGED mergeVars /\ yielded' = yielded
  BY DEF AdvanceGate
<1>2. UNCHANGED <<source, timing, gate, input, at, out, status>>
  BY <1>1 DEF Gate!GateYield, mergeVars
<1>3. GateTypes /\ Swept /\ HeadOK /\ JoinOK /\ InLockstep /\ MP!IInv
  BY DEF IInv
<1>4. /\ GateTypes' /\ Swept' /\ HeadOK'
      /\ head' \in Nat
      /\ head # None => head < head'
      /\ \A t \in Gate!IndexTimestamps : t < head' => head # None /\ t <= head
  BY <1>1, <1>3, YieldMovesHead
<1>5. MP!IInv'
  BY <1>1, <1>3, MergeKept
<1>6. join \in {"start", "compare"}
  BY <1>1 DEF GateDue
<1>7. Compared' = Compared
  BY <1>1, <1>2, <1>3, <1>6 DEF Compared, JoinOK
<1>8. JoinOK'
  <2>1. ASSUME join = "compare", NEW i \in 1..Compared
        PROVE  out[i].ts <= head'
    <3>1. out[i].ts <= head /\ head # None /\ out[i].ts \in Nat
      BY <1>3, <2>1, ComparedBounds, MergeFacts DEF JoinOK
    <3>2. head \in Nat /\ head' \in Nat /\ head < head'
      BY <1>3, <1>4, <3>1 DEF HeadOK
    <3>3. QED
      BY <3>1, <3>2
  <2>2. join = "start" => Compared = 0
    BY <1>3 DEF JoinOK, Compared
  <2>3. head' # None
    BY <1>4, NoneAssumption
  <2>4. join' \in {"pull", "compare", "suspended"} =>
          head' # None /\ \A i \in 1..Compared' : out'[i].ts <= head'
    BY <1>1, <1>2, <1>6, <1>7, <2>1, <2>2, <2>3
  <2>5. QED
    BY <1>1, <1>2, <1>3, <1>6, <2>4 DEF JoinOK
<1>9. InLockstep'
  <2>1. ASSUME NEW t \in Gate!IndexTimestamps, t < head'
        PROVE  \E i \in 1..Len(out) : t < out[i].ts
    <3>1. head # None /\ t <= head /\ head \in Nat
      BY <1>3, <1>4, <2>1 DEF HeadOK
    <3>2. join = "compare" /\ head < Evt.ts
      BY <1>1, <1>3, <3>1 DEF GateDue, JoinOK
    <3>3. Len(out) \in 1..Len(out) /\ out[Len(out)].ts \in Nat
      BY <1>3, <3>2, ComparedBounds, MergeFacts DEF JoinOK
    <3>4. t \in Nat
      <4>1. PICK s \in Streams : \E i \in Records(s) : Rec(s, i) = t
        BY IndexMembers DEF Carrying
      <4>2. QED
        BY <1>3, <4>1, RecordFacts
    <3>5. QED
      BY <3>1, <3>2, <3>3, <3>4 DEF Evt
  <2>2. QED
    BY <1>2, <2>1, SourceDecides DEF InLockstep
<1>10. RegularYieldsTheIndex'
  BY <1>1, <1>6 DEF RegularYieldsTheIndex, YieldsTheIndex
<1>11. QED
  BY <1>1, <1>2, <1>4, <1>5, <1>7, <1>8, <1>9, <1>10, HistoryKept DEF IInv

LEMMA SkipPreserves ==
  ASSUME IInv, SkipUncanonical
  PROVE  IInv'
<1>1. /\ GateDue /\ Gate!GateSkip /\ UNCHANGED mergeVars
      /\ UNCHANGED <<head, yielded, join>>
  BY DEF SkipUncanonical, joinVars
<1>2. UNCHANGED <<source, timing, gate, input, at, out, status>>
  BY <1>1 DEF Gate!GateSkip, mergeVars
<1>3. GateTypes /\ Swept /\ HeadOK /\ JoinOK /\ MP!IInv
  BY DEF IInv
<1>4. GateTypes' /\ Swept' /\ HeadOK'
  BY <1>1, <1>3, SkipKeepsHead
<1>5. MP!IInv'
  BY <1>1, <1>3, MergeKept
<1>6. Compared' = Compared
  BY <1>1, <1>2 DEF Compared
<1>7. JoinOK'
  BY <1>1, <1>2, <1>3, <1>6 DEF JoinOK
<1>8. RegularYieldsTheIndex'
  BY <1>1 DEF GateDue, RegularYieldsTheIndex, YieldsTheIndex
<1>9. QED
  BY <1>1, <1>2, <1>4, <1>5, <1>6, <1>7, <1>8, HistoryKept DEF IInv

-----------------------------------------------------------------------------
(* The ends: what a regular end has delivered.                             *)

\* If every indexed timestamp has an event that was compared, the consumer
\* was given the whole index.
LEMMA DeliversTheIndex ==
  ASSUME IInv, \A t \in Gate!IndexTimestamps : \E k \in 1..Compared : out[k].ts = t
  PROVE  {yielded[i].ts : i \in 1..Len(yielded)} = Gate!IndexTimestamps
<1>1. Compared \in Nat
  BY ComparedBounds
<1>2. /\ Len(yielded) = Cardinality(Indexed(Compared))
      /\ \A i \in Indexed(Compared) : yielded[Cardinality(Indexed(i))] = out[i]
  BY DEF IInv, JoinIsFilter
<1>3. ASSUME NEW t \in Gate!IndexTimestamps
      PROVE  \E i \in 1..Len(yielded) : yielded[i].ts = t
  <2>1. PICK k \in 1..Compared : out[k].ts = t
    OBVIOUS
  <2>2. k \in Indexed(Compared)
    BY <2>1 DEF Indexed
  <2>3. Cardinality(Indexed(k)) \in 1..Len(yielded)
    BY <1>1, <1>2, <2>2, IndexedCount
  <2>4. QED
    BY <1>2, <2>1, <2>2, <2>3
<1>4. QED
  BY <1>3 DEF IInv, OnlyIndexed

\* On a regular run, an indexed timestamp is that of an L1Accept of the
\* bigdata, and came out once this one was consumed.
LEMMA IndexedCameOut ==
  ASSUME IInv, Regular, NEW s \in Streams, NEW i \in Records(s)
  PROVE  \E j \in 1..Len(input[s].dgs) :
           /\ input[s].dgs[j].ts = Rec(s, i)
           /\ j <= at[s] => \E k \in 1..Len(out) : out[k].ts = Rec(s, i)
<1>1. PICK j \in 1..Len(input[s].dgs) :
        input[s].dgs[j] = [ts |-> Rec(s, i), svc |-> L1Accept]
  BY DEF Regular, Rec, Records
<1>2. input[s].dgs[j].ts = Rec(s, i) /\ input[s].dgs[j].svc = L1Accept
  BY <1>1
<1>3. ASSUME j <= at[s]
      PROVE  \E k \in 1..Len(out) : out[k].ts = Rec(s, i)
  <2>1. MP!IInv
    BY DEF IInv
  <2>2. j \in 1..at[s]
    BY <1>3, <2>1, MergeFacts
  <2>3. QED
    BY <1>2, <2>2 DEF IInv, NothingSwallowed
<1>4. QED
  BY <1>2, <1>3

LEMMA GateEndsPreserves ==
  ASSUME IInv, GateEnds
  PROVE  IInv'
<1>1. /\ GateDue /\ Gate!GateExhausted /\ CloseMerge
      /\ join' = "done" /\ UNCHANGED <<head, yielded>>
  BY DEF GateEnds, Finish
<1>2. /\ gate' = "exhausted" /\ UNCHANGED <<source, timing, taken>>
      /\ Gate!Waiting = {} /\ ~Gate!Refuses(taken) /\ gate = "open"
  BY <1>1 DEF Gate!GateExhausted
<1>3. GateTypes /\ Swept /\ HeadOK /\ JoinOK /\ MP!IInv
  BY DEF IInv
<1>4. MP!IInv' /\ UNCHANGED <<input, at, out>>
  BY <1>1, <1>3, MergeKept
<1>5. GateTypes' /\ Swept' /\ HeadOK'
  BY <1>1, <1>2, <1>3, GateKept
<1>6. join \in {"start", "compare"} /\ status = "suspended" /\ status' = "closed"
  BY <1>1, <1>3, SameMerge DEF GateDue, JoinOK, CloseMerge
<1>7. JoinOK'
  BY <1>1, <1>2, <1>6 DEF JoinOK
<1>8. \A s \in Streams : taken[s] = Len(source[s].ts)
  BY <1>2, <1>3, RecordFacts DEF Gate!Waiting
\* The event in hand lies behind the last indexed timestamp.
<1>9. ASSUME join = "compare"
      PROVE  /\ Len(out) \in 1..Len(out) /\ Compared = Len(out) - 1
             /\ Evt.ts \in Nat /\ head \in Nat /\ head < Evt.ts
             /\ \A t \in Gate!IndexTimestamps : t \in Nat /\ t < Evt.ts
  <2>1. out # <<>> /\ head # None /\ head < Evt.ts
    BY <1>1, <1>3, <1>9 DEF JoinOK, GateDue
  <2>2. Len(out) \in 1..Len(out) /\ Compared = Len(out) - 1
    BY <1>9, <2>1, ComparedBounds DEF Compared
  <2>3. Evt.ts \in Nat /\ head \in Nat
    BY <1>3, <2>1, <2>2, MergeFacts DEF Evt, HeadOK
  <2>4. ASSUME NEW t \in Gate!IndexTimestamps
        PROVE  t \in Nat /\ t <= head
    <3>1. PICK s \in Streams : \E i \in Records(s) : Rec(s, i) = t
      BY IndexMembers DEF Carrying
    <3>2. PICK i \in Records(s) : Rec(s, i) = t
      BY <3>1
    <3>3. i \in 1..taken[s]
      BY <1>8, <3>2 DEF Records
    <3>4. QED
      BY <1>3, <3>2, <3>3, RecordFacts DEF HeadOK
  <2>5. QED
    BY <2>1, <2>2, <2>3, <2>4
<1>10. JoinIsFilter'
  <2>1. CASE join = "start"
    <3>1. Compared' = Compared
      BY <1>3, <1>4, <2>1 DEF Compared, JoinOK
    <3>2. QED
      BY <1>1, <1>2, <1>4, <3>1, HistoryKept
  <2>2. CASE join = "compare"
    <3>1. Compared' = Compared + 1 /\ Compared + 1 = Len(out) /\ Compared \in Nat
      <4>1. Compared' = Len(out)
        BY <1>1, <1>2, <1>4 DEF Compared
      <4>2. QED
        BY <2>2, <1>9, <4>1, ComparedBounds
    <3>2. out[Compared + 1].ts \notin Gate!IndexTimestamps /\ out[Compared + 1] \in MP!Event
      BY <1>3, <1>9, <2>2, <3>1, MergeFacts DEF Evt
    <3>3. QED
      BY <1>1, <1>2, <1>4, <3>1, <3>2, FilterGrows DEF IInv
  <2>3. QED
    BY <1>6, <2>1, <2>2
<1>11. ASSUME Regular
       PROVE  \A t \in Gate!IndexTimestamps : \E k \in 1..Compared : out[k].ts = t
  <2> SUFFICES ASSUME NEW t \in Gate!IndexTimestamps
               PROVE  \E k \in 1..Compared : out[k].ts = t
    OBVIOUS
  <2>1. PICK s \in Streams : \E i \in Records(s) : Rec(s, i) = t
    BY IndexMembers DEF Carrying
  <2>2. PICK i \in Records(s) : Rec(s, i) = t
    BY <2>1
  <2>3. i \in 1..taken[s]
    BY <1>8, <2>2 DEF Records
  <2>4. join = "compare"
    BY <1>3, <1>6, <2>2, <2>3 DEF HeadOK, JoinOK
  <2>5. PICK j \in 1..Len(input[s].dgs) :
          /\ input[s].dgs[j].ts = t
          /\ j <= at[s] => \E k \in 1..Len(out) : out[k].ts = t
    BY <1>11, <2>2, IndexedCameOut
  <2>6. j <= at[s]
    <3>1. ASSUME ~(j <= at[s])
          PROVE  FALSE
      <4>1. j \in (at[s] + 1)..Len(input[s].dgs)
        BY <1>3, <3>1, MergeFacts
      <4>2. Evt.ts <= t
        BY <1>3, <1>9, <2>4, <2>5, <4>1, MergeFacts DEF Evt
      <4>3. QED
        BY <1>9, <2>4, <4>2
    <3>2. QED
      BY <3>1
  <2>7. PICK k \in 1..Len(out) : out[k].ts = t
    BY <2>5, <2>6
  <2>8. k # Len(out)
    BY <1>9, <2>4, <2>7 DEF Evt
  <2>9. QED
    BY <1>9, <2>4, <2>7, <2>8
<1>12. RegularYieldsTheIndex'
  <2>1. ASSUME Regular
        PROVE  /\ {yielded[i].ts : i \in 1..Len(yielded)} = Gate!IndexTimestamps
               /\ ~Gate!IndexRaises
    <3>1. {yielded[i].ts : i \in 1..Len(yielded)} = Gate!IndexTimestamps
      BY <1>11, <2>1, DeliversTheIndex
    <3>2. ~Gate!IndexRaises
      BY <1>2, <1>8, <2>1 DEF Gate!IndexRaises, Gate!Refuses, Regular
    <3>3. QED
      BY <3>1, <3>2
  <2>2. Gate!IndexRaises' = Gate!IndexRaises /\ (Regular' <=> Regular)
    BY <1>2, <1>4 DEF Gate!IndexRaises, Regular
  <2>3. QED
    BY <1>1, <1>2, <2>1, <2>2, SourceDecides DEF RegularYieldsTheIndex, YieldsTheIndex
<1>13. QED
  BY <1>1, <1>2, <1>4, <1>5, <1>7, <1>10, <1>12, HistoryKept DEF IInv

LEMMA MergeEndsPreserves ==
  ASSUME IInv, MergeEnds
  PROVE  IInv'
<1>1. /\ join \in {"pull", "suspended"} /\ MP!Exhausted /\ Gate!GateClose
      /\ join' = "done" /\ UNCHANGED <<head, yielded>>
  BY SameMerge DEF MergeEnds, Finish, Pulling
<1>2. /\ UNCHANGED <<source, timing, taken>>
      /\ gate' = IF gate = "open" THEN "closed" ELSE gate
      /\ UNCHANGED <<input, at, out>> /\ status' = "done"
      /\ MP!Refusing = {} /\ MP!Live = {}
  BY <1>1 DEF Gate!GateClose, MP!Exhausted
<1>3. GateTypes /\ Swept /\ HeadOK /\ JoinOK /\ MP!IInv
  BY DEF IInv
<1>4. gate = "open" /\ gate' = "closed"
  BY <1>1, <1>2, <1>3 DEF JoinOK
<1>5. MP!IInv'
  BY <1>1, <1>3, MergeAssumptions, MP!StopPreserves
<1>6. GateTypes' /\ Swept' /\ HeadOK'
  BY <1>1, <1>2, <1>3, <1>4, GateKept
<1>7. JoinOK'
  BY <1>1, <1>2, <1>4 DEF JoinOK
<1>8. Compared = Len(out) /\ Compared' = Compared
  BY <1>1, <1>2, <1>4 DEF Compared
<1>9. ASSUME Regular, NEW s \in Streams, NEW i \in Records(s)
      PROVE  \E k \in 1..Compared : out[k].ts = Rec(s, i)
  <2>1. \A j \in 1..Len(input[s].dgs) : j <= at[s]
    BY <1>2, <1>3, MergeFacts DEF MP!Live
  <2>2. QED
    BY <1>8, <1>9, <2>1, IndexedCameOut
<1>10. ASSUME Regular
       PROVE  ~Gate!IndexRaises
  <2>1. ASSUME NEW s \in Streams, source[s].stop = "raised"
        PROVE  FALSE
    <3>1. /\ head \in Nat /\ taken[s] < Len(source[s].ts)
          /\ \A j \in (taken[s] + 1)..Len(source[s].ts) : head < Rec(s, j)
          /\ \A k \in 1..Compared : out[k].ts <= head
      BY <1>1, <1>3, <2>1 DEF HeadOK, JoinOK
    <3>2. taken[s] + 1 \in Records(s) /\ taken[s] + 1 \in (taken[s] + 1)..Len(source[s].ts)
      BY <1>3, <3>1, RecordFacts DEF Records
    <3>3. PICK k \in 1..Compared : out[k].ts = Rec(s, taken[s] + 1)
      BY <1>9, <1>10, <3>2
    <3>4. head < Rec(s, taken[s] + 1) /\ Rec(s, taken[s] + 1) <= head
      BY <3>1, <3>2, <3>3
    <3>5. Rec(s, taken[s] + 1) \in Nat
      BY <1>3, <3>2, RecordFacts
    <3>6. QED
      BY <3>1, <3>4, <3>5
  <2>2. QED
    BY <1>10, <2>1 DEF Gate!IndexRaises, Regular
<1>11. RegularYieldsTheIndex'
  <2>1. ASSUME Regular
        PROVE  {yielded[i].ts : i \in 1..Len(yielded)} = Gate!IndexTimestamps
    <3>1. ASSUME NEW t \in Gate!IndexTimestamps
          PROVE  \E k \in 1..Compared : out[k].ts = t
      <4>1. PICK s \in Streams : \E i \in Records(s) : Rec(s, i) = t
        BY IndexMembers DEF Carrying
      <4>2. QED
        BY <1>9, <2>1, <4>1
    <3>2. QED
      BY <3>1, DeliversTheIndex
  <2>2. Gate!IndexRaises' = Gate!IndexRaises /\ (Regular' <=> Regular)
    BY <1>2 DEF Gate!IndexRaises, Regular
  <2>3. QED
    BY <1>1, <1>2, <1>10, <2>1, <2>2, SourceDecides DEF RegularYieldsTheIndex, YieldsTheIndex
<1>12. QED
  BY <1>1, <1>2, <1>5, <1>6, <1>7, <1>8, <1>11, HistoryKept DEF IInv

\* The ends without a regular end: an error of either side, or the consumer.
LEMMA FailsPreserves ==
  ASSUME IInv, GateFails \/ MergeFails \/ ConsumerBreak
  PROVE  IInv'
<1>1. GateTypes /\ Swept /\ HeadOK /\ JoinOK /\ MP!IInv
  BY DEF IInv
<1>2. CASE GateFails
  <2>1. /\ GateDue /\ Gate!GateRaises /\ CloseMerge
        /\ join' = "raised" /\ UNCHANGED <<head, yielded>>
    BY <1>2 DEF GateFails, Finish
  <2>2. gate' = "raised" /\ UNCHANGED <<source, timing, taken>>
    BY <2>1 DEF Gate!GateRaises
  <2>3. MP!IInv' /\ UNCHANGED <<input, at, out>>
    BY <1>1, <2>1, MergeKept
  <2>4. GateTypes' /\ Swept' /\ HeadOK'
    BY <1>1, <2>1, <2>2, GateKept
  <2>5. join \in {"start", "compare"} /\ status' = "closed"
    BY <1>1, <2>1, SameMerge DEF GateDue, JoinOK, CloseMerge
  <2>6. JoinOK'
    BY <2>1, <2>2, <2>5 DEF JoinOK
  <2>7. Compared' = Compared
    BY <1>1, <2>1, <2>2, <2>3, <2>5 DEF Compared, JoinOK
  <2>8. RegularYieldsTheIndex'
    BY <2>1 DEF RegularYieldsTheIndex, YieldsTheIndex
  <2>9. QED
    BY <2>1, <2>2, <2>3, <2>4, <2>6, <2>7, <2>8, HistoryKept DEF IInv
<1>3. CASE MergeFails \/ ConsumerBreak
  <2>1. /\ join \in {"pull", "suspended"} /\ Gate!GateClose
        /\ join' \in {"raised", "closed"} /\ UNCHANGED <<head, yielded>>
    BY <1>3 DEF MergeFails, ConsumerBreak, Finish, Pulling
  <2>2. UNCHANGED <<source, timing, taken>> /\ gate = "open" /\ gate' = "closed"
    BY <1>1, <2>1 DEF Gate!GateClose, JoinOK
  <2>3. MP!IInv' /\ UNCHANGED <<input, at, out>> /\ status' \in {"raised", "closed"}
    <3>1. CASE MergeFails
      <4>1. MP!PeekRaises
        BY <3>1, SameMerge DEF MergeFails
      <4>2. QED
        BY <1>1, <4>1, MergeAssumptions, MP!StopPreserves DEF MP!PeekRaises
    <3>2. CASE ConsumerBreak
      <4>1. CloseMerge /\ join = "suspended"
        BY <3>2 DEF ConsumerBreak
      <4>2. status' = "closed"
        BY <1>1, <4>1, SameMerge DEF CloseMerge, JoinOK
      <4>3. QED
        BY <1>1, <4>1, <4>2, MergeKept
    <3>3. QED
      BY <1>3, <3>1, <3>2
  <2>4. GateTypes' /\ Swept' /\ HeadOK'
    BY <1>1, <2>1, <2>2, GateKept
  <2>5. JoinOK'
    BY <2>1, <2>2, <2>3 DEF JoinOK
  <2>6. Compared' = Compared
    BY <2>1, <2>2, <2>3 DEF Compared
  <2>7. RegularYieldsTheIndex'
    BY <2>1 DEF RegularYieldsTheIndex, YieldsTheIndex
  <2>8. QED
    BY <2>1, <2>2, <2>3, <2>4, <2>5, <2>6, <2>7, HistoryKept DEF IInv
<1>4. QED
  BY <1>2, <1>3

-----------------------------------------------------------------------------
(* The turns of the forward merge.                                         *)

\* On a regular run all dgrams of one timestamp have one service, so that
\* an L1Accept is never consumed with a transition.
LEMMA NoneIsSwallowed ==
  ASSUME MP!IInv, NothingSwallowed, UNCHANGED source, MP!YieldEvent \/ MP!SkipTransition
  PROVE  NothingSwallowed'
<1>1. /\ MP!Live # {} /\ MP!Consume /\ UNCHANGED input
      /\ MP!YieldEvent => out' = Append(out, [ts |-> MP!MinTs, svc |-> MP!Service,
                                              streams |-> MP!Joining, dropped |-> dropped'])
      /\ MP!SkipTransition => out' = out /\ MP!Service \notin EventServices
  BY DEF MP!YieldEvent, MP!SkipTransition, MP!PeekRound
<1>2. MP!TypeOK
  BY DEF MP!IInv
<1>3. MP!Joining # {} /\ MP!Joining \subseteq MP!Live /\ MP!Live \subseteq Streams
  BY <1>1, <1>2, MergeAssumptions, MP!MinTsProperties, MP!StreamFacts
<1>4. PICK m \in MP!Joining : MP!Service = MP!HeadOf(m).svc
  <2>1. MP!Joining \subseteq Nat
    BY <1>3, StreamsAssumption
  <2>2. Min(MP!Joining) \in MP!Joining
    BY <1>3, <2>1, MinProperties
  <2>3. MP!Min(MP!Joining) = Min(MP!Joining)
    BY DEF MP!Min, Min
  <2>4. QED
    BY <2>2, <2>3 DEF MP!Service
<1>5. \A s \in MP!Joining :
        /\ s \in Streams /\ at[s] + 1 \in 1..Len(input[s].dgs)
        /\ MP!HeadOf(s) = input[s].dgs[at[s] + 1] /\ MP!HeadOf(s).ts = MP!MinTs
  BY <1>3, MergeFacts DEF MP!Joining, MP!Live, MP!HeadOf
<1>6. /\ Len(out) \in Nat
      /\ \A k \in 1..Len(out) : k \in 1..Len(out') /\ out'[k] = out[k]
      /\ MP!YieldEvent => Len(out) + 1 \in 1..Len(out') /\ out'[Len(out) + 1].ts = MP!MinTs
  <2>1. out \in Seq(MP!Event)
    BY MergeFacts
  <2>2. CASE MP!YieldEvent
    BY <1>1, <2>1, <2>2
  <2>3. CASE MP!SkipTransition
    <3>1. out' = out /\ ~MP!YieldEvent
      BY <1>1, <2>3 DEF MP!YieldEvent
    <3>2. QED
      BY <2>1, <3>1
  <2>4. QED
    BY <2>2, <2>3
<1>7. ASSUME Regular, NEW s \in Streams, NEW i \in 1..at'[s], input[s].dgs[i].svc = L1Accept
      PROVE  \E k \in 1..Len(out') : out'[k].ts = input[s].dgs[i].ts
  <2>1. at'[s] = IF s \in MP!Joining THEN at[s] + 1 ELSE at[s]
    BY <1>1 DEF MP!Consume
  <2>2. CASE i \in 1..at[s]
    <3>1. PICK k \in 1..Len(out) : out[k].ts = input[s].dgs[i].ts
      BY <1>7, <2>2 DEF NothingSwallowed
    <3>2. QED
      BY <1>6, <3>1
  <2>3. CASE i \notin 1..at[s]
    <3>1. s \in MP!Joining /\ i = at[s] + 1
      BY <2>1, <2>3, MergeFacts
    <3>2. input[s].dgs[i].ts = MP!MinTs /\ i \in 1..Len(input[s].dgs)
      BY <1>5, <3>1
    <3>3. MP!Service = L1Accept
      <4>1. /\ m \in Streams /\ at[m] + 1 \in 1..Len(input[m].dgs)
            /\ input[m].dgs[at[m] + 1].ts = MP!MinTs
            /\ MP!Service = input[m].dgs[at[m] + 1].svc
        BY <1>4, <1>5
      <4>2. input[s].dgs[i].ts = input[m].dgs[at[m] + 1].ts
        BY <3>2, <4>1
      <4>3. IF s = m THEN i = at[m] + 1 ELSE input[s].dgs[i].svc = input[m].dgs[at[m] + 1].svc
        BY <1>7, <3>2, <4>1, <4>2 DEF Regular
      <4>4. QED
        BY <1>7, <4>1, <4>3
    <3>4. MP!YieldEvent
      BY <1>1, <3>3, ServicesAssumption
    <3>5. QED
      BY <1>6, <3>2, <3>4
  <2>4. QED
    BY <2>2, <2>3
<1>8. Regular' <=> Regular
  BY <1>1 DEF Regular
<1>9. QED
  BY <1>1, <1>7, <1>8 DEF NothingSwallowed

LEMMA PullPreserves ==
  ASSUME IInv, PullEvent \/ PullTransition
  PROVE  IInv'
<1>1. /\ join \in {"pull", "suspended"} /\ UNCHANGED <<source, timing, taken, gate, head, yielded>>
      /\ MP!YieldEvent \/ MP!SkipTransition
      /\ MP!YieldEvent => PullEvent
      /\ PullEvent => MP!YieldEvent /\ join' = "compare"
      /\ MP!SkipTransition => join' = "pull"
  BY SameMerge DEF PullEvent, PullTransition, Pulling, gateVars, MP!YieldEvent, MP!SkipTransition
<1>2. GateTypes /\ Swept /\ HeadOK /\ JoinOK /\ MP!IInv
  BY DEF IInv
<1>3. gate = "open" /\ gate' = "open" /\ head # None /\ head' = head
  BY <1>1, <1>2 DEF JoinOK
<1>4. GateTypes' /\ Swept' /\ HeadOK'
  BY <1>1, <1>2, <1>3, GateKept
<1>5. MP!IInv' /\ NothingSwallowed'
  <2>1. MP!IInv'
    BY <1>1, <1>2, MergeAssumptions, MP!YieldPreserves, MP!SkipPreserves
  <2>2. QED
    BY <1>1, <1>2, <2>1, NoneIsSwallowed DEF IInv
<1>6. out \in Seq(MP!Event) /\ Len(out) \in Nat
  BY <1>2, MergeFacts
<1>7. /\ \A i \in 1..Len(out) : i \in 1..Len(out') /\ out'[i] = out[i]
      /\ MP!YieldEvent => Len(out') = Len(out) + 1 /\ out' # <<>> /\ status' = "suspended"
      /\ MP!SkipTransition => out' = out /\ status' = "running"
  <2>1. CASE MP!YieldEvent
    <3>1. \E e : out' = Append(out, e)
      BY <2>1 DEF MP!YieldEvent
    <3>2. status' = "suspended" /\ ~MP!SkipTransition
      BY <2>1 DEF MP!YieldEvent, MP!SkipTransition
    <3>3. QED
      BY <1>6, <3>1, <3>2
  <2>2. CASE MP!SkipTransition
    <3>1. out' = out /\ status' = "running" /\ ~MP!YieldEvent
      BY <2>2 DEF MP!YieldEvent, MP!SkipTransition
    <3>2. QED
      BY <1>6, <3>1
  <2>3. QED
    BY <1>1, <2>1, <2>2
<1>8. Compared = Len(out) /\ Compared' = Compared
  <2>1. Compared = Len(out)
    BY <1>1, <1>3 DEF Compared
  <2>2. CASE MP!YieldEvent
    BY <1>1, <1>3, <1>6, <1>7, <2>1, <2>2 DEF Compared
  <2>3. CASE MP!SkipTransition
    BY <1>1, <1>3, <1>7, <2>1, <2>3 DEF Compared
  <2>4. QED
    BY <1>1, <2>1, <2>2, <2>3
<1>9. JoinOK'
  <2>1. \A i \in 1..Compared' : out'[i].ts <= head'
    BY <1>1, <1>2, <1>3, <1>7, <1>8 DEF JoinOK
  <2>2. CASE MP!YieldEvent
    BY <1>1, <1>3, <1>7, <2>1, <2>2 DEF JoinOK
  <2>3. CASE MP!SkipTransition
    BY <1>1, <1>3, <1>7, <2>1, <2>3 DEF JoinOK
  <2>4. QED
    BY <1>1, <2>2, <2>3
<1>10. InLockstep'
  <2>1. \A t \in Gate!IndexTimestamps : t < head => \E i \in 1..Len(out') : t < out'[i].ts
    BY <1>3, <1>7 DEF IInv, InLockstep
  <2>2. QED
    BY <1>1, <2>1, SourceDecides DEF InLockstep
<1>11. JoinIsFilter'
  BY <1>1, <1>6, <1>7, <1>8, FilterKept DEF IInv
<1>12. OnlyIndexed' /\ yielded' \in Seq(MP!Event)
  BY <1>1, SourceDecides DEF IInv, OnlyIndexed
<1>13. RegularYieldsTheIndex'
  BY <1>1 DEF RegularYieldsTheIndex, YieldsTheIndex
<1>14. QED
  BY <1>4, <1>5, <1>9, <1>10, <1>11, <1>12, <1>13 DEF IInv

-----------------------------------------------------------------------------
(* The comparison.                                                         *)

LEMMA ComparePreserves ==
  ASSUME IInv, GateIn \/ GateOut
  PROVE  IInv'
<1>1. /\ join = "compare" /\ UNCHANGED mergeVars /\ UNCHANGED gateVars /\ head' = head
      /\ GateIn => head = Evt.ts /\ yielded' = Append(yielded, Evt) /\ join' = "suspended"
      /\ GateOut => head > Evt.ts /\ yielded' = yielded /\ join' = "pull"
  BY DEF GateIn, GateOut
<1>2. UNCHANGED <<source, timing, taken, gate, input, at, out, status>>
  BY <1>1 DEF mergeVars, gateVars
<1>3. GateTypes /\ Swept /\ HeadOK /\ JoinOK /\ InLockstep /\ MP!IInv
  BY DEF IInv
<1>4. /\ out # <<>> /\ gate = "open" /\ status = "suspended"
      /\ head # None /\ head \in Nat /\ head \in Gate!IndexTimestamps
      /\ \A i \in 1..Compared : out[i].ts <= head
  BY <1>1, <1>3 DEF JoinOK, HeadOK
<1>5. /\ Len(out) \in 1..Len(out) /\ Compared = Len(out) - 1 /\ Compared \in Nat
      /\ Compared' = Compared + 1 /\ Compared + 1 = Len(out)
  <2>1. Len(out) \in 1..Len(out) /\ Len(out) \in Nat /\ Compared = Len(out) - 1
    BY <1>1, <1>4, ComparedBounds DEF Compared
  <2>2. join' # "compare" /\ gate' # "raised"
    BY <1>1, <1>2, <1>4
  <2>3. Compared' = Len(out)
    BY <1>2, <2>2 DEF Compared
  <2>4. QED
    BY <2>1, <2>3
<1>6. /\ Evt \in MP!Event /\ Evt.ts \in Nat /\ Evt = out[Compared + 1]
      /\ \A i \in 1..Len(out) : out[i].ts \in Nat /\ out[i].ts <= Evt.ts
  BY <1>3, <1>5, MergeFacts DEF Evt
\* Behind the head, what is not the head is not in the index: an indexed
\* timestamp before the head lies before the last event.
<1>7. GateOut => Evt.ts \notin Gate!IndexTimestamps
  <2>1. ASSUME GateOut, Evt.ts \in Gate!IndexTimestamps
        PROVE  FALSE
    <3>1. Evt.ts < head
      BY <1>1, <1>4, <1>6, <2>1
    <3>2. PICK i \in 1..Len(out) : Evt.ts < out[i].ts
      BY <1>3, <1>4, <2>1, <3>1 DEF InLockstep
    <3>3. QED
      BY <1>6, <3>2
  <2>2. QED
    BY <2>1
<1>8. yielded \in Seq(MP!Event) /\ JoinIsFilter /\ OnlyIndexed
  BY DEF IInv
<1>9. yielded' = IF Evt.ts \in Gate!IndexTimestamps THEN Append(yielded, Evt) ELSE yielded
  <2>1. CASE GateIn
    BY <1>1, <1>4, <2>1
  <2>2. CASE GateOut
    BY <1>1, <1>7, <2>2
  <2>3. QED
    BY <2>1, <2>2
<1>10. JoinIsFilter' /\ yielded' \in Seq(MP!Event)
  BY <1>2, <1>5, <1>6, <1>8, <1>9, FilterGrows
<1>11. OnlyIndexed'
  <2>1. CASE Evt.ts \in Gate!IndexTimestamps
    <3>1. /\ Len(yielded) \in Nat /\ Len(yielded') = Len(yielded) + 1
          /\ yielded'[Len(yielded) + 1] = Evt
          /\ \A k \in 1..Len(yielded) : yielded'[k] = yielded[k]
      BY <1>8, <1>9, <2>1
    <3>2. \A k \in 1..Len(yielded') : yielded'[k].ts \in Gate!IndexTimestamps
      BY <1>8, <2>1, <3>1 DEF OnlyIndexed
    <3>3. QED
      BY <1>2, <3>2, SourceDecides DEF OnlyIndexed
  <2>2. CASE Evt.ts \notin Gate!IndexTimestamps
    BY <1>2, <1>8, <1>9, <2>2, SourceDecides DEF OnlyIndexed
  <2>3. QED
    BY <2>1, <2>2
<1>12. MP!IInv'
  BY <1>1, <1>3, MergeKept
<1>13. GateTypes' /\ Swept' /\ HeadOK'
  BY <1>1, <1>2, <1>3, <1>4, GateKept
<1>14. JoinOK'
  <2>1. Evt.ts <= head
    BY <1>1, <1>4, <1>6
  <2>2. \A i \in 1..Compared' : out'[i].ts <= head'
    BY <1>1, <1>2, <1>4, <1>5, <1>6, <2>1
  <2>3. join' \in {"pull", "suspended"}
    BY <1>1
  <2>4. QED
    BY <1>1, <1>2, <1>4, <2>2, <2>3 DEF JoinOK
<1>15. InLockstep' /\ NothingSwallowed'
  <2>1. InLockstep'
    BY <1>1, <1>2, <1>3, SourceDecides DEF InLockstep
  <2>2. Regular' <=> Regular
    BY <1>2 DEF Regular
  <2>3. QED
    BY <1>2, <2>1, <2>2 DEF IInv, NothingSwallowed
<1>16. RegularYieldsTheIndex'
  BY <1>1 DEF RegularYieldsTheIndex, YieldsTheIndex
<1>17. QED
  BY <1>10, <1>11, <1>12, <1>13, <1>14, <1>15, <1>16 DEF IInv

LEMMA StutterPreserves ==
  ASSUME IInv, UNCHANGED vars
  PROVE  IInv'
<1>1. UNCHANGED mergeVars /\ UNCHANGED gateVars /\ UNCHANGED joinVars
  BY DEF vars
<1>2. UNCHANGED <<source, timing, taken, gate, input, at, out, status, head, yielded, join>>
  BY <1>1 DEF mergeVars, gateVars, joinVars
<1>3. GateTypes /\ Swept /\ HeadOK /\ JoinOK /\ MP!IInv
  BY DEF IInv
<1>4. MP!IInv'
  BY <1>1, <1>3, MergeKept
<1>5. GateTypes' /\ Swept' /\ HeadOK'
  BY <1>2, <1>3, GateKept DEF GateTypes
<1>6. Compared' = Compared
  BY <1>2 DEF Compared
<1>7. JoinOK'
  BY <1>2, <1>3, <1>6 DEF JoinOK
<1>8. RegularYieldsTheIndex'
  <2>1. Gate!IndexRaises' = Gate!IndexRaises /\ (Regular' <=> Regular)
    BY <1>2 DEF Gate!IndexRaises, Regular
  <2>2. QED
    BY <1>2, <2>1, SourceDecides DEF IInv, RegularYieldsTheIndex, YieldsTheIndex
<1>9. QED
  BY <1>2, <1>4, <1>5, <1>6, <1>7, <1>8, HistoryKept DEF IInv

LEMMA NextPreserves == IInv /\ [Next]_vars => IInv'
BY AdvancePreserves, SkipPreserves, GateEndsPreserves, MergeEndsPreserves, FailsPreserves,
   PullPreserves, ComparePreserves, StutterPreserves DEF Next, Step

LEMMA InitEstablishes == Init => IInv
<1> SUFFICES ASSUME Init
             PROVE  IInv
  OBVIOUS
<1>1. PICK r \in Runs : input = r.streams /\ source = r.source /\ timing = r.timing
  BY DEF Init
<1>2. /\ taken = [s \in Streams |-> 0] /\ gate = "open" /\ head = None
      /\ yielded = <<>> /\ join = "start" /\ MP!Begin
  BY SameMerge DEF Init, Gate!GateInit
<1>3. out = <<>> /\ at = [s \in Streams |-> 0] /\ status = "suspended"
  BY <1>2 DEF MP!Begin
<1>4. MP!IInv
  <2>1. MP!Init
    BY <1>1, <1>2 DEF MP!Init
  <2>2. QED
    BY <2>1, MergeAssumptions, MP!InitEstablishes
<1>5. \A s \in Streams : taken[s] = 0 /\ at[s] = 0
  BY <1>2, <1>3
<1>6. GateTypes
  <2>1. /\ source \in [Streams -> Gate!Source] /\ timing \subseteq Streams
        /\ \A s \in Streams : Gate!AscendingTs(source[s].ts)
    BY <1>1, RunsAssumption
  <2>2. \A s \in Streams : Len(source[s].ts) \in Nat
    BY <2>1 DEF Gate!Source
  <2>3. QED
    BY <1>2, <1>5, <2>1, <2>2 DEF GateTypes
<1>7. Swept /\ HeadOK
  BY <1>2, <1>5 DEF Swept, HeadOK
<1>8. Compared = 0
  BY <1>2, <1>3 DEF Compared
<1>9. JoinOK
  BY <1>2, <1>3 DEF JoinOK
<1>10. InLockstep /\ NothingSwallowed /\ RegularYieldsTheIndex
  BY <1>2, <1>5 DEF InLockstep, NothingSwallowed, RegularYieldsTheIndex, YieldsTheIndex
<1>11. yielded \in Seq(MP!Event) /\ OnlyIndexed
  BY <1>2 DEF OnlyIndexed
<1>12. JoinIsFilter
  <2>1. Indexed(0) = {}
    BY DEF Indexed
  <2>2. Cardinality(Indexed(0)) = 0
    BY <2>1, FS_EmptySet
  <2>3. QED
    BY <1>2, <1>8, <2>1, <2>2 DEF JoinIsFilter
<1>13. QED
  BY <1>4, <1>6, <1>7, <1>9, <1>10, <1>11, <1>12 DEF IInv

-----------------------------------------------------------------------------
\* The invariant holds in every gated iteration, over any run.
THEOREM Inductive == Spec => []IInv
BY InitEstablishes, NextPreserves, PTL DEF Spec

\* What Run.events(gate=True) has yielded is, at every moment, the forward
\* stream filtered by the index of the whole run.
THEOREM AlwaysTheFilter == Spec => []JoinIsFilter
<1>1. IInv => JoinIsFilter
  BY DEF IInv
<1>2. QED
  BY <1>1, Inductive, PTL

\* A gated iteration over a regular run that ends without an error has
\* delivered the whole index, even where files are cut.
THEOREM AlwaysYieldsTheIndex == Spec => []RegularYieldsTheIndex
<1>1. IInv => RegularYieldsTheIndex
  BY DEF IInv
<1>2. QED
  BY <1>1, Inductive, PTL

\* The gate is never read past the first indexed timestamp at or behind the
\* last forward event.
THEOREM AlwaysInLockstep == Spec => []InLockstep
<1>1. IInv => InLockstep
  BY DEF IInv
<1>2. QED
  BY <1>1, Inductive, PTL

\* However the join ends, both generators are closed behind it.
THEOREM AlwaysReleasesBoth == Spec => []ReleasesBoth
<1>1. IInv => ReleasesBoth
  BY SameMerge DEF IInv, JoinOK, ReleasesBoth
<1>2. QED
  BY <1>1, Inductive, PTL
=============================================================================
