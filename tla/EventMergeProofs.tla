-------------------------- MODULE EventMergeProofs --------------------------
(***************************************************************************)
(* For any number of streams, whatever they hold: the events ascend in     *)
(* time, a drop-out is final, and a cut stream is never taken for one.     *)
(***************************************************************************)
EXTENDS EventMerge, TLAPS, FiniteSetTheorems, SequenceTheorems

\* A non-empty set of naturals has a least element, and Min finds it.
LEMMA MinProperties ==
  ASSUME NEW T, T \subseteq Nat, T # {}
  PROVE  Min(T) \in T /\ \A y \in T : Min(T) <= y
<1> DEFINE R == OpToRel(<, Nat)
<1>1. IsWellFoundedOn(R, Nat)
  BY NatLessThanWellFounded
<1>2. \A x, y \in Nat : x < y => <<x, y>> \in R
  BY DEF OpToRel
<1> HIDE DEF R
<1>3. PICK x \in T : \A y \in T : ~ (<<y, x>> \in R)
  BY <1>1, WFMin
<1>4. \A y \in T : x \in Nat /\ y \in Nat /\ ~ (y < x)
  BY <1>2, <1>3
<1>5. \A y \in T : x <= y
  BY <1>4
<1>6. QED
  BY <1>5 DEF Min

LEMMA MinOfOne ==
  ASSUME NEW n \in Nat
  PROVE  Min({n}) = n
<1>1. {n} \subseteq Nat /\ {n} # {}
  OBVIOUS
<1>2. Min({n}) \in {n}
  BY <1>1, MinProperties
<1>3. QED
  BY <1>2

\* What the merge remembers of the streams that ran dry: they have no head
\* left, they ended regularly, and every event so far knew no others.
DroppedAreDry ==
  /\ \A s \in dropped : s \notin Live /\ input[s].stop = "ended"
  /\ \A i \in 1..Len(out) : out[i].dropped \subseteq dropped

\* The inductive invariant.  An event is compared with the heads still
\* waiting (in AscendingEvents) and with the drop-outs of now (here).
IInv ==
  /\ TypeOK
  /\ AscendingEvents
  /\ DroppedAreDry
  /\ DropOutIsFinal

-----------------------------------------------------------------------------
\* The facts about a stream that the steps use.
LEMMA StreamFacts ==
  ASSUME TypeOK
  PROVE  /\ Live \subseteq Streams /\ Refusing \subseteq Streams
         /\ \A s \in Streams :
              /\ at[s] \in Nat /\ Len(input[s].dgs) \in Nat
              /\ at[s] <= Len(input[s].dgs)
              /\ input[s].stop \in {"ended", "raised"}
              /\ \A i \in 1..Len(input[s].dgs) : input[s].dgs[i] \in Dgram
              /\ \A i, j \in 1..Len(input[s].dgs) :
                   i <= j => input[s].dgs[i].ts <= input[s].dgs[j].ts
         /\ \A s \in Live : HeadOf(s).ts \in Nat /\ HeadOf(s) \in Dgram
<1>1. input \in [Streams -> Input] /\ \A s \in Streams : Ascending(input[s].dgs)
  BY InputsAssumption DEF TypeOK
<1>2. at \in [Streams -> Nat] /\ \A s \in Streams : at[s] <= Len(input[s].dgs)
  BY DEF TypeOK, LocalsOK
<1>3. \A s \in Streams : input[s].dgs \in Seq(Dgram) /\ input[s].stop \in {"ended", "raised"}
  BY <1>1 DEF Input
<1>4. ASSUME NEW s \in Streams
      PROVE  /\ at[s] \in Nat /\ Len(input[s].dgs) \in Nat
             /\ \A i \in 1..Len(input[s].dgs) : input[s].dgs[i] \in Dgram
             /\ \A i, j \in 1..Len(input[s].dgs) :
                  i <= j => input[s].dgs[i].ts <= input[s].dgs[j].ts
  BY <1>1, <1>2, <1>3 DEF Ascending
<1>5. ASSUME NEW s \in Live
      PROVE  HeadOf(s) \in Dgram /\ HeadOf(s).ts \in Nat
  <2>1. s \in Streams /\ at[s] < Len(input[s].dgs)
    BY DEF Live
  <2>2. at[s] + 1 \in 1..Len(input[s].dgs)
    BY <2>1, <1>4
  <2>3. QED
    BY <2>1, <2>2, <1>4 DEF HeadOf, Dgram
<1>6. QED
  BY <1>2, <1>3, <1>4, <1>5 DEF Live, Refusing

\* The smallest head belongs to a live stream, and no head lies before it.
LEMMA MinTsProperties ==
  ASSUME TypeOK, Live # {}
  PROVE  /\ MinTs \in Nat
         /\ \E s \in Live : MinTs = HeadOf(s).ts
         /\ \A s \in Live : MinTs <= HeadOf(s).ts
         /\ Joining # {} /\ Joining \subseteq Live
<1> DEFINE T == {HeadOf(s).ts : s \in Live}
<1>1. T \subseteq Nat /\ T # {}
  BY StreamFacts
<1>2. MinTs = Min(T)
  BY DEF MinTs
<1> HIDE DEF T
<1>3. MinTs \in T /\ \A y \in T : MinTs <= y
  BY <1>1, <1>2, MinProperties
<1>4. QED
  BY <1>1, <1>3 DEF T, Joining

\* Consuming the joining heads leaves every stream in order: no stream comes
\* alive again, and what waits now does not lie before the event.
LEMMA ConsumeAdvances ==
  ASSUME TypeOK, Live # {}, Consume, UNCHANGED input
  PROVE  /\ at' \in [Streams -> Nat]
         /\ \A s \in Streams : at'[s] <= Len(input'[s].dgs)
         /\ Live' \subseteq Live
         /\ \A s \in Live' : HeadOf(s)'.ts \in Nat /\ MinTs <= HeadOf(s)'.ts
<1>1. at' \in [Streams -> Nat] /\ \A s \in Streams : at'[s] \in {at[s], at[s] + 1}
  <2>1. \A s \in Streams : (IF s \in Joining THEN at[s] + 1 ELSE at[s]) \in Nat
    BY StreamFacts
  <2>2. QED
    BY <2>1 DEF Consume
<1>2. ASSUME NEW s \in Streams
      PROVE  at'[s] = IF s \in Joining THEN at[s] + 1 ELSE at[s]
  BY DEF Consume
<1>3. ASSUME NEW s \in Joining
      PROVE  s \in Streams /\ at[s] < Len(input[s].dgs) /\ HeadOf(s).ts = MinTs
  BY DEF Joining, Live
<1>4. \A s \in Streams : at'[s] <= Len(input'[s].dgs)
  BY <1>2, <1>3, StreamFacts
<1>5. Live' \subseteq Live
  BY <1>2, StreamFacts DEF Live
<1>6. ASSUME NEW s \in Live'
      PROVE  HeadOf(s)'.ts \in Nat /\ MinTs <= HeadOf(s)'.ts
  <2>1. s \in Streams /\ s \in Live /\ at'[s] < Len(input[s].dgs)
    BY <1>5 DEF Live
  <2>2. CASE s \in Joining
    <3>1. at'[s] = at[s] + 1 /\ HeadOf(s).ts = MinTs
      BY <1>2, <1>3, <2>1, <2>2
    <3>2. at[s] + 1 \in 1..Len(input[s].dgs) /\ at[s] + 2 \in 1..Len(input[s].dgs)
      BY <2>1, <3>1, StreamFacts
    <3>3. input[s].dgs[at[s] + 2].ts \in Nat
      BY <2>1, <3>2, StreamFacts DEF Dgram
    <3>4. input[s].dgs[at[s] + 1].ts <= input[s].dgs[at[s] + 2].ts
      BY <2>1, <3>2, StreamFacts
    <3>5. HeadOf(s)' = input[s].dgs[at[s] + 1 + 1]
      BY <3>1 DEF HeadOf
    <3>6. at[s] + 1 + 1 = at[s] + 2
      BY <2>1, StreamFacts
    <3>7. QED
      BY <3>1, <3>3, <3>4, <3>5, <3>6 DEF HeadOf
  <2>3. CASE s \notin Joining
    <3>1. HeadOf(s)' = HeadOf(s)
      BY <1>2, <2>1, <2>3 DEF HeadOf
    <3>2. QED
      BY <3>1, <2>1, MinTsProperties, StreamFacts
  <2>4. QED
    BY <2>2, <2>3
<1>7. QED
  BY <1>1, <1>4, <1>5, <1>6

-----------------------------------------------------------------------------
LEMMA InitEstablishes == Init => IInv
<1> SUFFICES ASSUME Init
             PROVE  IInv
  OBVIOUS
<1> USE DEF Init, Begin
<1>1. input \in [Streams -> Input]
  BY InputsAssumption
<1>2. \A s \in Streams : Len(input[s].dgs) \in Nat
  BY <1>1 DEF Input
<1>3. TypeOK
  BY <1>2 DEF TypeOK, LocalsOK
<1>4. QED
  BY <1>3 DEF IInv, AscendingEvents, DroppedAreDry, DropOutIsFinal

\* The peek round only reports streams that are dry and whole.
LEMMA PeekRoundDrops ==
  ASSUME IInv, PeekRound
  PROVE  /\ everLive' \subseteq Streams /\ dropped' \subseteq Streams
         /\ dropped \subseteq dropped'
         /\ \A s \in dropped' : s \notin Live /\ input[s].stop = "ended"
<1>1. TypeOK /\ DroppedAreDry
  BY DEF IInv
<1>2. everLive \subseteq Streams /\ dropped \subseteq Streams
  BY <1>1 DEF TypeOK, LocalsOK
<1>3. \A s \in Streams \ Live : input[s].stop = "ended"
  BY <1>1, StreamFacts DEF PeekRound, Refusing
<1>4. QED
  BY <1>1, <1>2, <1>3, StreamFacts DEF PeekRound, DroppedAreDry

LEMMA YieldPreserves ==
  ASSUME IInv, YieldEvent
  PROVE  IInv'
<1> DEFINE e == [ts |-> MinTs, svc |-> Service, streams |-> Joining, dropped |-> dropped']
<1>1. /\ PeekRound /\ Consume /\ Live # {} /\ Service \in EventServices
      /\ out' = Append(out, e) /\ status' = "suspended" /\ input' = input
  BY DEF YieldEvent, PeekRound
<1>2. TypeOK /\ AscendingEvents /\ DroppedAreDry /\ DropOutIsFinal
  BY DEF IInv
<1>3. out \in Seq(Event)
  BY <1>2 DEF TypeOK, LocalsOK
<1>4. e \in Event
  BY <1>1, <1>2, MinTsProperties, StreamFacts, PeekRoundDrops DEF Event
<1> HIDE DEF e
<1>5. /\ Len(out) \in Nat /\ Len(out') = Len(out) + 1
      /\ out'[Len(out) + 1] = e
      /\ \A i \in 1..Len(out) : out'[i] = out[i] /\ out[i] \in Event
      /\ out' \in Seq(Event)
  BY <1>1, <1>3, <1>4
<1>6. \A i \in 1..Len(out') : i \in 1..Len(out) \/ i = Len(out) + 1
  BY <1>5
<1>7. Live' \subseteq Live /\ \A s \in Live' : HeadOf(s)'.ts \in Nat /\ MinTs <= HeadOf(s)'.ts
  BY <1>1, <1>2, ConsumeAdvances
<1>8. TypeOK'
  BY <1>1, <1>2, <1>5, ConsumeAdvances, PeekRoundDrops DEF TypeOK, LocalsOK, Event
<1>9. AscendingEvents'
  <2>1. \A i \in 1..Len(out) : out[i].ts \in Nat /\ out[i].ts <= e.ts
    BY <1>1, <1>2, <1>5, MinTsProperties DEF AscendingEvents, Event, e
  <2>2. e.ts = MinTs /\ e.ts \in Nat
    BY <1>1, <1>2, MinTsProperties DEF e
  <2>3. \A i \in 1..Len(out') : out'[i].ts \in Nat /\ out'[i].ts <= e.ts
    BY <1>5, <1>6, <2>1, <2>2
  <2>4. ASSUME NEW i \in 1..Len(out'), NEW j \in 1..Len(out'), i <= j
        PROVE  out'[i].ts <= out'[j].ts
    BY <1>2, <1>5, <1>6, <2>3, <2>4 DEF AscendingEvents
  <2>5. ASSUME NEW i \in 1..Len(out'), NEW s \in Live'
        PROVE  out'[i].ts <= HeadOf(s)'.ts
    BY <1>7, <2>2, <2>3
  <2>6. QED
    BY <2>4, <2>5 DEF AscendingEvents
<1>10. DroppedAreDry'
  <2>1. \A s \in dropped' : s \notin Live' /\ input'[s].stop = "ended"
    BY <1>1, <1>7, PeekRoundDrops
  <2>2. \A i \in 1..Len(out') : out'[i].dropped \subseteq dropped'
    BY <1>1, <1>2, <1>5, <1>6, PeekRoundDrops DEF DroppedAreDry, e
  <2>3. QED
    BY <2>1, <2>2 DEF DroppedAreDry
<1>11. DropOutIsFinal'
  <2>1. e.dropped = dropped' /\ e.streams \subseteq Live
    BY <1>1, <1>2, MinTsProperties DEF e
  <2>2. e.dropped \cap e.streams = {}
    BY <1>1, <2>1, PeekRoundDrops
  <2>3. \A i \in 1..Len(out) : out[i].dropped \subseteq e.dropped
                               /\ out[i].dropped \cap e.streams = {}
    BY <1>1, <1>2, <2>1, PeekRoundDrops DEF DroppedAreDry
  <2>4. ASSUME NEW i \in 1..Len(out'), NEW j \in 1..Len(out'), i <= j
        PROVE  out'[i].dropped \subseteq out'[j].dropped
               /\ out'[i].dropped \cap out'[j].streams = {}
    <3>1. CASE j = Len(out) + 1
      BY <1>5, <1>6, <2>2, <2>3, <3>1
    <3>2. CASE j \in 1..Len(out)
      BY <1>2, <1>5, <1>6, <2>4, <3>2 DEF DropOutIsFinal
    <3>3. QED
      BY <1>6, <3>1, <3>2
  <2>5. QED
    BY <2>4 DEF DropOutIsFinal
<1>12. QED
  BY <1>8, <1>9, <1>10, <1>11 DEF IInv

LEMMA SkipPreserves ==
  ASSUME IInv, SkipTransition
  PROVE  IInv'
<1>1. /\ PeekRound /\ Consume /\ Live # {}
      /\ out' = out /\ input' = input /\ status' = "running"
  BY DEF SkipTransition, PeekRound
<1>2. TypeOK /\ AscendingEvents /\ DroppedAreDry /\ DropOutIsFinal
  BY DEF IInv
<1>3. Live' \subseteq Live /\ \A s \in Live' : HeadOf(s)'.ts \in Nat /\ MinTs <= HeadOf(s)'.ts
  BY <1>1, <1>2, ConsumeAdvances
<1>4. TypeOK'
  BY <1>1, <1>2, ConsumeAdvances, PeekRoundDrops DEF TypeOK, LocalsOK, Event
<1>5. AscendingEvents'
  <2>1. ASSUME NEW i \in 1..Len(out), NEW s \in Live'
        PROVE  out[i].ts <= HeadOf(s)'.ts
    <3>1. out \in Seq(Event)
      BY <1>2 DEF TypeOK, LocalsOK
    <3>2. out[i] \in Event
      BY <3>1
    <3>3. out[i].ts \in Nat
      BY <3>2 DEF Event
    <3>4. out[i].ts <= MinTs /\ MinTs \in Nat
      BY <1>1, <1>2, MinTsProperties DEF AscendingEvents
    <3>5. QED
      BY <1>3, <3>3, <3>4
  <2>2. QED
    BY <1>1, <1>2, <2>1 DEF AscendingEvents
<1>6. DroppedAreDry'
  BY <1>1, <1>2, <1>3, PeekRoundDrops DEF DroppedAreDry
<1>7. DropOutIsFinal'
  BY <1>1, <1>2 DEF DropOutIsFinal
<1>8. QED
  BY <1>4, <1>5, <1>6, <1>7 DEF IInv

\* The other steps leave everything but the status alone.
LEMMA StopPreserves ==
  ASSUME IInv, Exhausted \/ PeekRaises \/ ConsumerClose \/ UNCHANGED vars
  PROVE  IInv'
<1>1. UNCHANGED <<input, at, everLive, dropped, out>>
      /\ status' \in {"done", "raised", "closed", status}
  BY DEF Exhausted, PeekRaises, ConsumerClose, vars
<1>2. TypeOK /\ AscendingEvents /\ DroppedAreDry /\ DropOutIsFinal
  BY DEF IInv
<1>3. Live' = Live /\ \A s \in Live : HeadOf(s)' = HeadOf(s)
  BY <1>1 DEF Live, HeadOf
<1>4. TypeOK'
  BY <1>1, <1>2 DEF TypeOK, LocalsOK, Event
<1>5. AscendingEvents' /\ DroppedAreDry' /\ DropOutIsFinal'
  BY <1>1, <1>2, <1>3 DEF AscendingEvents, DroppedAreDry, DropOutIsFinal
<1>6. QED
  BY <1>4, <1>5 DEF IInv

LEMMA NextPreserves == IInv /\ [Next]_vars => IInv'
BY YieldPreserves, SkipPreserves, StopPreserves DEF Next, Iterate

-----------------------------------------------------------------------------
\* The invariant holds in every run of events(), for any streams.
THEOREM Inductive == Spec => []IInv
BY InitEstablishes, NextPreserves, PTL DEF Spec

\* The merge's locals keep their types and no cursor overruns its stream.
THEOREM TypeCorrect == Spec => []TypeOK
<1>1. IInv => TypeOK
  BY DEF IInv
<1>2. QED
  BY <1>1, Inductive, PTL

\* events() yields in ascending time order and leaves no earlier head behind.
THEOREM AlwaysAscending == Spec => []AscendingEvents
<1>1. IInv => AscendingEvents
  BY DEF IInv
<1>2. QED
  BY <1>1, Inductive, PTL

\* A stream reported dropped stays dropped and contributes to no later event.
THEOREM DropOutAlwaysFinal == Spec => []DropOutIsFinal
<1>1. IInv => DropOutIsFinal
  BY DEF IInv
<1>2. QED
  BY <1>1, Inductive, PTL

\* A stream whose files are cut is in no event's set of drop-outs.
THEOREM CutNeverDropOut == Spec => []CutIsNotDropOut
<1>1. IInv => CutIsNotDropOut
  BY DEF IInv, DroppedAreDry, CutIsNotDropOut
<1>2. QED
  BY <1>1, Inductive, PTL
-----------------------------------------------------------------------------
\* The groups of EventBuilder, over the state of the merge.  A dgram lies in
\* the group of its timestamp and of its rank among its stream's dgrams
\* with that timestamp.
Place(s) == 1..Len(input[s].dgs)

TsAt(s, i) == input[s].dgs[i].ts

SameTs(s, i) == {j \in 1..i : TsAt(s, j) = TsAt(s, i)}

GroupOf(s, i) == <<TsAt(s, i), Cardinality(SameTs(s, i))>>

Pairs == Nat \X Nat

Before(g, h) == g[1] < h[1] \/ (g[1] = h[1] /\ g[2] < h[2])

\* Before is a strict total order on pairs of numbers.
LEMMA BeforeOrder ==
  ASSUME NEW g \in Pairs, NEW h \in Pairs, NEW k \in Pairs
  PROVE  /\ g[1] \in Nat /\ g[2] \in Nat /\ ~ Before(g, g)
         /\ Before(g, h) /\ Before(h, k) => Before(g, k)
         /\ Before(g, h) \/ Before(h, g) \/ g = h
         /\ ~ (Before(g, h) /\ Before(h, g))
BY DEF Before, Pairs

LEMMA PlaceFacts ==
  ASSUME TypeOK, NEW s \in Streams, NEW i \in Place(s)
  PROVE  /\ i \in Nat /\ i >= 1 /\ i <= Len(input[s].dgs) /\ Len(input[s].dgs) \in Nat
         /\ at[s] \in Nat /\ at[s] <= Len(input[s].dgs)
         /\ TsAt(s, i) \in Nat
         /\ \A j \in 1..i : j \in Place(s)
         /\ \A j \in Place(s) : i <= j => TsAt(s, i) <= TsAt(s, j)
<1>1. input[s].dgs[i] \in Dgram
  BY StreamFacts DEF Place
<1>2. QED
  BY <1>1, StreamFacts DEF Place, TsAt, Dgram

LEMMA RankFacts ==
  ASSUME TypeOK, NEW s \in Streams, NEW i \in Place(s)
  PROVE  /\ IsFiniteSet(SameTs(s, i)) /\ i \in SameTs(s, i)
         /\ Cardinality(SameTs(s, i)) \in Nat /\ Cardinality(SameTs(s, i)) >= 1
         /\ GroupOf(s, i) \in Pairs
         /\ GroupOf(s, i)[1] = TsAt(s, i) /\ GroupOf(s, i)[2] = Cardinality(SameTs(s, i))
<1>1. i \in Nat /\ i >= 1 /\ TsAt(s, i) \in Nat
  BY PlaceFacts
<1>2. IsFiniteSet(1..i) /\ SameTs(s, i) \in SUBSET (1..i) /\ i \in SameTs(s, i)
  BY <1>1, FS_Interval DEF SameTs
<1>3. IsFiniteSet(SameTs(s, i))
  BY <1>2, FS_Subset
<1>4. Cardinality(SameTs(s, i)) \in Nat /\ Cardinality(SameTs(s, i)) # 0
  BY <1>2, <1>3, FS_CardinalityType, FS_EmptySet
<1>5. QED
  BY <1>1, <1>2, <1>3, <1>4 DEF GroupOf, Pairs

\* The groups of a stream come in its own order.
LEMMA GroupsAscend ==
  ASSUME TypeOK, NEW s \in Streams, NEW i \in Place(s), NEW j \in Place(s), i < j
  PROVE  Before(GroupOf(s, i), GroupOf(s, j))
<1>1. i \in Nat /\ j \in Nat /\ TsAt(s, i) \in Nat /\ TsAt(s, j) \in Nat /\ TsAt(s, i) <= TsAt(s, j)
  BY PlaceFacts
<1>2. CASE TsAt(s, i) = TsAt(s, j)
  <2>1. SameTs(s, i) \in SUBSET SameTs(s, j) /\ j \in SameTs(s, j) /\ j \notin SameTs(s, i)
    BY <1>1, <1>2, RankFacts DEF SameTs
  <2>2. IsFiniteSet(SameTs(s, j))
    BY RankFacts
  <2>3. /\ Cardinality(SameTs(s, i)) <= Cardinality(SameTs(s, j))
        /\ Cardinality(SameTs(s, i)) # Cardinality(SameTs(s, j))
    BY <2>1, <2>2, FS_Subset
  <2>4. Cardinality(SameTs(s, i)) \in Nat /\ Cardinality(SameTs(s, j)) \in Nat
    BY RankFacts
  <2>5. Cardinality(SameTs(s, i)) < Cardinality(SameTs(s, j))
    BY <2>3, <2>4
  <2>6. QED
    BY <1>2, <2>5, RankFacts DEF Before
<1>3. CASE TsAt(s, i) # TsAt(s, j)
  <2>1. TsAt(s, i) < TsAt(s, j)
    BY <1>1, <1>3
  <2>2. QED
    BY <2>1, RankFacts DEF Before
<1>4. QED
  BY <1>2, <1>3

\* The dgram just before one of rank n + 1 has its timestamp and rank n.
LEMMA Predecessor ==
  ASSUME TypeOK, NEW s \in Streams, NEW i \in Place(s), GroupOf(s, i)[2] > 1
  PROVE  /\ i - 1 \in Place(s)
         /\ GroupOf(s, i - 1)[1] = GroupOf(s, i)[1]
         /\ GroupOf(s, i - 1)[2] + 1 = GroupOf(s, i)[2]
<1>1. /\ i \in Nat /\ i >= 1 /\ i <= Len(input[s].dgs) /\ Len(input[s].dgs) \in Nat
  BY PlaceFacts
<1>2. /\ IsFiniteSet(SameTs(s, i)) /\ i \in SameTs(s, i)
      /\ Cardinality(SameTs(s, i)) > 1
  BY RankFacts
<1>3. SameTs(s, i) # {i}
  BY <1>2, FS_Singleton
<1>4. PICK j \in SameTs(s, i) : j # i
  BY <1>2, <1>3
<1>5. j \in 1..i /\ TsAt(s, j) = TsAt(s, i)
  BY <1>4 DEF SameTs
<1>6. j \in Nat /\ j >= 1 /\ j <= i - 1
  BY <1>1, <1>4, <1>5
<1>7. i - 1 \in Place(s) /\ j \in Place(s)
  BY <1>1, <1>6 DEF Place
<1>8. TsAt(s, j) <= TsAt(s, i - 1) /\ TsAt(s, i - 1) <= TsAt(s, i)
  BY <1>1, <1>6, <1>7, PlaceFacts
<1>9. TsAt(s, i - 1) = TsAt(s, i)
  BY <1>5, <1>7, <1>8, PlaceFacts
<1>10. SameTs(s, i) = SameTs(s, i - 1) \cup {i} /\ i \notin SameTs(s, i - 1)
  BY <1>1, <1>9 DEF SameTs
<1>11. IsFiniteSet(SameTs(s, i - 1)) /\ Cardinality(SameTs(s, i - 1)) \in Nat
  BY <1>7, RankFacts
<1>12. Cardinality(SameTs(s, i)) = Cardinality(SameTs(s, i - 1)) + 1
  BY <1>10, <1>11, FS_AddElement
<1>13. QED
  BY <1>7, <1>9, <1>12, RankFacts

-----------------------------------------------------------------------------
\* What has been consumed lies wholly before what has not.
Swept ==
  \A s, r \in Streams : \A i \in Place(s), j \in Place(r) :
    i <= at[s] /\ j > at[r] => Before(GroupOf(s, i), GroupOf(r, j))

\* The streams known to have been live: those the merge has consumed from
\* are among them, and each of them holds dgrams.
EverLiveFits ==
  /\ \A s \in Streams : at[s] > 0 => s \in everLive
  /\ \A s \in everLive : Len(input[s].dgs) > 0
  /\ dropped \subseteq everLive

WaitingGroup(s) == GroupOf(s, at[s] + 1)

LEMMA HeadFacts ==
  ASSUME TypeOK, NEW s \in Live
  PROVE  /\ s \in Streams /\ at[s] \in Nat /\ at[s] + 1 \in Place(s)
         /\ at[s] + 1 > at[s]
         /\ HeadOf(s).ts = TsAt(s, at[s] + 1) /\ HeadOf(s) = input[s].dgs[at[s] + 1]
         /\ WaitingGroup(s) \in Pairs /\ WaitingGroup(s)[1] = HeadOf(s).ts
<1>1. s \in Streams /\ at[s] \in Nat /\ at[s] + 1 \in Place(s) /\ at[s] + 1 > at[s]
  BY StreamFacts DEF Live, Place
<1>2. QED
  BY <1>1, RankFacts DEF HeadOf, TsAt, WaitingGroup

\* Two streams cannot wait at one time with dgrams of different rank: the
\* one ahead would have consumed a dgram that does not lie before the other.
LEMMA NoRankSkipped ==
  ASSUME TypeOK, Swept, NEW s \in Joining, NEW r \in Joining
  PROVE  ~ (WaitingGroup(s)[2] < WaitingGroup(r)[2])
<1> SUFFICES ASSUME WaitingGroup(s)[2] < WaitingGroup(r)[2]
             PROVE  FALSE
  OBVIOUS
<1>1. s \in Live /\ r \in Live /\ HeadOf(s).ts = HeadOf(r).ts
  BY DEF Joining
<1>2. /\ s \in Streams /\ at[s] \in Nat /\ at[s] + 1 \in Place(s) /\ at[s] + 1 > at[s]
      /\ r \in Streams /\ at[r] \in Nat /\ at[r] + 1 \in Place(r)
      /\ WaitingGroup(s)[1] = WaitingGroup(r)[1]
  BY <1>1, HeadFacts
<1>3. WaitingGroup(s)[2] \in Nat /\ WaitingGroup(s)[2] >= 1 /\ WaitingGroup(r)[2] \in Nat
  BY <1>2, RankFacts DEF WaitingGroup
<1>4. GroupOf(r, at[r] + 1)[2] > 1
  BY <1>3 DEF WaitingGroup
<1>5. (at[r] + 1) - 1 = at[r]
  BY <1>2
<1>6. /\ at[r] \in Place(r)
      /\ GroupOf(r, at[r])[1] = WaitingGroup(r)[1]
      /\ GroupOf(r, at[r])[2] + 1 = WaitingGroup(r)[2]
  BY <1>2, <1>4, <1>5, Predecessor DEF WaitingGroup
<1>7. Before(GroupOf(r, at[r]), WaitingGroup(s))
  BY <1>2, <1>6 DEF Swept, WaitingGroup
<1>8. /\ GroupOf(r, at[r])[1] = WaitingGroup(s)[1] /\ GroupOf(r, at[r])[1] \in Nat
      /\ GroupOf(r, at[r])[2] \in Nat
  <2>1. GroupOf(r, at[r])[1] = TsAt(r, at[r]) /\ TsAt(r, at[r]) \in Nat
        /\ GroupOf(r, at[r]) \in Pairs
    BY <1>2, <1>6, RankFacts, PlaceFacts
  <2>2. QED
    BY <1>2, <1>6, <2>1, BeforeOrder
<1>9. GroupOf(r, at[r])[2] < WaitingGroup(s)[2]
  BY <1>7, <1>8 DEF Before
<1>10. QED
  BY <1>3, <1>6, <1>8, <1>9

\* The group of an iteration: all joining streams wait with it, it is in
\* nothing else, all that was consumed lies before it and all else after.
LEMMA IterationGroup ==
  ASSUME TypeOK, Swept, NEW s0 \in Joining
  PROVE  /\ WaitingGroup(s0) \in Pairs /\ WaitingGroup(s0)[1] = MinTs
         /\ \A s \in Joining : WaitingGroup(s) = WaitingGroup(s0)
         /\ \A r \in Streams : \A j \in Place(r) :
              j <= at[r] => Before(GroupOf(r, j), WaitingGroup(s0))
         /\ \A r \in Streams : \A j \in Place(r) :
              j > at[r] => IF r \in Joining /\ j = at[r] + 1
                           THEN GroupOf(r, j) = WaitingGroup(s0)
                           ELSE Before(WaitingGroup(s0), GroupOf(r, j))
<1>0. s0 \in Live /\ HeadOf(s0).ts = MinTs
  BY DEF Joining
<1>1. s0 \in Streams /\ at[s0] + 1 \in Place(s0) /\ at[s0] + 1 > at[s0]
      /\ WaitingGroup(s0) \in Pairs /\ WaitingGroup(s0)[1] = MinTs
  BY <1>0, HeadFacts
<1>2. ASSUME NEW s \in Joining
      PROVE  WaitingGroup(s) = WaitingGroup(s0)
  <2>1. s \in Live /\ HeadOf(s).ts = MinTs
    BY DEF Joining
  <2>2. WaitingGroup(s) \in Pairs /\ WaitingGroup(s)[1] = MinTs
    BY <2>1, HeadFacts
  <2>3. /\ ~ (WaitingGroup(s)[2] < WaitingGroup(s0)[2])
        /\ ~ (WaitingGroup(s0)[2] < WaitingGroup(s)[2])
    BY NoRankSkipped
  <2>4. QED
    BY <1>1, <2>2, <2>3 DEF Pairs
<1>3. \A r \in Streams : \A j \in Place(r) :
        j <= at[r] => Before(GroupOf(r, j), WaitingGroup(s0))
  BY <1>1 DEF Swept, WaitingGroup
<1>4. ASSUME NEW r \in Streams, NEW j \in Place(r), j > at[r]
      PROVE  IF r \in Joining /\ j = at[r] + 1
             THEN GroupOf(r, j) = WaitingGroup(s0)
             ELSE Before(WaitingGroup(s0), GroupOf(r, j))
  <2>1. /\ j \in Nat /\ j <= Len(input[r].dgs) /\ at[r] \in Nat /\ Len(input[r].dgs) \in Nat
        /\ TsAt(r, j) \in Nat /\ GroupOf(r, j) \in Pairs /\ GroupOf(r, j)[1] = TsAt(r, j)
    BY PlaceFacts, RankFacts
  <2>2. r \in Live
    BY <1>4, <2>1 DEF Live
  <2>3. /\ at[r] + 1 \in Place(r) /\ HeadOf(r).ts = TsAt(r, at[r] + 1)
        /\ WaitingGroup(r) \in Pairs /\ WaitingGroup(r)[1] = HeadOf(r).ts
    BY <2>2, HeadFacts
  <2>4. CASE r \in Joining /\ j = at[r] + 1
    BY <1>2, <2>4 DEF WaitingGroup
  <2>5. CASE r \in Joining /\ j # at[r] + 1
    <3>1. at[r] + 1 < j
      BY <1>4, <2>1, <2>5
    <3>2. Before(WaitingGroup(r), GroupOf(r, j))
      BY <2>3, <3>1, GroupsAscend DEF WaitingGroup
    <3>3. QED
      BY <1>2, <2>5, <3>2
  <2>6. CASE r \notin Joining
    <3>1. MinTs \in Nat /\ MinTs <= HeadOf(r).ts /\ HeadOf(r).ts # MinTs /\ HeadOf(r).ts \in Nat
      BY <2>2, <2>6, MinTsProperties, StreamFacts DEF Joining
    <3>2. at[r] + 1 <= j
      BY <1>4, <2>1
    <3>3. TsAt(r, at[r] + 1) <= TsAt(r, j) /\ TsAt(r, at[r] + 1) \in Nat
      BY <2>3, <3>2, PlaceFacts
    <3>4. MinTs < GroupOf(r, j)[1]
      BY <2>1, <2>3, <3>1, <3>3
    <3>5. QED
      BY <1>1, <2>6, <3>4 DEF Before
  <2>7. QED
    BY <2>4, <2>5, <2>6
<1>5. QED
  BY <1>1, <1>2, <1>3, <1>4

\* Consuming the group of the iteration moves it from what is left to what
\* is consumed.
LEMMA ConsumeSweeps ==
  ASSUME TypeOK, Swept, Live # {}, Consume, UNCHANGED input
  PROVE  Swept'
<1>1. PICK s0 \in Joining : TRUE
  BY MinTsProperties
<1> DEFINE g == WaitingGroup(s0)
<1>2. /\ g \in Pairs
      /\ \A r \in Streams : \A j \in Place(r) : j <= at[r] => Before(GroupOf(r, j), g)
      /\ \A r \in Streams : \A j \in Place(r) :
           j > at[r] => IF r \in Joining /\ j = at[r] + 1
                        THEN GroupOf(r, j) = g
                        ELSE Before(g, GroupOf(r, j))
  BY IterationGroup
<1> HIDE DEF g
<1>3. /\ \A s : Place(s)' = Place(s)
      /\ \A s, i : GroupOf(s, i)' = GroupOf(s, i)
  BY DEF Place, GroupOf, TsAt, SameTs
<1>4. \A s \in Streams : at'[s] = IF s \in Joining THEN at[s] + 1 ELSE at[s]
  BY DEF Consume
<1>5. ASSUME NEW s \in Streams, NEW r \in Streams, NEW i \in Place(s), NEW j \in Place(r),
             i <= at'[s], j > at'[r]
      PROVE  Before(GroupOf(s, i), GroupOf(r, j))
  <2>1. i \in Nat /\ j \in Nat /\ at[s] \in Nat /\ at[r] \in Nat
    BY PlaceFacts
  <2>2. j > at[r] /\ ~ (r \in Joining /\ j = at[r] + 1)
    BY <1>4, <1>5, <2>1
  <2>3. Before(g, GroupOf(r, j))
    BY <1>2, <2>2
  <2>4. Before(GroupOf(s, i), g) \/ GroupOf(s, i) = g
    BY <1>2, <1>4, <1>5, <2>1
  <2>5. GroupOf(s, i) \in Pairs /\ GroupOf(r, j) \in Pairs
    BY RankFacts
  <2>6. QED
    BY <1>2, <2>3, <2>4, <2>5, BeforeOrder
<1>6. QED
  BY <1>3, <1>5 DEF Swept

-----------------------------------------------------------------------------
\* The parts of EventBuilder's schedule, named.
AllGroups == UNION {{GroupOf(s, i) : i \in Place(s)} : s \in Streams}

Members(g) == {s \in Streams : \E i \in Place(s) : GroupOf(s, i) = g}

PlacesOf(s, g) == {i \in Place(s) : GroupOf(s, i) = g}

ServiceOf(g) == input[Min(Members(g))].dgs[Min(PlacesOf(Min(Members(g)), g))].svc

DryAt(g) == {s \in Streams : \A i \in Place(s) : Before(GroupOf(s, i), g)}

Reached(g) == \A s \in DryAt(g) : input[s].stop # "raised"

EventOf(g) ==
  [ts |-> g[1], svc |-> ServiceOf(g), streams |-> Members(g),
   dropped |-> {s \in DryAt(g) : Len(input[s].dgs) > 0}]

EventGroups == {g \in AllGroups : ServiceOf(g) \in EventServices /\ Reached(g)}

Earlier(g) == {h \in EventGroups : Before(h, g)}

\* A function takes a finite set to a finite set.
LEMMA FiniteImage ==
  ASSUME NEW S, IsFiniteSet(S), NEW f
  PROVE  IsFiniteSet({f[x] : x \in S})
<1> DEFINE T == {f[x] : x \in S}
           h == [x \in S |-> f[x]]
<1>1. h \in Surjection(S, T)
  BY DEF Surjection
<1>2. QED
  BY <1>1, FS_Surjection

LEMMA AllGroupsFacts ==
  ASSUME TypeOK
  PROVE  /\ IsFiniteSet(AllGroups) /\ AllGroups \subseteq Pairs
         /\ IsFiniteSet(EventGroups) /\ EventGroups \subseteq AllGroups
         /\ \A g \in AllGroups : \E s \in Streams : \E i \in Place(s) : g = GroupOf(s, i)
         /\ \A s \in Streams : \A i \in Place(s) : GroupOf(s, i) \in AllGroups
<1> DEFINE F(s) == {GroupOf(s, i) : i \in Place(s)}
<1>1. ASSUME NEW s \in Streams
      PROVE  IsFiniteSet(F(s))
  <2>1. IsFiniteSet(Place(s))
    <3>1. Len(input[s].dgs) \in Nat
      BY StreamFacts
    <3>2. PICK n \in Nat : n = Len(input[s].dgs)
      BY <3>1
    <3>3. 1 \in Int /\ n \in Int
      BY <3>2
    <3>4. IsFiniteSet(1..n)
      BY <3>3, FS_Interval
    <3>5. QED
      BY <3>2, <3>4 DEF Place
  <2> DEFINE f == [i \in Place(s) |-> GroupOf(s, i)]
  <2>2. IsFiniteSet({f[i] : i \in Place(s)})
    <3> HIDE DEF f
    <3>1. QED
      BY <2>1, FiniteImage
  <2>3. F(s) = {f[i] : i \in Place(s)}
    OBVIOUS
  <2>4. QED
    BY <2>2, <2>3
<1>2. IsFiniteSet({F(s) : s \in Streams})
  <2> DEFINE f == [s \in Streams |-> F(s)]
  <2>1. IsFiniteSet({f[s] : s \in Streams})
    <3> HIDE DEF f
    <3>1. QED
      BY StreamsAssumption, FiniteImage
  <2>2. {F(s) : s \in Streams} = {f[s] : s \in Streams}
    OBVIOUS
  <2>3. QED
    BY <2>1, <2>2
<1>3. \A T \in {F(s) : s \in Streams} : IsFiniteSet(T)
  BY <1>1
<1>4. AllGroups = UNION {F(s) : s \in Streams}
  BY DEF AllGroups
<1>5. IsFiniteSet(AllGroups)
  BY <1>2, <1>3, <1>4, FS_UNION
<1>6. EventGroups \in SUBSET AllGroups
  BY DEF EventGroups
<1>7. IsFiniteSet(EventGroups)
  BY <1>5, <1>6, FS_Subset
<1>8. \A g \in AllGroups : \E s \in Streams : \E i \in Place(s) : g = GroupOf(s, i)
  BY DEF AllGroups
<1>9. \A s \in Streams : \A i \in Place(s) : GroupOf(s, i) \in AllGroups
  BY DEF AllGroups
<1>10. AllGroups \subseteq Pairs
  BY <1>8, RankFacts
<1>11. QED
  BY <1>5, <1>6, <1>7, <1>8, <1>9, <1>10

\* An event group is known by how many come before it.
LEMMA EarlierFacts ==
  ASSUME TypeOK, NEW g \in EventGroups, NEW h \in EventGroups
  PROVE  /\ IsFiniteSet(Earlier(g)) /\ Cardinality(Earlier(g)) \in Nat
         /\ Cardinality(Earlier(g)) = Cardinality(Earlier(h)) => g = h
<1>1. IsFiniteSet(EventGroups) /\ EventGroups \subseteq Pairs
  BY AllGroupsFacts
<1>2. \A k \in EventGroups : IsFiniteSet(Earlier(k)) /\ Cardinality(Earlier(k)) \in Nat
  <2>1. \A k \in EventGroups : Earlier(k) \in SUBSET EventGroups
    BY DEF Earlier
  <2>2. QED
    BY <1>1, <2>1, FS_Subset, FS_CardinalityType
<1>3. ASSUME NEW k \in EventGroups, NEW l \in EventGroups, Before(k, l)
      PROVE  Cardinality(Earlier(k)) # Cardinality(Earlier(l))
  <2>1. k \in Earlier(l) /\ k \notin Earlier(k)
    BY <1>1, <1>3, BeforeOrder DEF Earlier
  <2>2. Earlier(k) \in SUBSET Earlier(l)
    BY <1>1, <1>3, BeforeOrder DEF Earlier
  <2>3. QED
    BY <1>2, <2>1, <2>2, FS_Subset
<1>4. Before(g, h) \/ Before(h, g) \/ g = h
  BY <1>1, BeforeOrder
<1>5. QED
  BY <1>2, <1>3, <1>4

\* EventBuilder's operators, instanced, are these.
LEMMA SameOperators ==
  /\ \A S : Builder!Cardinality(S) = Cardinality(S)
  /\ \A S : Builder!Min(S) = Min(S)
  /\ \A g, h : Builder!Before(g, h) = Before(g, h)
  /\ \A s : Builder!GroupsOf(input[s].dgs) = [i \in Place(s) |-> GroupOf(s, i)]
<1>1. \A S : Builder!Cardinality(S) = Cardinality(S)
  BY DEF Cardinality, Builder!Cardinality
<1>2. \A S : Builder!Min(S) = Min(S)
  BY DEF Min, Builder!Min
<1>3. \A g, h : Builder!Before(g, h) = Before(g, h)
  BY DEF Before, Builder!Before
<1>4. \A s : Builder!GroupsOf(input[s].dgs) = [i \in Place(s) |-> GroupOf(s, i)]
  BY <1>1 DEF Builder!GroupsOf, Place, GroupOf, SameTs, TsAt
<1>5. QED
  BY <1>1, <1>2, <1>3, <1>4

\* The schedule lists the event groups: the event of a group stands where
\* as many events come before it.
LEMMA ScheduleFacts ==
  ASSUME TypeOK
  PROVE  /\ Len(Builder!Schedule) = Cardinality(EventGroups)
         /\ Cardinality(EventGroups) \in Nat
         /\ Builder!Schedule = [k \in 1..Cardinality(EventGroups) |-> Builder!Schedule[k]]
         /\ \A g \in EventGroups : \A k \in 1..Cardinality(EventGroups) :
              Cardinality(Earlier(g)) + 1 = k => Builder!Schedule[k] = EventOf(g)
<1> DEFINE group == [s \in Streams |-> Builder!GroupsOf(input[s].dgs)]
           members(g) == {s \in Streams : Builder!Contains(group[s], g)}
           service(g) == input[Builder!Min(members(g))].dgs[
                           Builder!SelectInSeq(group[Builder!Min(members(g))], LAMBDA h : h = g)].svc
           dryAt(g) == {s \in Streams : \A i \in 1..Len(group[s]) : Builder!Before(group[s][i], g)}
           reached(g) == \A s \in dryAt(g) : input[s].stop # "raised"
           event(g) == [ts |-> g[1], svc |-> service(g), streams |-> members(g),
                        dropped |-> {s \in dryAt(g) : group[s] # <<>>}]
           events == {g \in UNION {Builder!Range(group[s]) : s \in Streams} :
                        service(g) \in EventServices /\ reached(g)}
           nth(k) == CHOOSE g \in events :
                       Builder!Cardinality({h \in events : Builder!Before(h, g)}) = k - 1
<1>1. Builder!Schedule = [k \in 1..Builder!Cardinality(events) |-> event(nth(k))]
  BY DEF Builder!Schedule, Builder!ScheduleOf
<1>2. ASSUME NEW s \in Streams
      PROVE  /\ group[s] = [i \in Place(s) |-> GroupOf(s, i)]
             /\ Len(group[s]) = Len(input[s].dgs)
  <2>1. group[s] = [i \in Place(s) |-> GroupOf(s, i)]
    BY SameOperators
  <2>2. PICK d : d = [i \in Place(s) |-> GroupOf(s, i)]
    OBVIOUS
  <2>3. Len(input[s].dgs) \in Nat
    BY StreamFacts
  <2>4. Len(d) = Len(input[s].dgs)
    BY <2>2, <2>3 DEF Place
  <2>5. QED
    BY <2>1, <2>2, <2>4
<1> HIDE DEF group
<1>3. UNION {Builder!Range(group[s]) : s \in Streams} = AllGroups
  <2>1. ASSUME NEW s \in Streams
        PROVE  Builder!Range(group[s]) = {GroupOf(s, i) : i \in Place(s)}
    <3>1. PICK d : d = group[s]
      OBVIOUS
    <3>2. d = [i \in Place(s) |-> GroupOf(s, i)]
      BY <1>2, <3>1
    <3>3. Builder!Range(d) = {d[i] : i \in Place(s)}
      BY <3>2, Zenon DEF Builder!Range
    <3>4. {d[i] : i \in Place(s)} = {GroupOf(s, i) : i \in Place(s)}
      BY <3>2
    <3>5. QED
      BY <3>1, <3>3, <3>4
  <2>2. QED
    BY <2>1 DEF AllGroups
<1>4. ASSUME NEW g
      PROVE  members(g) = Members(g)
  BY <1>2 DEF Builder!Contains, Members, Place
<1>5. ASSUME NEW g
      PROVE  dryAt(g) = DryAt(g)
  BY <1>2, SameOperators DEF DryAt, Place
<1>6. ASSUME NEW g \in AllGroups
      PROVE  service(g) = ServiceOf(g)
  <2>1. Members(g) # {} /\ Members(g) \subseteq Streams
    BY AllGroupsFacts DEF Members
  <2>2. Min(Members(g)) \in Members(g)
    BY <2>1, StreamsAssumption, MinProperties
  <2>3. PICK m \in Members(g) : m = Min(Members(g))
    BY <2>2
  <2>4. Builder!Min(members(g)) = m
    BY <2>3, <1>4, SameOperators
  <2>5. m \in Streams /\ PlacesOf(m, g) # {}
    BY <2>3 DEF Members, PlacesOf
  <2>6. Builder!SelectInSeq(group[m], LAMBDA h : h = g) = Min(PlacesOf(m, g))
    <3>1. {i \in 1..Len(group[m]) : group[m][i] = g} = PlacesOf(m, g)
      BY <1>2, <2>5 DEF PlacesOf, Place
    <3>2. QED
      BY <3>1, <2>5, SameOperators DEF Builder!SelectInSeq
  <2>7. QED
    BY <2>3, <2>4, <2>6 DEF ServiceOf
<1>7. ASSUME NEW g \in AllGroups
      PROVE  event(g) = EventOf(g)
  <2>1. ASSUME NEW s \in Streams
        PROVE  group[s] # <<>> <=> Len(input[s].dgs) > 0
    <3>1. Len(input[s].dgs) \in Nat /\ Len(group[s]) = Len(input[s].dgs)
      BY <1>2, StreamFacts
    <3>2. PICK d : d = group[s]
      OBVIOUS
    <3>3. d = [i \in Place(s) |-> GroupOf(s, i)] /\ Len(d) = Len(input[s].dgs)
      BY <1>2, <3>2
    <3>4. \A i \in Place(s) : GroupOf(s, i) \in Pairs
      BY RankFacts
    <3>5. d \in Seq(Pairs)
      BY <3>1, <3>3, <3>4 DEF Place
    <3>6. d # <<>> <=> Len(d) > 0
      <4>1. d # <<>> <=> Len(d) # 0
        BY <3>5, EmptySeq
      <4>2. QED
        BY <3>1, <3>3, <4>1
    <3>7. QED
      BY <3>2, <3>3, <3>6
  <2>2. {s \in dryAt(g) : group[s] # <<>>} = {s \in DryAt(g) : Len(input[s].dgs) > 0}
    BY <1>5, <2>1 DEF DryAt
  <2>3. QED
    BY <1>4, <1>6, <2>2 DEF EventOf
<1>8. events = EventGroups
  BY <1>3, <1>5, <1>6 DEF EventGroups, Reached
<1> HIDE DEF members, service, dryAt, reached, event, events
<1>9. Builder!Schedule = [k \in 1..Cardinality(EventGroups) |-> event(nth(k))]
  BY <1>1, <1>8, SameOperators
<1>10. Cardinality(EventGroups) \in Nat
  BY AllGroupsFacts, FS_CardinalityType
<1>11. ASSUME NEW g \in EventGroups, NEW k \in 1..Cardinality(EventGroups),
              Cardinality(Earlier(g)) + 1 = k
       PROVE  Builder!Schedule[k] = EventOf(g)
  <2>1. nth(k) = CHOOSE h \in EventGroups : Cardinality(Earlier(h)) = k - 1
    BY <1>8, SameOperators DEF Earlier
  <2>2. Cardinality(Earlier(g)) = k - 1
    BY <1>10, <1>11, EarlierFacts
  <2>3. nth(k) \in EventGroups /\ Cardinality(Earlier(nth(k))) = k - 1
    BY <2>1, <2>2
  <2>4. nth(k) = g
    BY <2>2, <2>3, EarlierFacts
  <2>5. event(g) = EventOf(g)
    BY <1>7, AllGroupsFacts
  <2>6. QED
    BY <1>9, <2>4, <2>5
<1>12. Len(Builder!Schedule) = Cardinality(EventGroups)
  BY <1>9, <1>10
<1>13. Builder!Schedule = [k \in 1..Cardinality(EventGroups) |-> Builder!Schedule[k]]
  BY <1>9
<1>14. QED
  BY <1>10, <1>11, <1>12, <1>13

-----------------------------------------------------------------------------
\* The event groups whose dgrams have been consumed.
Consumed == {g \in EventGroups : \E s \in Streams : \E i \in Place(s) : i <= at[s] /\ GroupOf(s, i) = g}

\* What has been yielded is the schedule as far as the merge has consumed.
OutFits ==
  /\ Len(out) = Cardinality(Consumed)
  /\ \A k \in 1..Len(out) : out[k] = Builder!Schedule[k]

\* The inductive invariant of the refinement.
BuildInv ==
  /\ IInv
  /\ Swept
  /\ EverLiveFits
  /\ OutFits

\* The schedule is fixed by what the streams hold.
LEMMA ScheduleIsFixed ==
  ASSUME UNCHANGED input
  PROVE  /\ \A s : Place(s)' = Place(s)
         /\ \A s, i : GroupOf(s, i)' = GroupOf(s, i)
         /\ EventGroups' = EventGroups
         /\ Builder!Schedule' = Builder!Schedule
<1>1. \A s : Place(s)' = Place(s)
  BY DEF Place
<1>2. \A s, i : GroupOf(s, i)' = GroupOf(s, i)
  BY DEF GroupOf, TsAt, SameTs
<1>3. EventGroups' = EventGroups
  BY DEF EventGroups, AllGroups, ServiceOf, Reached, DryAt, Members, PlacesOf, Place,
         GroupOf, TsAt, SameTs
<1>4. Builder!Schedule' = Builder!Schedule
  BY DEF Builder!Schedule
<1>5. QED
  BY <1>1, <1>2, <1>3, <1>4

\* The record an iteration would yield is the event of its group.
LEMMA IterationEvent ==
  ASSUME BuildInv, PeekRound, NEW s0 \in Joining, NEW g, g = WaitingGroup(s0)
  PROVE  /\ g \in AllGroups
         /\ Members(g) = Joining /\ ServiceOf(g) = Service /\ Reached(g)
         /\ EventOf(g) = [ts |-> MinTs, svc |-> Service, streams |-> Joining, dropped |-> dropped']
<1>1. TypeOK /\ Swept /\ EverLiveFits /\ DroppedAreDry /\ Live # {} /\ Refusing = {}
  BY DEF BuildInv, IInv, PeekRound
<1>2. /\ g \in Pairs /\ g[1] = MinTs
      /\ \A r \in Streams : \A j \in Place(r) : j <= at[r] => Before(GroupOf(r, j), g)
      /\ \A r \in Streams : \A j \in Place(r) :
           j > at[r] => IF r \in Joining /\ j = at[r] + 1
                        THEN GroupOf(r, j) = g
                        ELSE Before(g, GroupOf(r, j))
  BY <1>1, IterationGroup
<1>3. \A s \in Joining : /\ s \in Live /\ s \in Streams /\ at[s] \in Nat /\ at[s] + 1 \in Place(s)
                         /\ at[s] + 1 > at[s] /\ HeadOf(s) = input[s].dgs[at[s] + 1]
  BY <1>1, HeadFacts DEF Joining
<1>4. ASSUME NEW r \in Streams, NEW j \in Place(r)
      PROVE  GroupOf(r, j) = g <=> r \in Joining /\ j = at[r] + 1
  <2>1. j \in Nat /\ at[r] \in Nat /\ GroupOf(r, j) \in Pairs
    BY <1>1, PlaceFacts, RankFacts
  <2>2. j <= at[r] \/ j > at[r]
    BY <2>1
  <2>3. r \in Joining /\ j = at[r] + 1 => j > at[r]
    BY <2>1
  <2>4. QED
    BY <1>2, <2>1, <2>2, <2>3, BeforeOrder
<1>5. g \in AllGroups
  BY <1>1, <1>3, <1>4, AllGroupsFacts
<1>6. Members(g) = Joining
  <2>1. Joining \subseteq Streams
    BY <1>3
  <2>2. QED
    BY <1>3, <1>4, <2>1 DEF Members
<1>7. ServiceOf(g) = Service
  <2>1. Joining \subseteq Nat /\ Joining # {}
    BY <1>1, <1>3, StreamsAssumption
  <2>2. Min(Joining) \in Joining
    BY <2>1, MinProperties
  <2>3. PICK m \in Joining : m = Min(Joining)
    BY <2>2
  <2>4. PlacesOf(m, g) = {at[m] + 1}
    BY <1>3, <1>4 DEF PlacesOf
  <2>5. at[m] + 1 \in Nat
    BY <1>3
  <2>6. Min({at[m] + 1}) = at[m] + 1
    BY <2>5, MinOfOne
  <2>7. QED
    BY <1>3, <1>6, <2>3, <2>4, <2>6 DEF ServiceOf, Service
<1>8. DryAt(g) = Streams \ Live
  <2>1. ASSUME NEW s \in Live
        PROVE  s \notin DryAt(g)
    <3>1. /\ s \in Streams /\ at[s] \in Nat /\ at[s] + 1 \in Place(s) /\ at[s] + 1 > at[s]
      BY <1>1, HeadFacts
    <3>2. ~ Before(GroupOf(s, at[s] + 1), g)
      BY <1>1, <1>2, <3>1, RankFacts, BeforeOrder
    <3>3. QED
      BY <3>1, <3>2 DEF DryAt
  <2>2. ASSUME NEW s \in Streams, s \notin Live
        PROVE  s \in DryAt(g)
    <3>1. ASSUME NEW i \in Place(s)
          PROVE  i <= at[s]
      BY <1>1, <2>2, PlaceFacts DEF Live
    <3>2. QED
      BY <1>2, <3>1 DEF DryAt
  <2>3. QED
    BY <2>1, <2>2 DEF DryAt
<1>9. Reached(g)
  BY <1>1, <1>8 DEF Reached, Refusing
<1>10. {s \in DryAt(g) : Len(input[s].dgs) > 0} = dropped'
  <2>1. dropped' = dropped \cup (everLive \ Live)
    BY DEF PeekRound
  <2>2. everLive \subseteq Streams
    BY <1>1 DEF TypeOK, LocalsOK
  <2>3. dropped' = everLive \ Live
    BY <1>1, <2>1 DEF EverLiveFits, DroppedAreDry
  <2>4. ASSUME NEW s \in Streams, s \notin Live, Len(input[s].dgs) > 0
        PROVE  s \in everLive
    <3>1. at[s] > 0
      BY <1>1, <2>4, StreamFacts DEF Live
    <3>2. QED
      BY <1>1, <3>1 DEF EverLiveFits
  <2>5. QED
    BY <1>1, <1>8, <2>2, <2>3, <2>4 DEF EverLiveFits
<1>11. EventOf(g) = [ts |-> MinTs, svc |-> Service, streams |-> Joining, dropped |-> dropped']
  BY <1>2, <1>6, <1>7, <1>10 DEF EventOf
<1>12. QED
  BY <1>5, <1>6, <1>7, <1>9, <1>11

\* The group of the iteration is the only one it moves to the consumed; if
\* it is an event, it is the next of the schedule.
LEMMA IterationConsumes ==
  ASSUME BuildInv, PeekRound, Consume, UNCHANGED input,
         NEW s0 \in Joining, NEW g, g = WaitingGroup(s0)
  PROVE  /\ g \notin Consumed
         /\ Consumed' = Consumed \cup ({g} \cap EventGroups)
         /\ g \in EventGroups => Earlier(g) = Consumed
<1>1. TypeOK /\ Swept /\ Live # {}
  BY DEF BuildInv, IInv, PeekRound
<1>2. /\ g \in Pairs
      /\ \A r \in Streams : \A j \in Place(r) : j <= at[r] => Before(GroupOf(r, j), g)
      /\ \A r \in Streams : \A j \in Place(r) :
           j > at[r] => IF r \in Joining /\ j = at[r] + 1
                        THEN GroupOf(r, j) = g
                        ELSE Before(g, GroupOf(r, j))
  BY <1>1, IterationGroup
<1>3. s0 \in Streams /\ at[s0] + 1 \in Place(s0) /\ GroupOf(s0, at[s0] + 1) = g
  BY <1>1, HeadFacts DEF Joining, WaitingGroup
<1>4. \A s \in Streams : at[s] \in Nat /\ at'[s] = IF s \in Joining THEN at[s] + 1 ELSE at[s]
  BY <1>1, StreamFacts DEF Consume
<1>5. /\ Consumed' = {h \in EventGroups : \E s \in Streams : \E i \in Place(s) :
                        i <= at'[s] /\ GroupOf(s, i) = h}
  BY ScheduleIsFixed DEF Consumed
<1>6. g \notin Consumed
  BY <1>2, BeforeOrder DEF Consumed
<1>7. ASSUME NEW s \in Streams, NEW i \in Place(s)
      PROVE  i \in Nat /\ GroupOf(s, i) \in Pairs
  BY <1>1, PlaceFacts, RankFacts
<1>8. ASSUME NEW h \in EventGroups
      PROVE  h \in Consumed' <=> h \in Consumed \/ h = g
  <2>1. ASSUME h \in Consumed'
        PROVE  h \in Consumed \/ h = g
    <3>1. PICK s \in Streams : \E i \in Place(s) : i <= at'[s] /\ GroupOf(s, i) = h
      BY <1>5, <2>1
    <3>2. PICK i \in Place(s) : i <= at'[s] /\ GroupOf(s, i) = h
      BY <3>1
    <3>3. CASE i <= at[s]
      BY <3>2, <3>3 DEF Consumed
    <3>4. CASE i > at[s]
      <4>1. s \in Joining /\ i = at[s] + 1
        BY <1>4, <1>7, <3>2, <3>4
      <4>2. QED
        BY <1>2, <3>2, <3>4, <4>1
    <3>5. QED
      BY <1>4, <1>7, <3>3, <3>4
  <2>2. ASSUME h \in Consumed
        PROVE  h \in Consumed'
    <3>1. PICK s \in Streams : \E i \in Place(s) : i <= at[s] /\ GroupOf(s, i) = h
      BY <2>2 DEF Consumed
    <3>2. PICK i \in Place(s) : i <= at[s] /\ GroupOf(s, i) = h
      BY <3>1
    <3>3. i <= at'[s]
      BY <1>4, <1>7, <3>2
    <3>4. QED
      BY <1>5, <3>2, <3>3
  <2>3. ASSUME h = g
        PROVE  h \in Consumed'
    <3>1. at[s0] + 1 <= at'[s0]
      BY <1>3, <1>4
    <3>2. QED
      BY <1>3, <1>5, <2>3, <3>1
  <2>4. QED
    BY <2>1, <2>2, <2>3
<1>9. Consumed' = Consumed \cup ({g} \cap EventGroups)
  <2>1. Consumed' \subseteq EventGroups /\ Consumed \subseteq EventGroups
    BY <1>5 DEF Consumed
  <2>2. QED
    BY <1>8, <2>1
<1>10. ASSUME g \in EventGroups
       PROVE  Earlier(g) = Consumed
  <2>1. ASSUME NEW h \in EventGroups, Before(h, g)
        PROVE  h \in Consumed
    <3>1. h \in AllGroups
      BY <1>1, AllGroupsFacts
    <3>2. PICK s \in Streams : \E i \in Place(s) : h = GroupOf(s, i)
      BY <1>1, <3>1, AllGroupsFacts
    <3>3. PICK i \in Place(s) : h = GroupOf(s, i)
      BY <3>2
    <3>4. h \in Pairs
      BY <1>7, <3>3
    <3>5. ~ (i > at[s])
      BY <1>2, <2>1, <3>3, <3>4, BeforeOrder
    <3>6. QED
      BY <1>4, <1>7, <3>3, <3>5 DEF Consumed
  <2>2. ASSUME NEW h \in Consumed
        PROVE  h \in EventGroups /\ Before(h, g)
    BY <1>2 DEF Consumed
  <2>3. QED
    BY <2>1, <2>2 DEF Earlier
<1>11. QED
  BY <1>6, <1>9, <1>10

-----------------------------------------------------------------------------
\* What is consumed counts, and never more than the schedule holds.
LEMMA ConsumedFacts ==
  ASSUME TypeOK
  PROVE  /\ IsFiniteSet(Consumed) /\ Consumed \subseteq EventGroups
         /\ Cardinality(Consumed) \in Nat
         /\ Cardinality(Consumed) <= Cardinality(EventGroups)
         /\ Cardinality(Consumed) = Cardinality(EventGroups) => Consumed = EventGroups
<1>1. IsFiniteSet(EventGroups) /\ Consumed \in SUBSET EventGroups
  BY AllGroupsFacts DEF Consumed
<1>2. QED
  BY <1>1, FS_Subset, FS_CardinalityType

\* A consuming step keeps what the merge knows of live and dry streams.
LEMMA EverLiveKept ==
  ASSUME BuildInv, PeekRound, Consume, UNCHANGED input
  PROVE  EverLiveFits'
<1>1. TypeOK /\ EverLiveFits /\ Live # {}
  BY DEF BuildInv, IInv, PeekRound
<1>2. everLive' = everLive \cup Live /\ dropped' = dropped \cup (everLive \ Live)
  BY DEF PeekRound
<1>3. \A s \in Live : s \in Streams /\ Len(input[s].dgs) > 0
  BY <1>1, StreamFacts DEF Live
<1>4. ASSUME NEW s \in Streams, at'[s] > 0
      PROVE  s \in everLive'
  <2>1. CASE s \in Joining
    BY <1>2, <2>1 DEF Joining
  <2>2. CASE s \notin Joining
    BY <1>1, <1>2, <1>4, <2>2 DEF Consume, EverLiveFits
  <2>3. QED
    BY <2>1, <2>2
<1>5. QED
  BY <1>1, <1>2, <1>3, <1>4 DEF EverLiveFits

LEMMA YieldBuilds ==
  ASSUME BuildInv, YieldEvent
  PROVE  BuildInv' /\ Builder!Emit
<1>1. /\ PeekRound /\ Consume /\ Live # {} /\ Service \in EventServices
      /\ out' = Append(out, [ts |-> MinTs, svc |-> Service, streams |-> Joining, dropped |-> dropped'])
      /\ status' = "suspended" /\ input' = input /\ Active
  BY DEF YieldEvent, PeekRound
<1>2. IInv /\ TypeOK /\ Swept /\ OutFits
  BY DEF BuildInv, IInv
<1>3. PICK s0 \in Joining : TRUE
  BY <1>1, <1>2, MinTsProperties
<1>4. PICK g : g = WaitingGroup(s0)
  OBVIOUS
<1>5. /\ g \in EventGroups
      /\ out' = Append(out, EventOf(g))
  BY <1>1, <1>4, IterationEvent DEF EventGroups
<1>6. g \notin Consumed /\ Consumed' = Consumed \cup {g} /\ Earlier(g) = Consumed
  BY <1>1, <1>4, <1>5, IterationConsumes
<1>7. /\ IsFiniteSet(Consumed) /\ Consumed \subseteq EventGroups
      /\ Cardinality(Consumed) \in Nat /\ Cardinality(EventGroups) \in Nat
      /\ Cardinality(Consumed) < Cardinality(EventGroups)
  <2>1. Cardinality(EventGroups) \in Nat
    BY <1>2, AllGroupsFacts, FS_CardinalityType
  <2>2. Consumed # EventGroups
    BY <1>5, <1>6
  <2>3. QED
    BY <1>2, <2>1, <2>2, ConsumedFacts
<1>8. Cardinality(Consumed') = Cardinality(Consumed) + 1
  BY <1>6, <1>7, FS_AddElement
<1>9. /\ Len(out) = Cardinality(Consumed)
      /\ Len(Builder!Schedule) = Cardinality(EventGroups)
      /\ Builder!Schedule[Len(out) + 1] = EventOf(g)
  <2>1. Len(out) = Cardinality(Consumed)
    BY <1>2 DEF OutFits
  <2>2. Cardinality(Consumed) + 1 \in 1..Cardinality(EventGroups)
    BY <1>7
  <2>3. QED
    BY <1>2, <1>5, <1>6, <2>1, <2>2, ScheduleFacts
<1>10. out \in Seq(Event) /\ Len(out) \in Nat
  BY <1>2 DEF TypeOK, LocalsOK
<1>11. /\ Len(out') = Len(out) + 1 /\ out'[Len(out) + 1] = EventOf(g)
       /\ \A k \in 1..Len(out) : out'[k] = out[k]
  BY <1>5, <1>10
<1>12. OutFits'
  <2>1. \A k \in 1..Len(out') : k \in 1..Len(out) \/ k = Len(out) + 1
    BY <1>10, <1>11
  <2>2. \A k \in 1..Len(out') : out'[k] = Builder!Schedule[k]
    BY <1>2, <1>9, <1>11, <2>1 DEF OutFits
  <2>3. Builder!Schedule' = Builder!Schedule
    BY <1>1, ScheduleIsFixed
  <2>4. QED
    BY <1>8, <1>9, <1>11, <2>2, <2>3 DEF OutFits
<1>13. BuildInv'
  BY <1>1, <1>2, <1>12, YieldPreserves, ConsumeSweeps, EverLiveKept DEF BuildInv
<1>14. Builder!Emit
  <2>1. Len(out) < Len(Builder!Schedule)
    BY <1>7, <1>9
  <2>2. out' = Append(out, Builder!Schedule[Len(out) + 1])
    BY <1>5, <1>9
  <2>3. Active /\ Active'
    BY <1>1 DEF Active, Suspended
  <2>4. QED
    BY <1>1, <2>1, <2>2, <2>3 DEF Builder!Emit
<1>15. QED
  BY <1>13, <1>14

LEMMA SkipStutters ==
  ASSUME BuildInv, SkipTransition
  PROVE  BuildInv' /\ UNCHANGED Builder!vars
<1>1. /\ PeekRound /\ Consume /\ Live # {} /\ Service \notin EventServices
      /\ out' = out /\ status' = "running" /\ input' = input /\ Active
  BY DEF SkipTransition, PeekRound
<1>2. IInv /\ TypeOK /\ Swept /\ OutFits
  BY DEF BuildInv, IInv
<1>3. PICK s0 \in Joining : TRUE
  BY <1>1, <1>2, MinTsProperties
<1>4. PICK g : g = WaitingGroup(s0)
  OBVIOUS
<1>5. g \notin EventGroups
  BY <1>1, <1>4, IterationEvent DEF EventGroups
<1>6. Consumed' = Consumed
  BY <1>1, <1>4, <1>5, IterationConsumes
<1>7. OutFits'
  BY <1>1, <1>2, <1>6, ScheduleIsFixed DEF OutFits
<1>8. BuildInv'
  BY <1>1, <1>2, <1>7, SkipPreserves, ConsumeSweeps, EverLiveKept DEF BuildInv
<1>9. UNCHANGED Builder!vars
  BY <1>1 DEF Builder!vars, Active, Suspended
<1>10. QED
  BY <1>8, <1>9

\* A step that consumes nothing keeps the invariant.
LEMMA StillKeeps ==
  ASSUME BuildInv, Exhausted \/ PeekRaises \/ ConsumerClose \/ UNCHANGED vars
  PROVE  BuildInv'
<1>1. UNCHANGED <<input, at, everLive, dropped, out>>
  BY DEF Exhausted, PeekRaises, ConsumerClose, vars
<1>2. IInv'
  BY StopPreserves DEF BuildInv
<1>3. Swept'
  BY <1>1, ScheduleIsFixed DEF BuildInv, Swept
<1>4. EverLiveFits'
  BY <1>1 DEF BuildInv, EverLiveFits
<1>5. Consumed' = Consumed
  BY <1>1, ScheduleIsFixed DEF Consumed
<1>6. OutFits'
  BY <1>1, <1>5, ScheduleIsFixed DEF BuildInv, OutFits
<1>7. QED
  BY <1>2, <1>3, <1>4, <1>6 DEF BuildInv

\* Once every event of the schedule is consumed, the schedule is what came out.
LEMMA AllConsumed ==
  ASSUME BuildInv, \A g \in EventGroups : g \in Consumed
  PROVE  out = Builder!Schedule
<1>1. TypeOK /\ OutFits
  BY DEF BuildInv, IInv
<1>2. Consumed = EventGroups
  BY <1>1, ConsumedFacts
<1>3. /\ out \in Seq(Event) /\ Len(out) = Cardinality(EventGroups)
      /\ \A k \in 1..Cardinality(EventGroups) : out[k] = Builder!Schedule[k]
  BY <1>1, <1>2 DEF OutFits, TypeOK, LocalsOK
<1>4. out = [k \in 1..Cardinality(EventGroups) |-> out[k]]
  BY <1>3
<1>5. Builder!Schedule = [k \in 1..Cardinality(EventGroups) |-> Builder!Schedule[k]]
  BY <1>1, ScheduleFacts
<1>6. QED
  BY <1>3, <1>4, <1>5

\* Where the merge stops by itself, no event is left that it could reach.
LEMMA StopsAtTheEnd ==
  ASSUME BuildInv, Live = {} \/ Refusing # {}, NEW g \in EventGroups
  PROVE  g \in Consumed
<1>1. TypeOK /\ Swept
  BY DEF BuildInv, IInv
<1>2. g \in AllGroups /\ Reached(g)
  BY DEF EventGroups
<1>3. PICK s \in Streams : \E i \in Place(s) : g = GroupOf(s, i)
  BY <1>1, <1>2, AllGroupsFacts
<1>4. PICK i \in Place(s) : g = GroupOf(s, i)
  BY <1>3
<1>5. i \in Nat /\ at[s] \in Nat /\ at[s] <= Len(input[s].dgs) /\ Len(input[s].dgs) \in Nat
      /\ i <= Len(input[s].dgs)
  BY <1>1, <1>4, PlaceFacts
<1>6. SUFFICES ASSUME i > at[s]
               PROVE  FALSE
  BY <1>4, <1>5 DEF Consumed
<1>7. CASE Live = {}
  BY <1>5, <1>6, <1>7 DEF Live
<1>8. CASE Refusing # {}
  <2>1. PICK r \in Refusing : TRUE
    BY <1>8
  <2>2. r \in Streams /\ r \notin Live /\ input[r].stop = "raised"
    BY DEF Refusing
  <2>3. ASSUME NEW j \in Place(r)
        PROVE  Before(GroupOf(r, j), g)
    <3>1. j <= at[r]
      BY <1>1, <2>2, PlaceFacts DEF Live
    <3>2. QED
      BY <1>4, <1>6, <2>2, <3>1, <1>1 DEF Swept
  <2>4. r \in DryAt(g)
    BY <2>2, <2>3 DEF DryAt
  <2>5. QED
    BY <1>2, <2>2, <2>4 DEF Reached
<1>9. QED
  BY <1>7, <1>8

LEMMA StopsBuild ==
  ASSUME BuildInv, Exhausted \/ PeekRaises
  PROVE  Builder!Stop
<1>1. /\ UNCHANGED <<input, out>> /\ Active /\ status' \in {"done", "raised"}
      /\ Live = {} \/ Refusing # {}
  BY DEF Exhausted, PeekRaises
<1>2. out = Builder!Schedule
  BY <1>1, StopsAtTheEnd, AllConsumed
<1>3. status' = IF \E s \in Streams : input[s].stop = "raised" THEN "raised" ELSE "done"
  <2>1. CASE Exhausted
    <3>1. status' = "done" /\ Live = {} /\ Refusing = {}
      BY <2>1 DEF Exhausted
    <3>2. QED
      BY <3>1 DEF Refusing
  <2>2. CASE PeekRaises
    BY <2>2 DEF PeekRaises, Refusing
  <2>3. QED
    BY <2>1, <2>2
<1>4. ~ Active'
  BY <1>1 DEF Active, Suspended
<1>5. QED
  BY <1>1, <1>2, <1>3, <1>4 DEF Builder!Stop

LEMMA CloseCloses ==
  ASSUME ConsumerClose
  PROVE  Builder!Close
BY DEF ConsumerClose, Suspended, Active, Builder!Close

LEMMA InitBuilds == Init => BuildInv /\ Builder!Init
<1> SUFFICES ASSUME Init
             PROVE  BuildInv /\ Builder!Init
  OBVIOUS
<1>1. at = [s \in Streams |-> 0] /\ everLive = {} /\ dropped = {} /\ out = <<>> /\ status = "suspended"
  BY DEF Init, Begin
<1>2. IInv /\ TypeOK
  BY InitEstablishes DEF IInv
<1>3. \A s \in Streams : \A i \in Place(s) : ~ (i <= at[s])
  BY <1>1, <1>2, PlaceFacts
<1>4. Swept /\ EverLiveFits
  BY <1>1, <1>3 DEF Swept, EverLiveFits
<1>5. Consumed = {}
  BY <1>3 DEF Consumed
<1>6. OutFits
  BY <1>1, <1>5, FS_EmptySet DEF OutFits
<1>7. Builder!Init
  BY <1>1 DEF Builder!Init, Active, Suspended
<1>8. QED
  BY <1>2, <1>4, <1>6, <1>7 DEF BuildInv

LEMMA StepBuilds ==
  BuildInv /\ [Next]_vars => BuildInv' /\ [Builder!Next]_Builder!vars
<1> SUFFICES ASSUME BuildInv, [Next]_vars
             PROVE  BuildInv' /\ [Builder!Next]_Builder!vars
  OBVIOUS
<1>1. CASE YieldEvent
  BY <1>1, YieldBuilds DEF Builder!Next
<1>2. CASE SkipTransition
  BY <1>2, SkipStutters
<1>3. CASE Exhausted \/ PeekRaises
  BY <1>3, StillKeeps, StopsBuild DEF Builder!Next
<1>4. CASE ConsumerClose
  BY <1>4, StillKeeps, CloseCloses DEF Builder!Next
<1>5. CASE UNCHANGED vars
  <2>1. UNCHANGED Builder!vars
    BY <1>5 DEF vars, Builder!vars, Active, Suspended
  <2>2. QED
    BY <1>5, <2>1, StillKeeps
<1>6. QED
  BY <1>1, <1>2, <1>3, <1>4, <1>5 DEF Next, Iterate

\* events() builds its streams' events whole, each once, in order, with the
\* drop-outs of that moment, and stops as its streams do.
THEOREM MergeBuildsEvents == Spec => BuildsEvents
BY InitBuilds, StepBuilds, PTL DEF Spec, BuildsEvents, Builder!Spec
=============================================================================
