-------------------------- MODULE DiscoveryProofs --------------------------
(***************************************************************************)
(* For any runs, however nested and wherever cut, and any window: a run    *)
(* that opens has every Names table its streams declare, a refusal has one *)
(* of the three reasons, and no unvalidated raw version goes unnoticed.    *)
(* For any events: a detector is present only if all of it was written,    *)
(* and of sound dgrams always then; what Event says of one that has no     *)
(* frame, and of its damage, is true of the streams that carry it.         *)
(***************************************************************************)
EXTENDS EventAccess, TLAPS, FiniteSetTheorems

\* A non-empty set of naturals has a least element, and Min finds it.
LEMMA MinProperties ==
  ASSUME NEW T, T \subseteq Nat, T # {}
  PROVE  Min(T) \in T /\ \A y \in T : Min(T) <= y
<1> DEFINE R == OpToRel(<, Nat)
<1>1. IsWellFoundedOn(R, Nat)
  BY NatLessThanWellFounded
<1>2. \A x, y \in Nat : x < y => <<x, y>> \in R
  BY DEF OpToRel
<1> HIDE DEF R
<1>3. PICK x \in T : \A y \in T : ~ (<<y, x>> \in R)
  BY <1>1, WFMin
<1>4. \A y \in T : x \in Nat /\ y \in Nat /\ ~ (y < x)
  BY <1>2, <1>3
<1>5. \A y \in T : x <= y
  BY <1>4
<1>6. QED
  BY <1>5 DEF Min

\* The run being opened is still followed.
Following == stage \in {"front", "walk", "opened"}

\* A table's version has been dealt with.
Noted(t) ==
    t.alg = "raw" =>
        \/ <<t.type, t.version>> \in Validated
        \/ Acknowledged(t.type, t.version)
        \/ ~strict /\ <<t.type, t.version>> \in Range(log)

TablesNoted == \A k \in DOMAIN tables : Noted(tables[k])

RawTablesNoted == \A s \in DOMAIN rawTables : \A k \in DOMAIN rawTables[s] : Noted(rawTables[s][k])

\* The inductive invariant of the version signal: the set of signalled
\* versions is what was logged, and each table read so far is dealt with.
VersionInv ==
    /\ log \in Seq(signaled) /\ Range(log) = signaled /\ IsInjective(log)
    /\ Following => RawTablesNoted
    /\ stage = "walk" => TablesNoted

-----------------------------------------------------------------------------
(* The version signal.                                                     *)

\* A version is logged once, and then for good.
LEMMA SignalLogsOnce ==
    ASSUME VersionInv, NEW key, Signal(key)
    PROVE  /\ log' \in Seq(signaled') /\ Range(log') = signaled' /\ IsInjective(log')
           /\ key \in Range(log') /\ Range(log) \subseteq Range(log')
<1>1. /\ signaled' = signaled \cup {key}
      /\ log' = IF key \in signaled THEN log ELSE Append(log, key)
    BY DEF Signal
<1>2. log \in Seq(signaled) /\ Range(log) = signaled /\ IsInjective(log)
    BY DEF VersionInv
<1>3. CASE key \in signaled
    <2>1. signaled' = signaled /\ log' = log
        BY <1>1, <1>3
    <2>2. QED
        BY <1>2, <1>3, <2>1
<1>4. CASE key \notin signaled
    <2>1. /\ Len(log) \in Nat /\ DOMAIN log = 1 .. Len(log)
          /\ \A i \in 1 .. Len(log) : log[i] \in signaled
        BY <1>2
    <2>2. log' = Append(log, key) /\ log \in Seq(signaled')
        BY <1>1, <1>2, <1>4
    <2>3. /\ Len(log') = Len(log) + 1 /\ DOMAIN log' = 1 .. Len(log) + 1
          /\ log'[Len(log) + 1] = key /\ \A i \in 1 .. Len(log) : log'[i] = log[i]
          /\ log' \in Seq(signaled')
        BY <1>1, <2>1, <2>2
    <2>4. IsInjective(log')
        BY <1>2, <1>4, <2>1, <2>3 DEF IsInjective
    <2>5. Range(log') = signaled'
        BY <1>1, <1>2, <2>1, <2>3 DEF Range
    <2>6. QED
        BY <1>1, <1>2, <2>3, <2>4, <2>5
<1>5. QED
    BY <1>3, <1>4

\* What is dealt with stays dealt with while a run is followed.
LEMMA NotedStays ==
    ASSUME UNCHANGED <<strict, acknowledged>>, Range(log) \subseteq Range(log')
    PROVE  \A t : Noted(t) => Noted(t)'
BY DEF Noted, Acknowledged

LEMMA ReadVersionNotes ==
    ASSUME VersionInv, ReadVersion
    PROVE  /\ log' \in Seq(signaled') /\ Range(log') = signaled' /\ IsInjective(log')
           /\ UNCHANGED <<strict, acknowledged>> /\ Range(log) \subseteq Range(log')
           /\ \A t : t = Child.table => Noted(t)'
<1> DEFINE key == <<Child.table.type, Child.table.version>>
<1>1. /\ ~(Unvalidated(Child.table) /\ strict) /\ UNCHANGED <<strict, acknowledged>>
      /\ IF Unvalidated(Child.table) THEN Signal(key) ELSE UNCHANGED <<signaled, log>>
    BY DEF ReadVersion
<1>2. CASE Unvalidated(Child.table)
    <2>1. Signal(key) /\ ~strict
        BY <1>1, <1>2
    <2>2. /\ log' \in Seq(signaled') /\ Range(log') = signaled' /\ IsInjective(log')
          /\ key \in Range(log') /\ Range(log) \subseteq Range(log')
        BY <2>1, SignalLogsOnce
    <2>3. \A t : t = Child.table => Noted(t)'
        BY <1>1, <2>1, <2>2 DEF Noted
    <2>4. QED
        BY <1>1, <2>2, <2>3
<1>3. CASE ~Unvalidated(Child.table)
    <2>1. UNCHANGED <<strict, acknowledged, signaled, log>>
        BY <1>1, <1>3
    <2>2. \A t : t = Child.table => Noted(t)'
        BY <1>3, <2>1 DEF Noted, Unvalidated, Acknowledged
    <2>3. QED
        BY <2>1, <2>2 DEF VersionInv
<1>4. QED
    BY <1>2, <1>3

\* Steps that leave the log alone and read no table.
LEMMA VersionInvKept ==
    ASSUME VersionInv, UNCHANGED <<signaled, log>>,
           \/ stage' \notin {"front", "walk", "opened"}
           \/ /\ UNCHANGED <<strict, acknowledged>>
              /\ rawTables' = <<>> \/ (rawTables' = rawTables /\ Following)
              /\ stage' = "walk" => tables' = <<>> \/ (stage = "walk" /\ tables' = tables)
    PROVE  VersionInv'
<1>1. CASE stage' \notin {"front", "walk", "opened"}
    BY <1>1 DEF VersionInv, Following
<1>2. CASE /\ UNCHANGED <<strict, acknowledged>>
           /\ rawTables' = <<>> \/ (rawTables' = rawTables /\ Following)
           /\ stage' = "walk" => tables' = <<>> \/ (stage = "walk" /\ tables' = tables)
    <2>1. \A t : Noted(t) => Noted(t)'
        BY <1>2, NotedStays
    <2>2. RawTablesNoted'
        BY <1>2, <2>1 DEF VersionInv, RawTablesNoted, Noted, Acknowledged
    <2>3. stage' = "walk" => TablesNoted'
        BY <1>2, <2>1 DEF VersionInv, TablesNoted, Noted, Acknowledged
    <2>4. QED
        BY <2>2, <2>3 DEF VersionInv
<1>3. QED
    BY <1>1, <1>2

LEMMA VersionInvInit == Init => VersionInv
<1> SUFFICES ASSUME Init
             PROVE  VersionInv
    OBVIOUS
<1>1. log = <<>> /\ signaled = {} /\ rawTables = <<>> /\ stage = "idle"
    BY DEF Init, DiscoveryInit
<1>2. log \in Seq(signaled) /\ Range(log) = signaled /\ IsInjective(log)
    BY <1>1 DEF Range, IsInjective
<1>3. QED
    BY <1>1, <1>2 DEF VersionInv, Following

LEMMA VersionInvNext ==
    ASSUME VersionInv, [Next]_vars
    PROVE  VersionInv'
<1> USE DEF walkVars, versionVars
<1>1. CASE VisitNames
    <2>1. /\ ReadVersion /\ stage = "walk" /\ tables' = Put(tables, Child.key, Child.table)
          /\ stage' = stage /\ rawTables' = rawTables
        BY <1>1 DEF VisitNames, ReadVersion, AtNames, AtChild
    <2>2. /\ log' \in Seq(signaled') /\ Range(log') = signaled' /\ IsInjective(log')
          /\ UNCHANGED <<strict, acknowledged>> /\ Range(log) \subseteq Range(log')
          /\ \A t : t = Child.table => Noted(t)'
        BY <2>1, ReadVersionNotes
    <2>3. \A t : Noted(t) => Noted(t)'
        BY <2>2, NotedStays
    <2>4. TablesNoted'
        <3>0. PICK T : T = Put(tables, Child.key, Child.table)
            OBVIOUS
        <3>1. /\ DOMAIN T = DOMAIN tables \cup {Child.key} /\ T[Child.key] = Child.table
              /\ \A k \in DOMAIN tables \ {Child.key} : T[k] = tables[k]
            BY <3>0 DEF Put
        <3>2. tables' = T
            BY <2>1, <3>0
        <3>3. TablesNoted
            BY <2>1 DEF VersionInv
        <3>4. \A k \in DOMAIN T : T[k] = Child.table \/ Noted(T[k])
            BY <3>1, <3>3 DEF TablesNoted
        <3>5. QED
            BY <2>2, <2>3, <3>2, <3>4 DEF TablesNoted, Noted, Acknowledged
    <2>5. RawTablesNoted'
        BY <2>1, <2>3 DEF VersionInv, Following, RawTablesNoted, Noted, Acknowledged
    <2>6. QED
        BY <2>2, <2>4, <2>5 DEF VersionInv
<1>2. CASE CutInFields
    <2>1. ReadVersion /\ stage' = "refused"
        BY <1>2 DEF CutInFields
    <2>2. log' \in Seq(signaled') /\ Range(log') = signaled' /\ IsInjective(log')
        BY <2>1, ReadVersionNotes
    <2>3. QED
        BY <2>1, <2>2 DEF VersionInv, Following
<1>3. CASE StreamDiscovered
    <2>1. /\ stage = "walk" /\ stage' = "front" /\ rawTables' = Put(rawTables, Stream, tables)
          /\ UNCHANGED <<strict, acknowledged, signaled, log, tables>>
        BY <1>3 DEF StreamDiscovered, RangeDone
    <2>2. \A t : Noted(t) => Noted(t)'
        BY <2>1, NotedStays
    <2>3. RawTablesNoted'
        <3>0. PICK R : R = Put(rawTables, Stream, tables)
            OBVIOUS
        <3>1. /\ DOMAIN R = DOMAIN rawTables \cup {Stream} /\ R[Stream] = tables
              /\ \A s \in DOMAIN rawTables \ {Stream} : R[s] = rawTables[s]
            BY <3>0 DEF Put
        <3>2. rawTables' = R
            BY <2>1, <3>0
        <3>3. TablesNoted /\ RawTablesNoted
            BY <2>1 DEF VersionInv, Following
        <3>4. \A s \in DOMAIN R : \A k \in DOMAIN R[s] : Noted(R[s][k])
            BY <3>1, <3>3 DEF TablesNoted, RawTablesNoted
        <3>5. QED
            BY <2>1, <2>2, <3>2, <3>4 DEF RawTablesNoted, Noted, Acknowledged
    <2>4. QED
        BY <2>1, <2>3 DEF VersionInv
<1>4. CASE ChangeStrict \/ \E ack \in Acks : AcknowledgeVersion(ack)
    BY <1>4, VersionInvKept DEF ChangeStrict, AcknowledgeVersion
<1>5. CASE \E run \in Runs : Discover(run)
    BY <1>5, VersionInvKept DEF Discover
<1>6. CASE NoConfigure \/ CutShort \/ StrictVersion
    BY <1>6, VersionInvKept DEF NoConfigure, CutShort, StrictVersion, StrictKeeps, Refuse
<1>7. CASE ParseConfigure \/ Discovered
    BY <1>7, VersionInvKept DEF ParseConfigure, Discovered, Following
<1>8. CASE VisitParent \/ VisitOther \/ PopRange
    BY <1>8, VersionInvKept DEF VisitParent, VisitOther, PopRange, RangeDone, AtChild, Following
<1>9. CASE Assemble \/ IndexingRaises \/ Indexed
    BY <1>9, VersionInvKept DEF Assemble, IndexingRaises, Indexed
<1>10. CASE EnterDgram \/ Capture \/ Descend \/ PassOver \/ LeaveRange
    BY <1>10, VersionInvKept DEF EnterDgram, Capture, Descend, PassOver, LeaveRange, OnXtc,
       discoveryVars
<1>11. CASE UNCHANGED vars
    <2>1. UNCHANGED <<stage, rawTables, tables, strict, acknowledged, signaled, log>>
        BY <1>11 DEF vars, discoveryVars
    <2>2. Following' = Following
        BY <2>1 DEF Following
    <2>3. TablesNoted' = TablesNoted /\ RawTablesNoted' = RawTablesNoted
        BY <2>1 DEF TablesNoted, RawTablesNoted, Noted, Acknowledged
    <2>4. QED
        BY <2>1, <2>2, <2>3 DEF VersionInv
<1>12. QED
    BY <1>1, <1>2, <1>3, <1>4, <1>5, <1>6, <1>7, <1>8, <1>9, <1>10, <1>11
       DEF Next, Open, DiscoveryNext

\* Whatever was opened, refused or acknowledged before, each unvalidated raw
\* version of a run that opens is logged or acknowledged, in strict mode
\* acknowledged, and none is logged twice.
THEOREM AlwaysSignalled == Spec => []VersionsSignalled
<1>1. VersionInv => VersionsSignalled
    <2> SUFFICES ASSUME VersionInv
                 PROVE  VersionsSignalled
        OBVIOUS
    <2>1. ASSUME stage = "opened", NEW v \in Foreign
          PROVE  Acknowledged(v[1], v[2]) \/ (~strict /\ v \in Range(log))
        <3>1. PICK s \in DOMAIN rawTables :
                \E t \in Range(rawTables[s]) : t.alg = "raw" /\ v = <<t.type, t.version>>
            BY DEF Foreign
        <3>2. PICK k \in DOMAIN rawTables[s] :
                rawTables[s][k].alg = "raw" /\ v = <<rawTables[s][k].type, rawTables[s][k].version>>
            BY <3>1 DEF Range
        <3>3. Noted(rawTables[s][k])
            BY <2>1 DEF VersionInv, Following, RawTablesNoted
        <3>4. v \notin Validated
            BY DEF Foreign
        <3>5. v[1] = rawTables[s][k].type /\ v[2] = rawTables[s][k].version
            BY <3>2
        <3>6. QED
            BY <3>2, <3>3, <3>4, <3>5 DEF Noted
    <2>2. QED
        BY <2>1 DEF VersionsSignalled, VersionInv
<1>2. QED
    BY <1>1, VersionInvInit, VersionInvNext, PTL DEF Spec

-----------------------------------------------------------------------------
(* The walk over a Configure, as a walk over a set of byte ranges.         *)

\* A Configure as RunsAssumption has it.
IsConfigure(c) ==
    c \in Seq(Range(c)) /\ c # <<>> /\ c[1].type = "Configure" /\ WellNested(c)

\* The tables a stream declares, and no others.
Whole(c, t) ==
    /\ DOMAIN t = {c[i].key : i \in Declared(c)}
    /\ \A i \in Declared(c) : t[c[i].key] = c[i].table

\* Any dgram of Xtcs, as Nested has it.
IsTree(c, leaf) == c \in Seq(Range(c)) /\ c # <<>> /\ Nested(c, leaf)

\* The ranges still to be walked start at an Xtc or are empty.
InStep(c, ranges) ==
    /\ ranges \subseteq [off : 2 .. Len(c) + 1, end : 0 .. Len(c)]
    /\ \A r \in ranges : r.off <= r.end => IsXtc(c[r.off])

\* ... and every Names block is in the tables or in one of the ranges.
Walked(c, ranges, t) ==
    /\ InStep(c, ranges)
    /\ \A k \in DOMAIN t : \E i \in Declared(c) : c[i].key = k
    /\ \A i \in Declared(c) :
           \/ c[i].key \in DOMAIN t /\ t[c[i].key] = c[i].table
           \/ \E r \in ranges : i \in r.off .. r.end

Behind(c, r) == [r EXCEPT !.off = @ + c[r.off].n]

Within(c, r) == [off |-> r.off + 1, end |-> r.off + c[r.off].n - 1]

LEMMA TreeStarts ==
    ASSUME NEW c, NEW leaf, IsTree(c, leaf)
    PROVE  /\ InStep(c, {[off |-> 2, end |-> c[1].n]})
           /\ \A i \in DOMAIN c : c[i].type = leaf => i \in 2 .. c[1].n
<1>1. Len(c) \in Nat \ {0} /\ DOMAIN c = 1 .. Len(c)
    BY DEF IsTree
<1>2. c[1].n = Len(c) /\ c[1].type # leaf /\ (Len(c) > 1 => IsXtc(c[2]))
    BY DEF IsTree, Nested
<1>3. QED
    BY <1>1, <1>2 DEF InStep

\* The Xtc at the front of a range is passed: what is behind it and, in a
\* Parent, what is within it are ranges again, and no other leaf is lost.
LEMMA PassXtc ==
    ASSUME NEW c, NEW leaf, IsTree(c, leaf), NEW rest, NEW r,
           InStep(c, {r} \cup rest), r.off <= r.end
    PROVE  LET o == r.off
               b == Behind(c, r)
               p == Within(c, r)
           IN /\ o \in 2 .. Len(c) /\ IsXtc(c[o])
              /\ c[o].n \in Nat \ {0} /\ o + c[o].n \in 3 .. Len(c) + 1
              /\ InStep(c, {b} \cup rest)
              /\ c[o].type = "Parent" => InStep(c, {b, p} \cup rest)
              /\ \A i \in r.off .. r.end :
                     c[i].type = leaf =>
                         \/ i = o \/ i \in b.off .. b.end
                         \/ c[o].type = "Parent" /\ i \in p.off .. p.end
<1> DEFINE o == r.off
           next == o + c[o].n
<1>1. r \in [off : 2 .. Len(c) + 1, end : 0 .. Len(c)] /\ IsXtc(c[o]) /\ Len(c) \in Nat
    BY DEF InStep, IsTree
<1>2. o \in 2 .. Len(c) /\ r.end \in 0 .. Len(c)
    BY <1>1
<1>3. /\ c[o].n \in 1 .. Len(c) /\ next <= Len(c) + 1
      /\ next <= Len(c) => IsXtc(c[next])
      /\ c[o].type = "Parent" => (next > o + 1 => IsXtc(c[o + 1]))
      /\ c[o].type # "Parent" => \A j \in o + 1 .. next - 1 : c[j].type # leaf
    BY <1>1, <1>2 DEF IsTree, Nested
<1>4. PICK b, p : b = Behind(c, r) /\ p = Within(c, r)
    OBVIOUS
<1>5. next \in 3 .. Len(c) + 1 /\ next - 1 = o + c[o].n - 1
    BY <1>1, <1>2, <1>3
<1>6. /\ b = [off |-> next, end |-> r.end]
      /\ p = [off |-> o + 1, end |-> next - 1]
    BY <1>1, <1>4, <1>5 DEF Behind, Within
<1> HIDE DEF next, o
<1>7. /\ b \in [off : 2 .. Len(c) + 1, end : 0 .. Len(c)] /\ b.off = next /\ b.end = r.end
      /\ p \in [off : 2 .. Len(c) + 1, end : 0 .. Len(c)] /\ p.off = o + 1 /\ p.end = next - 1
    BY <1>1, <1>2, <1>5, <1>6
<1>8. InStep(c, rest)
    BY DEF InStep
<1>9. b.off <= b.end => IsXtc(c[b.off])
    BY <1>1, <1>2, <1>3, <1>5, <1>7
<1>10. c[o].type = "Parent" => (p.off <= p.end => IsXtc(c[p.off]))
    BY <1>1, <1>2, <1>3, <1>5, <1>7
<1>11. InStep(c, {b} \cup rest) /\ (c[o].type = "Parent" => InStep(c, {b, p} \cup rest))
    BY <1>7, <1>8, <1>9, <1>10 DEF InStep
<1>12. ASSUME NEW i \in o .. r.end, c[i].type = leaf
       PROVE  \/ i = o \/ i \in b.off .. b.end
              \/ c[o].type = "Parent" /\ i \in p.off .. p.end
    BY <1>2, <1>3, <1>5, <1>7, <1>12
<1>13. c[o].n \in Nat \ {0} /\ o + c[o].n \in 3 .. Len(c) + 1
    BY <1>1, <1>3, <1>5 DEF next
<1>14. QED
    BY <1>1, <1>2, <1>4, <1>11, <1>12, <1>13 DEF o

LEMMA RangeEmpty ==
    ASSUME NEW c, NEW leaf, IsTree(c, leaf), NEW rest, NEW r,
           InStep(c, {r} \cup rest), ~(r.off <= r.end)
    PROVE  InStep(c, rest) /\ \A i : i \notin r.off .. r.end
<1>1. r \in [off : 2 .. Len(c) + 1, end : 0 .. Len(c)] /\ Len(c) \in Nat
    BY DEF InStep, IsTree
<1>2. QED
    BY <1>1 DEF InStep

-----------------------------------------------------------------------------
LEMMA ConfigureIsTree ==
    ASSUME NEW c, IsConfigure(c)
    PROVE  /\ IsTree(c, "Names") /\ Len(c) \in Nat \ {0} /\ DOMAIN c = 1 .. Len(c)
           /\ c[1].n = Len(c)
           /\ \A i \in Declared(c) : i \in DOMAIN c /\ c[i].type = "Names" /\ c[i].n > 1
           /\ \A i, j \in Declared(c) : c[i].key = c[j].key => i = j
BY DEF IsConfigure, IsTree, WellNested, Nested, Declared

LEMMA WalkStarts ==
    ASSUME NEW c, IsConfigure(c)
    PROVE  Walked(c, {[off |-> 2, end |-> c[1].n]}, <<>>)
<1>1. PICK r : r = [off |-> 2, end |-> c[1].n]
    OBVIOUS
<1>2. InStep(c, {r}) /\ \A i \in Declared(c) : i \in r.off .. r.end
    BY <1>1, ConfigureIsTree, TreeStarts
<1>3. QED
    BY <1>1, <1>2 DEF Walked

\* Past a Names block: its table is added.
LEMMA PassNames ==
    ASSUME NEW c, IsConfigure(c), NEW rest, NEW r, NEW t,
           Walked(c, {r} \cup rest, t), r.off <= r.end, c[r.off].type = "Names"
    PROVE  Walked(c, {Behind(c, r)} \cup rest, Put(t, c[r.off].key, c[r.off].table))
<1>0. IsTree(c, "Names") /\ InStep(c, {r} \cup rest)
    BY ConfigureIsTree DEF Walked
<1>1. PICK u, o, b : u = Put(t, c[o].key, c[o].table) /\ o = r.off /\ b = Behind(c, r)
    OBVIOUS
<1>2. /\ DOMAIN u = DOMAIN t \cup {c[o].key} /\ u[c[o].key] = c[o].table
      /\ \A k \in DOMAIN t \ {c[o].key} : u[k] = t[k]
    BY <1>1 DEF Put
<1>3. /\ r.off \in 2 .. Len(c) /\ InStep(c, {b} \cup rest)
      /\ \A i \in r.off .. r.end : c[i].type = "Names" => i = r.off \/ i \in b.off .. b.end
    <2>1. /\ r.off \in 2 .. Len(c) /\ InStep(c, {Behind(c, r)} \cup rest)
          /\ \A i \in r.off .. r.end :
                 c[i].type = "Names" => i = r.off \/ i \in Behind(c, r).off .. Behind(c, r).end
        BY <1>0, PassXtc
    <2>2. QED
        BY <1>1, <2>1
<1>4. o \in Declared(c)
    BY <1>1, <1>3, ConfigureIsTree DEF Declared
<1>5. \A i \in Declared(c) : c[i].type = "Names" /\ (c[i].key = c[o].key => i = o)
    BY <1>4, ConfigureIsTree
<1>6. \A k \in DOMAIN u : \E i \in Declared(c) : c[i].key = k
    BY <1>2, <1>4 DEF Walked
<1>7. ASSUME NEW i \in Declared(c)
      PROVE  \/ c[i].key \in DOMAIN u /\ u[c[i].key] = c[i].table
             \/ \E q \in {b} \cup rest : i \in q.off .. q.end
    <2>1. CASE i = o
        BY <1>2, <2>1
    <2>2. CASE i # o /\ c[i].key \in DOMAIN t /\ t[c[i].key] = c[i].table
        BY <1>2, <1>5, <2>2
    <2>3. CASE i # o /\ \E q \in {r} \cup rest : i \in q.off .. q.end
        BY <1>1, <1>3, <1>5, <2>3
    <2>4. QED
        BY <2>1, <2>2, <2>3 DEF Walked
<1>8. Walked(c, {b} \cup rest, u)
    BY <1>3, <1>6, <1>7 DEF Walked
<1>9. QED
    BY <1>1, <1>8

LEMMA PassParent ==
    ASSUME NEW c, IsConfigure(c), NEW rest, NEW r, NEW t,
           Walked(c, {r} \cup rest, t), r.off <= r.end, c[r.off].type = "Parent"
    PROVE  Walked(c, {Behind(c, r), Within(c, r)} \cup rest, t)
<1>0. IsTree(c, "Names") /\ InStep(c, {r} \cup rest)
    BY ConfigureIsTree DEF Walked
<1>1. PICK b, p : b = Behind(c, r) /\ p = Within(c, r)
    OBVIOUS
<1>2. /\ InStep(c, {b, p} \cup rest)
      /\ \A i \in r.off .. r.end :
             c[i].type = "Names" => i = r.off \/ i \in b.off .. b.end \/ i \in p.off .. p.end
    BY <1>0, <1>1, PassXtc
<1>3. \A i \in Declared(c) : c[i].type = "Names" /\ i # r.off
    BY ConfigureIsTree
<1>4. ASSUME NEW i \in Declared(c), \E q \in {r} \cup rest : i \in q.off .. q.end
      PROVE  \E q \in {b, p} \cup rest : i \in q.off .. q.end
    BY <1>2, <1>3, <1>4
<1>5. Walked(c, {b, p} \cup rest, t)
    BY <1>2, <1>4 DEF Walked
<1>6. QED
    BY <1>1, <1>5

LEMMA PassOther ==
    ASSUME NEW c, IsConfigure(c), NEW rest, NEW r, NEW t,
           Walked(c, {r} \cup rest, t), r.off <= r.end, c[r.off].type \notin {"Names", "Parent"}
    PROVE  Walked(c, {Behind(c, r)} \cup rest, t)
<1>0. IsTree(c, "Names") /\ InStep(c, {r} \cup rest)
    BY ConfigureIsTree DEF Walked
<1>1. PICK b : b = Behind(c, r)
    OBVIOUS
<1>2. /\ InStep(c, {b} \cup rest)
      /\ \A i \in r.off .. r.end : c[i].type = "Names" => i = r.off \/ i \in b.off .. b.end
    BY <1>0, <1>1, PassXtc
<1>3. \A i \in Declared(c) : c[i].type = "Names" /\ i # r.off
    BY ConfigureIsTree
<1>4. ASSUME NEW i \in Declared(c), \E q \in {r} \cup rest : i \in q.off .. q.end
      PROVE  \E q \in {b} \cup rest : i \in q.off .. q.end
    BY <1>2, <1>3, <1>4
<1>5. Walked(c, {b} \cup rest, t)
    BY <1>2, <1>4 DEF Walked
<1>6. QED
    BY <1>1, <1>5

\* The block at the front of a range lies within the Configure.
LEMMA FrontXtc ==
    ASSUME NEW c, IsConfigure(c), NEW rest, NEW r, NEW t,
           Walked(c, {r} \cup rest, t), r.off <= r.end
    PROVE  /\ r.off \in 2 .. Len(c) /\ c[r.off].n \in Nat \ {0}
           /\ r.off + c[r.off].n \in 3 .. Len(c) + 1
           /\ c[r.off].type = "Names" => c[r.off].n > 1
<1>1. /\ r.off \in 2 .. Len(c) /\ c[r.off].n \in Nat \ {0}
      /\ r.off + c[r.off].n \in 3 .. Len(c) + 1
    BY ConfigureIsTree, PassXtc DEF Walked
<1>2. c[r.off].type = "Names" => r.off \in Declared(c)
    BY <1>1, ConfigureIsTree DEF Declared
<1>3. QED
    BY <1>1, <1>2, ConfigureIsTree

LEMMA RangeLeft ==
    ASSUME NEW c, IsConfigure(c), NEW rest, NEW r, NEW t,
           Walked(c, {r} \cup rest, t), ~(r.off <= r.end)
    PROVE  Walked(c, rest, t)
BY ConfigureIsTree, RangeEmpty DEF Walked

LEMMA WalkEnds ==
    ASSUME NEW c, NEW t, Walked(c, {}, t)
    PROVE  Whole(c, t)
BY DEF Walked, Whole

\* A file with a whole Configure is buffered to the Configure's end.
LEMMA BufferWhole ==
    ASSUME NEW file, IsConfigure(file.cells), file.len = Len(file.cells)
    PROVE  FrontBuffer(file) \in Nat /\ FrontBuffer(file) >= Len(file.cells)
<1> DEFINE size == Size(file.cells)
           full == {k * ReadWindow : k \in {j \in 1 .. size : j * ReadWindow >= size}}
<1>1. size \in Nat /\ file.len = size /\ size = Len(file.cells)
    BY ConfigureIsTree DEF Size
<1>2. \A j \in Nat : j * ReadWindow \in Nat
    BY ReadWindowAssumption
<1>3. {file.len} \cup full \subseteq Nat /\ \A x \in {file.len} \cup full : x >= size
    BY <1>1, <1>2
<1>4. Min({file.len} \cup full) \in {file.len} \cup full
    BY <1>3, MinProperties
<1>5. QED
    BY <1>1, <1>3, <1>4 DEF FrontBuffer

-----------------------------------------------------------------------------
(* The tables.                                                             *)

\* Why a run may be refused.
Reason ==
    \/ \E s \in DOMAIN files :
          files[s].len < Len(files[s].cells) \/ files[s].cells[1].type # "Configure"
    \/ strict

RunInv ==
    /\ files \in Runs /\ left \subseteq DOMAIN files
    /\ DOMAIN rawTables = DOMAIN files \ left
    /\ \A s \in DOMAIN rawTables : Whole(files[s].cells, rawTables[s])

WalkInv ==
    /\ left # {} /\ Cells[1].type = "Configure"
    /\ stack \in Seq(Range(stack))
    /\ Walked(Cells, {cur} \cup Range(stack), tables)

\* The inductive invariant of the tables: the streams behind are whole, the
\* stream at hand is whole up to the ranges still to be walked.
TablesInv ==
    /\ Following => RunInv
    /\ stage = "opened" => left = {}
    /\ stage = "walk" => WalkInv
    /\ stage = "refused" => Reason

LEMMA StreamLeft ==
    ASSUME RunInv, left # {}
    PROVE  /\ Stream \in left /\ Stream \in DOMAIN files
           /\ files[Stream].len \in 0 .. Len(Cells) /\ Cells # <<>>
           /\ Cells \in Seq(Range(Cells))
           /\ Cells[1].type = "Configure" => IsConfigure(Cells)
<1>1. left \subseteq Nat
    BY RunsAssumption DEF RunInv
<1>2. Stream \in left
    BY <1>1, MinProperties DEF Stream
<1>3. QED
    BY <1>2, RunsAssumption DEF RunInv, Cells, IsConfigure

\* A range pushed on the stack, and the last one taken off.
LEMMA StackProperties ==
    ASSUME NEW st, st \in Seq(Range(st))
    PROVE  /\ \A p : Append(st, p) \in Seq(Range(Append(st, p)))
                     /\ Range(Append(st, p)) = Range(st) \cup {p}
           /\ st # <<>> =>
                 /\ Front(st) \in Seq(Range(Front(st)))
                 /\ Range(st) = {Last(st)} \cup Range(Front(st))
<1>1. Len(st) \in Nat /\ DOMAIN st = 1 .. Len(st)
    OBVIOUS
<1>2. ASSUME NEW p
      PROVE  /\ Append(st, p) \in Seq(Range(Append(st, p)))
             /\ Range(Append(st, p)) = Range(st) \cup {p}
    <2>1. PICK a : a = Append(st, p)
        OBVIOUS
    <2>2. a \in Seq(Range(st) \cup {p})
        BY <2>1
    <2>3. /\ Len(a) = Len(st) + 1 /\ DOMAIN a = 1 .. Len(st) + 1
          /\ a[Len(st) + 1] = p /\ \A i \in 1 .. Len(st) : a[i] = st[i]
        BY <1>1, <2>1
    <2>4. Range(a) = Range(st) \cup {p}
        BY <1>1, <2>3 DEF Range
    <2>5. QED
        BY <2>1, <2>2, <2>4
<1>3. ASSUME st # <<>>
      PROVE  /\ Front(st) \in Seq(Range(Front(st)))
             /\ Range(st) = {Last(st)} \cup Range(Front(st))
    <2>1. Len(st) \in Nat \ {0}
        BY <1>1, <1>3
    <2>2. PICK f : f = Front(st)
        OBVIOUS
    <2>3. f = [i \in 1 .. Len(st) - 1 |-> st[i]]
        BY <2>1, <2>2 DEF Front
    <2>4. \A i \in 1 .. Len(st) - 1 : f[i] \in Range(f)
        BY <2>3 DEF Range
    <2>5. f \in Seq(Range(f))
        BY <2>1, <2>3, <2>4
    <2>6. Range(st) = {st[Len(st)]} \cup Range(f)
        BY <1>1, <2>1, <2>3 DEF Range
    <2>7. QED
        BY <2>2, <2>5, <2>6 DEF Last
<1>4. QED
    BY <1>2, <1>3

\* A step of the walk leaves the run alone.
LEMMA WalkOn ==
    ASSUME TablesInv, stage = "walk",
           UNCHANGED <<stage, files, left, rawTables>>,
           stack' \in Seq(Range(stack')),
           Walked(Cells, {cur'} \cup Range(stack'), tables')
    PROVE  TablesInv'
<1>1. RunInv /\ WalkInv
    BY DEF TablesInv, Following
<1>2. Cells' = Cells
    BY DEF Cells, Stream
<1>3. WalkInv'
    BY <1>1, <1>2 DEF WalkInv
<1>4. RunInv'
    BY <1>1 DEF RunInv
<1>5. QED
    BY <1>3, <1>4 DEF TablesInv

\* A refusal gives its reason.
LEMMA Refused ==
    ASSUME stage' = "refused", UNCHANGED <<files, strict>>, Reason
    PROVE  TablesInv'
BY DEF TablesInv, Following, Reason

LEMMA TablesInvNext ==
    ASSUME TablesInv, [Next]_vars
    PROVE  TablesInv'
<1> USE DEF walkVars, versionVars
<1>1. CASE NoConfigure
    <2>1. /\ RunInv /\ left # {} /\ stage' = "refused" /\ UNCHANGED <<files, strict>>
          /\ files[Stream].len = 0 \/ Cells[1].type # "Configure"
        BY <1>1 DEF NoConfigure, Refuse, TablesInv, Following
    <2>2. /\ Stream \in DOMAIN files /\ Cells # <<>> /\ Cells \in Seq(Range(Cells))
        BY <2>1, StreamLeft
    <2>3. files[Stream].len < Len(Cells) \/ Cells[1].type # "Configure"
        BY <2>1, <2>2
    <2>4. Reason
        BY <2>2, <2>3 DEF Reason, Cells
    <2>5. QED
        BY <2>1, <2>4, Refused
<1>2. CASE ParseConfigure
    <2>1. /\ RunInv /\ left # {} /\ Cells[1].type = "Configure" /\ stage' = "walk"
          /\ cur' = [off |-> 2, end |-> Cells[1].n] /\ stack' = <<>> /\ tables' = <<>>
          /\ UNCHANGED <<files, left, rawTables>>
        BY <1>2 DEF ParseConfigure, TablesInv, Following, Size
    <2>2. IsConfigure(Cells)
        BY <2>1, StreamLeft
    <2>3. Range(stack') = {} /\ stack' \in Seq({})
        BY <2>1 DEF Range
    <2>4. Cells' = Cells
        BY <2>1 DEF Cells, Stream
    <2>5. Walked(Cells, {cur'} \cup Range(stack'), tables')
        BY <2>1, <2>2, <2>3, WalkStarts
    <2>6. WalkInv'
        BY <2>1, <2>3, <2>4, <2>5 DEF WalkInv
    <2>7. RunInv'
        BY <2>1 DEF RunInv
    <2>8. QED
        BY <2>1, <2>6, <2>7 DEF TablesInv
<1>3. CASE CutShort \/ CutInFields \/ StrictVersion
    <2>1. /\ stage = "walk" /\ cur.off <= cur.end /\ stage' = "refused" /\ UNCHANGED <<files, strict>>
          /\ RunInv /\ WalkInv
        BY <1>3 DEF CutShort, CutInFields, StrictVersion, ReadVersion, AtNames, AtChild, InRange,
                    Refuse, TablesInv, Following
    <2>2. /\ Stream \in DOMAIN files /\ IsConfigure(Cells) /\ files[Stream].len \in 0 .. Len(Cells)
        BY <2>1, StreamLeft DEF WalkInv
    <2>3. CASE strict
        BY <2>1, <2>3, Refused DEF Reason
    <2>4. CASE ~strict
        <3>1. /\ cur.off \in 2 .. Len(Cells) /\ Child.n \in Nat \ {0}
              /\ cur.off + Child.n \in 3 .. Len(Cells) + 1
              /\ Child.type = "Names" => Child.n > 1
            BY <2>1, <2>2, FrontXtc DEF WalkInv, Child
        <3>2. \/ cur.off > Buffered
              \/ Child.type = "Names" /\ cur.off + 1 > Buffered
              \/ cur.off + Child.n - 1 > Buffered
            BY <1>3, <2>4, <3>1 DEF CutShort, CutInFields, StrictVersion, AtNames, AtChild, Payload
        <3>3. Len(Cells) \in Nat
            BY <2>2 DEF IsConfigure
        <3>4. files[Stream].len < Len(Cells)
            <4> SUFFICES ASSUME files[Stream].len = Len(Cells)
                         PROVE  FALSE
                BY <2>2, <3>3
            <4>1. Buffered \in Nat /\ Buffered >= Len(Cells)
                BY <2>2, BufferWhole DEF Buffered, Cells
            <4>2. QED
                BY <3>1, <3>2, <3>3, <4>1
        <3>5. Reason
            BY <2>2, <3>4 DEF Reason, Cells
        <3>6. QED
            BY <2>1, <3>5, Refused
    <2>5. QED
        BY <2>3, <2>4
<1>4. CASE VisitNames \/ VisitParent \/ VisitOther
    <2>1. /\ stage = "walk" /\ cur.off <= cur.end /\ UNCHANGED <<stage, files, left, rawTables>>
          /\ cur' = Behind(Cells, cur) /\ RunInv /\ WalkInv
        BY <1>4 DEF VisitNames, VisitParent, VisitOther, ReadVersion, AtNames, AtChild, InRange,
                    TablesInv, Following, NextChild, Child, Behind
    <2>2. IsConfigure(Cells) /\ stack \in Seq(Range(stack))
          /\ Walked(Cells, {cur} \cup Range(stack), tables)
        BY <2>1, StreamLeft DEF WalkInv
    <2>3. CASE VisitNames
        <3>1. /\ Cells[cur.off].type = "Names" /\ stack' = stack
              /\ tables' = Put(tables, Cells[cur.off].key, Cells[cur.off].table)
            BY <2>3 DEF VisitNames, ReadVersion, AtNames, AtChild, Child
        <3>2. Walked(Cells, {cur'} \cup Range(stack), tables')
            BY <2>1, <2>2, <3>1, PassNames
        <3>3. QED
            BY <2>1, <2>2, <3>1, <3>2, WalkOn
    <2>4. CASE VisitParent
        <3>1. /\ Cells[cur.off].type = "Parent" /\ tables' = tables
              /\ stack' = Append(stack, Payload)
              /\ Payload = Within(Cells, cur)
            BY <2>4 DEF VisitParent, AtChild, Child, PushParent, Payload, Within
        <3>2. Walked(Cells, {cur', Payload} \cup Range(stack), tables')
            BY <2>1, <2>2, <3>1, PassParent
        <3>3. stack' \in Seq(Range(stack')) /\ Range(stack') = Range(stack) \cup {Payload}
            BY <2>2, <3>1, StackProperties
        <3>4. {cur'} \cup Range(stack') = {cur', Payload} \cup Range(stack)
            BY <3>3
        <3>5. QED
            BY <2>1, <3>2, <3>3, <3>4, WalkOn
    <2>5. CASE VisitOther
        <3>1. /\ Cells[cur.off].type \notin {"Names", "Parent"} /\ tables' = tables /\ stack' = stack
            BY <2>5 DEF VisitOther, AtChild, Child
        <3>2. Walked(Cells, {cur'} \cup Range(stack), tables')
            BY <2>1, <2>2, <3>1, PassOther
        <3>3. QED
            BY <2>1, <2>2, <3>1, <3>2, WalkOn
    <2>6. QED
        BY <1>4, <2>3, <2>4, <2>5
<1>5. CASE PopRange \/ StreamDiscovered
    <2>1. /\ ~(cur.off <= cur.end) \/ Child.n < 1
          /\ RunInv /\ WalkInv
        BY <1>5 DEF PopRange, StreamDiscovered, RangeDone, InRange, TablesInv, Following
    <2>2. /\ IsConfigure(Cells) /\ stack \in Seq(Range(stack)) /\ Stream \in left
          /\ Walked(Cells, {cur} \cup Range(stack), tables)
        BY <2>1, StreamLeft DEF WalkInv
    <2>3. ~(cur.off <= cur.end)
        <3>1. ASSUME cur.off <= cur.end
              PROVE  Cells[cur.off].n \in Nat \ {0}
            BY <2>2, <3>1, FrontXtc
        <3>2. QED
            BY <2>1, <3>1 DEF Child
    <2>4. Walked(Cells, Range(stack), tables)
        BY <2>2, <2>3, RangeLeft
    <2>5. CASE PopRange
        <3>1. /\ stack # <<>> /\ cur' = Last(stack) /\ stack' = Front(stack)
              /\ UNCHANGED <<stage, files, left, tables, rawTables>> /\ stage = "walk"
            BY <2>5 DEF PopRange, RangeDone
        <3>2. stack' \in Seq(Range(stack')) /\ Range(stack) = {cur'} \cup Range(stack')
            BY <2>2, <3>1, StackProperties
        <3>3. QED
            BY <2>4, <3>1, <3>2, WalkOn
    <2>6. CASE StreamDiscovered
        <3>1. /\ stack = <<>> /\ stage' = "front" /\ files' = files
              /\ rawTables' = Put(rawTables, Stream, tables) /\ left' = left \ {Stream}
            BY <2>6 DEF StreamDiscovered
        <3>2. Range(stack) = {}
            BY <3>1 DEF Range
        <3>3. Whole(files[Stream].cells, tables)
            BY <2>4, <3>2, WalkEnds DEF Cells
        <3>4. PICK R : R = Put(rawTables, Stream, tables)
            OBVIOUS
        <3>5. /\ DOMAIN R = DOMAIN rawTables \cup {Stream} /\ R[Stream] = tables
              /\ \A s \in DOMAIN rawTables \ {Stream} : R[s] = rawTables[s]
            BY <3>4 DEF Put
        <3>6. DOMAIN R = DOMAIN files \ (left \ {Stream})
            BY <2>1, <2>2, <3>5 DEF RunInv
        <3>7. \A s \in DOMAIN R : Whole(files[s].cells, R[s])
            BY <2>1, <3>3, <3>5 DEF RunInv
        <3>8. RunInv'
            BY <2>1, <3>1, <3>4, <3>6, <3>7 DEF RunInv
        <3>9. QED
            BY <3>1, <3>8 DEF TablesInv
    <2>7. QED
        BY <1>5, <2>5, <2>6
<1>6. CASE Discovered
    <2>1. RunInv /\ left = {} /\ stage' = "opened" /\ UNCHANGED <<files, left, rawTables>>
        BY <1>6 DEF Discovered, TablesInv, Following
    <2>2. RunInv'
        BY <2>1 DEF RunInv
    <2>3. QED
        BY <2>1, <2>2 DEF TablesInv
<1>7. CASE \E run \in Runs : Discover(run)
    <2>1. PICK run \in Runs : Discover(run)
        BY <1>7
    <2>2. stage' = "front" /\ files' \in Runs /\ left' = DOMAIN files' /\ rawTables' = <<>>
        BY <2>1 DEF Discover
    <2>3. RunInv'
        BY <2>2 DEF RunInv
    <2>4. QED
        BY <2>2, <2>3 DEF TablesInv
<1>8. CASE \/ ChangeStrict \/ (\E ack \in Acks : AcknowledgeVersion(ack))
           \/ Assemble \/ IndexingRaises \/ Indexed
    <2>1. stage' \in {"idle", "indexing", "raised", "indexed"}
        BY <1>8 DEF ChangeStrict, AcknowledgeVersion, Assemble, IndexingRaises, Indexed
    <2>2. QED
        BY <2>1 DEF TablesInv, Following
<1>9. CASE EnterDgram \/ Capture \/ Descend \/ PassOver \/ LeaveRange
    <2>1. stage = "indexing" /\ stage' = stage
        BY <1>9 DEF EnterDgram, Capture, Descend, PassOver, LeaveRange, OnXtc, discoveryVars
    <2>2. QED
        BY <2>1 DEF TablesInv, Following
<1>10. CASE UNCHANGED vars
    <2>1. UNCHANGED <<stage, files, left, cur, stack, tables, rawTables, strict>>
        BY <1>10 DEF vars, discoveryVars
    <2>2. Cells' = Cells
        BY <2>1 DEF Cells, Stream
    <2>3. RunInv' = RunInv /\ WalkInv' = WalkInv /\ Reason' = Reason
        BY <2>1, <2>2 DEF RunInv, WalkInv, Reason
    <2>4. QED
        BY <2>1, <2>3 DEF TablesInv, Following
<1>11. QED
    BY <1>1, <1>2, <1>3, <1>4, <1>5, <1>6, <1>7, <1>8, <1>9, <1>10 DEF Next, Open, DiscoveryNext

\* A run that opens has every table its streams declare, however deep they
\* are nested and however small the window, and no other; one that is refused
\* has a file that ends early or without a Configure, or the mode is strict.
THEOREM AlwaysWholeOrRefused == Spec => []TablesWholeOrRaise
<1>1. Init => TablesInv
    BY DEF Init, DiscoveryInit, TablesInv, Following
<1>2. TablesInv /\ [Next]_vars => TablesInv'
    BY TablesInvNext
<1>3. TablesInv => TablesWholeOrRaise
    BY DEF TablesInv, Following, RunInv, Whole, Reason, TablesWholeOrRaise
<1>4. QED
    BY <1>1, <1>2, <1>3, PTL DEF Spec
-----------------------------------------------------------------------------
(* The verdicts on an event.                                               *)

\* The tables an event is indexed by are those its run declares.
TablesRead ==
    /\ files \in Runs /\ DOMAIN rawTables = DOMAIN files
    /\ \A s \in DOMAIN rawTables : Whole(files[s].cells, rawTables[s])

\* The ShapesData of a stream's dgram that a table of the stream describes,
\* and the segment each is for.
Sought(s) ==
    {i \in DOMAIN event.dgrams[s] :
        event.dgrams[s][i].type = "ShapesData" /\ event.dgrams[s][i].key \in DOMAIN rawTables[s]}

SegmentOf(t) == <<t.det, t.alg, t.seg>>

SegmentAt(s, i) == SegmentOf(rawTables[s][event.dgrams[s][i].key])

\* Nothing is captured but what is in the event.
CapturedThere ==
    \A k \in DOMAIN captured :
        \E s \in DOMAIN event.dgrams : \E i \in Sought(s) : k = SegmentAt(s, i)

Ranges == {at} \cup Range(outer)

\* What is left of the dgram at hand.
WalkedOn ==
    at # None =>
        /\ unindexed # {}
        /\ at \in [off : Nat \ {0}, end : Int]
        /\ outer \in Seq(Range(outer)) /\ Range(outer) \subseteq [off : Nat \ {0}, end : Int]
        /\ event.intact =>
              /\ InStep(Dgram, Ranges)
              /\ \A i \in Sought(WalkedStream) :
                     \/ SegmentAt(WalkedStream, i) \in DOMAIN captured
                     \/ \E r \in Ranges : i \in r.off .. r.end

\* The sound dgrams behind have given all they have.
StreamsIndexed ==
    event.intact =>
        \A s \in DOMAIN event.dgrams \ unindexed : \A i \in Sought(s) :
            SegmentAt(s, i) \in DOMAIN captured

\* The inductive invariant of the index of an event.
EventInv ==
    /\ stage \notin {"indexing", "indexed", "raised"} => outer = <<>> /\ at = None /\ captured = <<>>
    /\ stage \in {"indexing", "indexed"} =>
           /\ TablesRead /\ event \in Events[files] /\ unindexed \subseteq DOMAIN event.dgrams
           /\ at = None => outer = <<>>
           /\ CapturedThere /\ WalkedOn /\ StreamsIndexed
    /\ stage = "indexed" => unindexed = {}

\* What the tables of a stream hold are tables of the run.
LEMMA TableIsOne ==
    ASSUME TablesRead, NEW s \in DOMAIN rawTables, NEW k \in DOMAIN rawTables[s]
    PROVE  <<s, rawTables[s][k]>> \in DeclaredTables(files) /\ rawTables[s][k] # None
<1>1. PICK i \in Declared(files[s].cells) : rawTables[s][k] = files[s].cells[i].table
    BY DEF TablesRead, Whole
<1>2. <<s, rawTables[s][k]>> \in DeclaredTables(files)
    BY <1>1 DEF TablesRead, DeclaredTables
<1>3. QED
    BY <1>2, NoneAssumption DEF TablesRead

\* The dgram at hand is one of the event's, of a stream of the run.
LEMMA DgramAtHand ==
    ASSUME TablesRead, event \in Events[files], unindexed \subseteq DOMAIN event.dgrams,
           unindexed # {}
    PROVE  /\ WalkedStream \in unindexed /\ WalkedStream \in DOMAIN event.dgrams
           /\ WalkedStream \in DOMAIN rawTables
           /\ Dgram \in Seq(Range(Dgram)) /\ Len(Dgram) \in Nat \ {0} /\ DOMAIN Dgram = 1 .. Len(Dgram)
           /\ \A i \in DOMAIN Dgram : Dgram[i].n \in Nat
           /\ event.intact => IsTree(Dgram, "ShapesData")
<1>1. /\ files \in Runs /\ DOMAIN rawTables = DOMAIN files /\ DOMAIN files \subseteq Nat
      /\ DOMAIN event.dgrams \subseteq DOMAIN files
    BY RunsAssumption, EventsAssumption DEF TablesRead
<1>2. WalkedStream \in unindexed
    BY <1>1, MinProperties DEF WalkedStream
<1>3. WalkedStream \in DOMAIN event.dgrams
    BY <1>2
<1>4. /\ Dgram \in Seq(Range(Dgram)) /\ Dgram # <<>>
      /\ \A i \in DOMAIN Dgram : Dgram[i].n \in Nat
      /\ event.intact => Nested(Dgram, "ShapesData")
    BY <1>1, <1>3, EventsAssumption DEF Dgram
<1>5. QED
    BY <1>1, <1>2, <1>3, <1>4 DEF IsTree

\* A step within a dgram: what it captures is there, and a sound dgram is
\* still in ranges or captured.
LEMMA IndexOn ==
    ASSUME EventInv, stage = "indexing", at # None,
           UNCHANGED <<stage, files, rawTables, event, unindexed>>,
           at' \in [off : Nat \ {0}, end : Int], outer' \in Seq(Range(outer')),
           Range(outer') \subseteq [off : Nat \ {0}, end : Int],
           DOMAIN captured \subseteq DOMAIN captured',
           \A k \in DOMAIN captured' \ DOMAIN captured :
               \E i \in Sought(WalkedStream) : k = SegmentAt(WalkedStream, i),
           event.intact =>
              /\ InStep(Dgram, {at'} \cup Range(outer'))
              /\ \A i \in Sought(WalkedStream) :
                     \/ SegmentAt(WalkedStream, i) \in DOMAIN captured'
                     \/ \E r \in {at'} \cup Range(outer') : i \in r.off .. r.end
    PROVE  EventInv'
<1>1. /\ TablesRead /\ event \in Events[files] /\ unindexed \subseteq DOMAIN event.dgrams
      /\ unindexed # {} /\ CapturedThere /\ StreamsIndexed
    BY DEF EventInv, WalkedOn
<1>2. WalkedStream \in DOMAIN event.dgrams
    BY <1>1, DgramAtHand
<1>3. /\ WalkedStream' = WalkedStream /\ Dgram' = Dgram
      /\ \A s : Sought(s)' = Sought(s)
      /\ \A s, i : SegmentAt(s, i)' = SegmentAt(s, i)
    BY DEF WalkedStream, Dgram, Sought, SegmentAt, SegmentOf
<1>4. TablesRead'
    BY <1>1 DEF TablesRead
<1>5. CapturedThere'
    BY <1>1, <1>2 DEF CapturedThere, Sought, SegmentAt, SegmentOf
<1>6. StreamsIndexed'
    BY <1>1 DEF StreamsIndexed, Sought, SegmentAt, SegmentOf
<1>7. Ranges' = {at'} \cup Range(outer')
    BY DEF Ranges
<1>8. event.intact => \A i \in Sought(WalkedStream)' :
          \/ SegmentAt(WalkedStream, i)' \in DOMAIN captured'
          \/ \E r \in Ranges' : i \in r.off .. r.end
    <2>1. Sought(WalkedStream)' = Sought(WalkedStream)
        BY <1>3 DEF Sought
    <2>2. \A i : SegmentAt(WalkedStream, i)' = SegmentAt(WalkedStream, i)
        BY <1>3 DEF SegmentAt, SegmentOf
    <2>3. QED
        BY <1>7, <2>1, <2>2
<1>9. WalkedOn'
    BY <1>1, <1>3, <1>7, <1>8 DEF WalkedOn
<1>10. at' # None
    <2>1. \A q \in [off : Nat \ {0}, end : Int] : q \in [off : Nat, end : Int]
        OBVIOUS
    <2>2. QED
        BY <2>1, NoneAssumption
<1>11. QED
    BY <1>1, <1>4, <1>5, <1>6, <1>9, <1>10 DEF EventInv

\* One Xtc of a dgram is passed, captured or entered.
LEMMA ChildIndexed ==
    ASSUME EventInv, Capture \/ Descend \/ PassOver
    PROVE  EventInv'
<1>1. /\ stage = "indexing" /\ at # None
      /\ UNCHANGED <<stage, files, rawTables, event, unindexed>>
      /\ at.off <= at.end /\ at.off <= Len(Dgram) /\ Here.n >= 1
    BY DEF Capture, Descend, PassOver, OnXtc, discoveryVars, walkVars
<1>2. /\ TablesRead /\ event \in Events[files] /\ unindexed \subseteq DOMAIN event.dgrams
      /\ unindexed # {}
      /\ at \in [off : Nat \ {0}, end : Int]
      /\ outer \in Seq(Range(outer)) /\ Range(outer) \subseteq [off : Nat \ {0}, end : Int]
      /\ event.intact =>
            /\ InStep(Dgram, {at} \cup Range(outer))
            /\ \A i \in Sought(WalkedStream) :
                   \/ SegmentAt(WalkedStream, i) \in DOMAIN captured
                   \/ \E r \in {at} \cup Range(outer) : i \in r.off .. r.end
    BY <1>1 DEF EventInv, WalkedOn, Ranges
<1>3. /\ WalkedStream \in DOMAIN rawTables /\ Len(Dgram) \in Nat /\ DOMAIN Dgram = 1 .. Len(Dgram)
      /\ \A i \in DOMAIN Dgram : Dgram[i].n \in Nat
      /\ event.intact => IsTree(Dgram, "ShapesData")
    BY <1>2, DgramAtHand
<1>4. at.off \in DOMAIN Dgram /\ Here.n \in Nat \ {0} /\ Here = Dgram[at.off]
    BY <1>1, <1>2, <1>3 DEF Here
<1>5. PICK b, p : b = Behind(Dgram, at) /\ p = Within(Dgram, at)
    OBVIOUS
<1>6. After = b /\ [off |-> at.off + 1, end |-> at.off + Here.n - 1] = p
    BY <1>4, <1>5 DEF After, Behind, Within
<1>7. b \in [off : Nat \ {0}, end : Int] /\ p \in [off : Nat \ {0}, end : Int]
    <2>1. PICK o \in Nat \ {0}, e \in Int, n \in Nat : at = [off |-> o, end |-> e] /\ n = Here.n
        BY <1>2, <1>4
    <2>2. b = [off |-> o + n, end |-> e] /\ p = [off |-> o + 1, end |-> o + n - 1]
        BY <1>4, <1>5, <2>1 DEF Behind, Within
    <2>3. QED
        BY <2>1, <2>2
<1>8. event.intact =>
          /\ InStep(Dgram, {b} \cup Range(outer))
          /\ Here.type = "Parent" => InStep(Dgram, {b, p} \cup Range(outer))
          /\ \A i \in at.off .. at.end :
                 Dgram[i].type = "ShapesData" =>
                     \/ i = at.off \/ i \in b.off .. b.end
                     \/ Here.type = "Parent" /\ i \in p.off .. p.end
    <2> SUFFICES ASSUME event.intact
                 PROVE  /\ InStep(Dgram, {b} \cup Range(outer))
                        /\ Dgram[at.off].type = "Parent" => InStep(Dgram, {b, p} \cup Range(outer))
                        /\ \A i \in at.off .. at.end :
                               Dgram[i].type = "ShapesData" =>
                                   \/ i = at.off \/ i \in b.off .. b.end
                                   \/ Dgram[at.off].type = "Parent" /\ i \in p.off .. p.end
        BY <1>4
    <2>1. IsTree(Dgram, "ShapesData") /\ InStep(Dgram, {at} \cup Range(outer)) /\ at.off <= at.end
        BY <1>1, <1>2, <1>3
    <2>2. QED
        BY <1>5, <2>1, PassXtc
<1>9. \A i \in Sought(WalkedStream) : Dgram[i].type = "ShapesData"
    BY DEF Sought, Dgram
<1>10. CASE Capture
    <2>1. /\ at' = b /\ outer' = outer /\ Here.type = "ShapesData"
          /\ captured' = IF TableHere = None THEN captured
                          ELSE Put(captured, SegmentOf(TableHere),
                                   [stream |-> WalkedStream, off |-> at.off, table |-> TableHere])
        BY <1>6, <1>10 DEF Capture, SegmentOf
    <2>2. DOMAIN captured' = DOMAIN captured \cup
              (IF TableHere = None THEN {} ELSE {SegmentOf(TableHere)})
        BY <2>1 DEF Put
    <2>3. ASSUME TableHere # None
          PROVE  at.off \in Sought(WalkedStream) /\ SegmentOf(TableHere) = SegmentAt(WalkedStream, at.off)
        BY <1>4, <2>1, <2>3 DEF TableHere, Sought, SegmentAt, Dgram
    <2>4. ASSUME at.off \in Sought(WalkedStream)
          PROVE  TableHere # None /\ SegmentOf(TableHere) = SegmentAt(WalkedStream, at.off)
        <3>1. Here.key \in DOMAIN rawTables[WalkedStream] /\ TableHere = rawTables[WalkedStream][Here.key]
            BY <1>4, <2>4 DEF TableHere, Sought, Dgram
        <3>2. TableHere # None
            BY <1>2, <1>3, <3>1, TableIsOne
        <3>3. QED
            BY <1>4, <3>1, <3>2 DEF SegmentAt, Dgram
    <2>5. ASSUME event.intact, NEW i \in Sought(WalkedStream)
          PROVE  \/ SegmentAt(WalkedStream, i) \in DOMAIN captured'
                 \/ \E r \in {b} \cup Range(outer) : i \in r.off .. r.end
        <3>1. CASE i = at.off
            BY <2>2, <2>4, <3>1
        <3>2. CASE i # at.off
            BY <1>2, <1>8, <1>9, <2>1, <2>2, <2>5, <3>2
        <3>3. QED
            BY <3>1, <3>2
    <2>6. \A k \in DOMAIN captured' \ DOMAIN captured :
              \E i \in Sought(WalkedStream) : k = SegmentAt(WalkedStream, i)
        BY <2>2, <2>3
    <2>7. DOMAIN captured \subseteq DOMAIN captured'
        BY <2>2
    <2>8. /\ at' \in [off : Nat \ {0}, end : Int] /\ outer' \in Seq(Range(outer'))
          /\ Range(outer') \subseteq [off : Nat \ {0}, end : Int]
        BY <1>2, <1>7, <2>1
    <2>9. event.intact =>
              /\ InStep(Dgram, {at'} \cup Range(outer'))
              /\ \A i \in Sought(WalkedStream) :
                     \/ SegmentAt(WalkedStream, i) \in DOMAIN captured'
                     \/ \E r \in {at'} \cup Range(outer') : i \in r.off .. r.end
        BY <1>8, <2>1, <2>5
    <2>10. QED
        BY <1>1, <2>6, <2>7, <2>8, <2>9, IndexOn
<1>11. CASE Descend
    <2>1. /\ at' = p /\ outer' = Append(outer, b) /\ Here.type = "Parent" /\ captured' = captured
        BY <1>6, <1>11 DEF Descend
    <2>2. outer' \in Seq(Range(outer')) /\ Range(outer') = Range(outer) \cup {b}
        BY <1>2, <2>1, StackProperties
    <2>3. {at'} \cup Range(outer') = {b, p} \cup Range(outer)
        BY <2>1, <2>2
    <2>4. ASSUME event.intact, NEW i \in Sought(WalkedStream)
          PROVE  \/ SegmentAt(WalkedStream, i) \in DOMAIN captured
                 \/ \E r \in {b, p} \cup Range(outer) : i \in r.off .. r.end
        <3>1. i # at.off
            BY <1>4, <1>9, <2>1, <2>4
        <3>2. QED
            BY <1>2, <1>8, <1>9, <2>4, <3>1
    <2>5. event.intact =>
              /\ InStep(Dgram, {at'} \cup Range(outer'))
              /\ \A i \in Sought(WalkedStream) :
                     \/ SegmentAt(WalkedStream, i) \in DOMAIN captured'
                     \/ \E r \in {at'} \cup Range(outer') : i \in r.off .. r.end
        BY <1>8, <2>1, <2>3, <2>4
    <2>6. at' \in [off : Nat \ {0}, end : Int] /\ Range(outer') \subseteq [off : Nat \ {0}, end : Int]
        BY <1>2, <1>7, <2>1, <2>2
    <2>7. QED
        BY <1>1, <2>1, <2>2, <2>5, <2>6, IndexOn
<1>12. CASE PassOver
    <2>1. /\ at' = b /\ outer' = outer /\ Here.type \notin {"ShapesData", "Parent"}
          /\ captured' = captured
        BY <1>6, <1>12 DEF PassOver
    <2>2. ASSUME event.intact, NEW i \in Sought(WalkedStream)
          PROVE  \/ SegmentAt(WalkedStream, i) \in DOMAIN captured
                 \/ \E r \in {b} \cup Range(outer) : i \in r.off .. r.end
        <3>1. i # at.off
            BY <1>4, <1>9, <2>1, <2>2
        <3>2. QED
            BY <1>2, <1>8, <1>9, <2>1, <2>2, <3>1
    <2>3. event.intact =>
              /\ InStep(Dgram, {at'} \cup Range(outer'))
              /\ \A i \in Sought(WalkedStream) :
                     \/ SegmentAt(WalkedStream, i) \in DOMAIN captured'
                     \/ \E r \in {at'} \cup Range(outer') : i \in r.off .. r.end
        BY <1>8, <2>1, <2>2
    <2>4. /\ at' \in [off : Nat \ {0}, end : Int] /\ outer' \in Seq(Range(outer'))
          /\ Range(outer') \subseteq [off : Nat \ {0}, end : Int]
        BY <1>2, <1>7, <2>1
    <2>5. QED
        BY <1>1, <2>1, <2>3, <2>4, IndexOn
<1>13. QED
    BY <1>10, <1>11, <1>12

LEMMA RangeIndexed ==
    ASSUME EventInv, LeaveRange
    PROVE  EventInv'
<1>1. /\ stage = "indexing" /\ at # None
      /\ UNCHANGED <<stage, files, rawTables, event, captured>>
      /\ at.off > at.end \/ (at.off <= Len(Dgram) /\ Here.n < 1)
    BY DEF LeaveRange, discoveryVars, walkVars
<1>2. /\ TablesRead /\ event \in Events[files] /\ unindexed \subseteq DOMAIN event.dgrams
      /\ unindexed # {} /\ CapturedThere /\ StreamsIndexed
      /\ at \in [off : Nat \ {0}, end : Int]
      /\ outer \in Seq(Range(outer)) /\ Range(outer) \subseteq [off : Nat \ {0}, end : Int]
      /\ event.intact =>
            /\ InStep(Dgram, {at} \cup Range(outer))
            /\ \A i \in Sought(WalkedStream) :
                   \/ SegmentAt(WalkedStream, i) \in DOMAIN captured
                   \/ \E r \in {at} \cup Range(outer) : i \in r.off .. r.end
    BY <1>1 DEF EventInv, WalkedOn, Ranges
<1>3. event.intact => IsTree(Dgram, "ShapesData")
    BY <1>2, DgramAtHand
<1>4. event.intact =>
          /\ InStep(Dgram, Range(outer))
          /\ \A i \in Sought(WalkedStream) :
                 \/ SegmentAt(WalkedStream, i) \in DOMAIN captured
                 \/ \E r \in Range(outer) : i \in r.off .. r.end
    <2> SUFFICES ASSUME event.intact
                 PROVE  /\ InStep(Dgram, Range(outer))
                        /\ \A i \in Sought(WalkedStream) :
                               \/ SegmentAt(WalkedStream, i) \in DOMAIN captured
                               \/ \E r \in Range(outer) : i \in r.off .. r.end
        OBVIOUS
    <2>1. IsTree(Dgram, "ShapesData") /\ InStep(Dgram, {at} \cup Range(outer))
        BY <1>2, <1>3
    <2>2. ~(at.off <= at.end)
        <3>1. ASSUME at.off <= at.end
              PROVE  Dgram[at.off].n \in Nat \ {0}
            BY <2>1, <3>1, PassXtc
        <3>2. QED
            BY <1>1, <1>2, <3>1 DEF Here
    <2>3. InStep(Dgram, Range(outer)) /\ \A i : i \notin at.off .. at.end
        BY <2>1, <2>2, RangeEmpty
    <2>4. QED
        BY <1>2, <2>3
<1>5. CASE outer # <<>>
    <2>1. at' = Last(outer) /\ outer' = Front(outer) /\ unindexed' = unindexed
        BY <1>5 DEF LeaveRange
    <2>2. outer' \in Seq(Range(outer')) /\ Range(outer) = {at'} \cup Range(outer')
        BY <1>2, <1>5, <2>1, StackProperties
    <2>3. /\ at' \in [off : Nat \ {0}, end : Int]
          /\ Range(outer') \subseteq [off : Nat \ {0}, end : Int]
        BY <1>2, <2>2
    <2>4. event.intact =>
              /\ InStep(Dgram, {at'} \cup Range(outer'))
              /\ \A i \in Sought(WalkedStream) :
                     \/ SegmentAt(WalkedStream, i) \in DOMAIN captured'
                     \/ \E r \in {at'} \cup Range(outer') : i \in r.off .. r.end
        BY <1>1, <1>4, <2>2
    <2>5. QED
        BY <1>1, <2>1, <2>2, <2>3, <2>4, IndexOn
<1>6. CASE outer = <<>>
    <2>1. at' = None /\ unindexed' = unindexed \ {WalkedStream} /\ outer' = outer
        BY <1>6 DEF LeaveRange
    <2>2. Range(outer) = {}
        BY <1>6 DEF Range
    <2>3. TablesRead' /\ CapturedThere' /\ WalkedOn'
        BY <1>1, <1>2, <2>1 DEF TablesRead, CapturedThere, WalkedOn, Sought, SegmentAt, SegmentOf
    <2>4. event.intact => \A s \in DOMAIN event.dgrams \ unindexed' : \A i \in Sought(s) :
              SegmentAt(s, i) \in DOMAIN captured
        BY <1>2, <1>4, <2>1, <2>2 DEF StreamsIndexed
    <2>5. StreamsIndexed'
        BY <1>1, <2>4 DEF StreamsIndexed, Sought, SegmentAt, SegmentOf
    <2>6. QED
        BY <1>1, <1>2, <1>6, <2>1, <2>3, <2>5 DEF EventInv
<1>7. QED
    BY <1>5, <1>6

LEMMA DgramEntered ==
    ASSUME EventInv, EnterDgram
    PROVE  EventInv'
<1>1. /\ stage = "indexing" /\ at = None /\ unindexed # {}
      /\ at' = [off |-> 2, end |-> Dgram[1].n]
      /\ UNCHANGED <<stage, files, rawTables, event, unindexed, outer, captured>>
    BY DEF EnterDgram, discoveryVars, walkVars
<1>2. /\ TablesRead /\ event \in Events[files] /\ unindexed \subseteq DOMAIN event.dgrams
      /\ CapturedThere /\ StreamsIndexed /\ outer = <<>>
    BY <1>1 DEF EventInv
<1>3. /\ Len(Dgram) \in Nat \ {0} /\ DOMAIN Dgram = 1 .. Len(Dgram)
      /\ \A i \in DOMAIN Dgram : Dgram[i].n \in Nat
      /\ event.intact => IsTree(Dgram, "ShapesData")
    BY <1>1, <1>2, DgramAtHand
<1>4. at' \in [off : Nat \ {0}, end : Int]
    BY <1>1, <1>3
<1>5. Range(outer') = {} /\ outer' \in Seq({})
    BY <1>1, <1>2 DEF Range
<1>6. event.intact =>
          /\ InStep(Dgram, {at'})
          /\ \A i \in DOMAIN Dgram : Dgram[i].type = "ShapesData" => i \in 2 .. Dgram[1].n
    BY <1>1, <1>3, TreeStarts
<1>7. \A i \in Sought(WalkedStream) : i \in DOMAIN Dgram /\ Dgram[i].type = "ShapesData"
    BY DEF Sought, Dgram
<1>8. WalkedStream' = WalkedStream /\ Dgram' = Dgram /\ Sought(WalkedStream)' = Sought(WalkedStream)
    BY <1>1 DEF WalkedStream, Dgram, Sought
<1>9. Ranges' = {at'}
    BY <1>5 DEF Ranges
<1>10. event.intact =>
           \A i \in Sought(WalkedStream) : \E r \in {at'} : i \in r.off .. r.end
    BY <1>1, <1>6, <1>7
<1>11. WalkedOn'
    BY <1>1, <1>4, <1>5, <1>6, <1>8, <1>9, <1>10 DEF WalkedOn
<1>12. TablesRead' /\ CapturedThere' /\ StreamsIndexed'
    BY <1>1, <1>2 DEF TablesRead, CapturedThere, StreamsIndexed, Sought, SegmentAt, SegmentOf
<1>13. QED
    BY <1>1, <1>2, <1>11, <1>12 DEF EventInv

LEMMA EventInvNext ==
    ASSUME TablesInv, EventInv, [Next]_vars
    PROVE  EventInv'
<1>1. CASE Assemble
    <2>1. /\ UNCHANGED <<files, rawTables, at, outer, captured>> /\ stage = "opened"
          /\ event' \in Events[files] /\ unindexed' = DOMAIN event'.dgrams /\ stage' = "indexing"
        BY <1>1 DEF Assemble, walkVars
    <2>2. at = None /\ outer = <<>> /\ captured = <<>>
        BY <2>1 DEF EventInv
    <2>3. TablesRead
        BY <2>1 DEF TablesInv, Following, RunInv, TablesRead
    <2>4. TablesRead'
        BY <2>1, <2>3 DEF TablesRead
    <2>5. CapturedThere' /\ WalkedOn' /\ StreamsIndexed'
        BY <2>1, <2>2 DEF CapturedThere, WalkedOn, StreamsIndexed
    <2>6. QED
        BY <2>1, <2>2, <2>4, <2>5 DEF EventInv
<1>2. CASE Indexed \/ UNCHANGED vars
    <2>1. /\ UNCHANGED <<files, rawTables, event, unindexed, at, outer, captured>>
          /\ stage' = stage \/ (stage = "indexing" /\ stage' = "indexed" /\ unindexed = {})
        BY <1>2 DEF Indexed, vars, discoveryVars, walkVars, eventVars
    <2>2. /\ TablesRead' = TablesRead /\ CapturedThere' = CapturedThere
          /\ StreamsIndexed' = StreamsIndexed
        BY <2>1 DEF TablesRead, CapturedThere, StreamsIndexed, Sought, SegmentAt, SegmentOf
    <2>3. WalkedOn' = WalkedOn
        BY <2>1 DEF WalkedOn, Ranges, Dgram, WalkedStream, Sought, SegmentAt, SegmentOf
    <2>4. QED
        BY <2>1, <2>2, <2>3 DEF EventInv
<1>3. CASE IndexingRaises
    <2>1. stage' = "raised"
        BY <1>3 DEF IndexingRaises
    <2>2. QED
        BY <2>1 DEF EventInv
<1>4. CASE Open
    <2>1. /\ UNCHANGED <<at, outer, captured>>
          /\ stage \notin {"indexing", "indexed", "raised"}
          /\ stage' \notin {"indexing", "indexed", "raised"}
        BY <1>4 DEF Open, eventVars, DiscoveryNext, ChangeStrict, AcknowledgeVersion, Discover, Idle,
                    NoConfigure, ParseConfigure, CutShort, StrictVersion, VisitNames, ReadVersion,
                    AtNames, AtChild, CutInFields, VisitParent, VisitOther, RangeDone, PopRange,
                    StreamDiscovered, Discovered, Refuse
    <2>2. QED
        BY <2>1 DEF EventInv
<1>5. CASE EnterDgram
    BY <1>5, DgramEntered
<1>6. CASE Capture \/ Descend \/ PassOver
    BY <1>6, ChildIndexed
<1>7. CASE LeaveRange
    BY <1>7, RangeIndexed
<1>8. QED
    BY <1>1, <1>2, <1>3, <1>4, <1>5, <1>6, <1>7 DEF Next

\* A detector's tables are of the run, and each segment is on one stream.
LEMMA TablesDeclared ==
    ASSUME TablesRead, NEW det, NEW alg, NEW p \in TablesOf(det, alg)
    PROVE  /\ p \in DeclaredTables(files) /\ p[1] \in DOMAIN rawTables /\ p[1] \in Nat
           /\ p[2].det = det /\ p[2].alg = alg /\ p = <<p[1], p[2]>>
<1>1. PICK s \in DOMAIN rawTables :
          p \in {<<s, t>> : t \in {u \in Range(rawTables[s]) : u.det = det /\ u.alg = alg}}
    BY DEF TablesOf
<1>2. PICK t \in Range(rawTables[s]) : p = <<s, t>> /\ t.det = det /\ t.alg = alg
    BY <1>1
<1>3. PICK k \in DOMAIN rawTables[s] : t = rawTables[s][k]
    BY <1>2 DEF Range
<1>4. s \in Nat
    BY RunsAssumption DEF TablesRead
<1>5. <<s, t>> \in DeclaredTables(files)
    BY <1>3, TableIsOne
<1>6. QED
    BY <1>2, <1>4, <1>5

LEMMA OneStream ==
    ASSUME TablesRead, NEW det, NEW alg, NEW p \in TablesOf(det, alg), NEW q \in TablesOf(det, alg),
           p[2].seg = q[2].seg
    PROVE  p[1] = q[1]
<1>1. /\ p \in DeclaredTables(files) /\ p[2].det = det /\ p[2].alg = alg
      /\ q \in DeclaredTables(files) /\ q[2].det = det /\ q[2].alg = alg
    BY TablesDeclared
<1>2. QED
    BY <1>1, SegmentsAssumption DEF TablesRead

\* So the stream noted last for a segment is the segment's.
LEMMA StreamsForAll ==
    ASSUME TablesRead, NEW det, NEW alg
    PROVE  StreamsFor(det, alg) = {p[1] : p \in TablesOf(det, alg)}
<1> DEFINE T == TablesOf(det, alg)
           of(seg) == {p[1] : p \in {q \in T : q[2].seg = seg}}
<1>1. ASSUME NEW p \in T
      PROVE  Max(of(p[2].seg)) = p[1]
    <2>1. p[1] \in Nat /\ p[1] \in of(p[2].seg)
        BY TablesDeclared
    <2>2. \A x \in of(p[2].seg) : x = p[1]
        BY OneStream
    <2>3. of(p[2].seg) = {p[1]}
        BY <2>1, <2>2
    <2>4. PICK s \in Nat : s = p[1]
        BY <2>1
    <2>5. Max({s}) = s
        BY DEF Max
    <2>6. QED
        BY <2>3, <2>4, <2>5
<1>2. StreamsFor(det, alg) = {Max(of(seg)) : seg \in {p[2].seg : p \in T}}
    BY DEF StreamsFor, Segments
<1> HIDE DEF T, of
<1>3. {Max(of(seg)) : seg \in {p[2].seg : p \in T}} = {Max(of(p[2].seg)) : p \in T}
    OBVIOUS
<1>4. {Max(of(p[2].seg)) : p \in T} = {p[1] : p \in T}
    BY <1>1
<1>5. QED
    BY <1>2, <1>3, <1>4 DEF T

\* What comes of one segment is cells or an error.
LEMMA ExtractedType ==
    ASSUME NEW c, NEW field
    PROVE  Extracted(c, field) \in (SUBSET Int) \cup {Raised}
<1>1. \A a, b : a .. b \in SUBSET Int
    OBVIOUS
<1> DEFINE T == (SUBSET Int) \cup {Raised}
<1>2. /\ \A a, b : a .. b \in T
      /\ Raised \in T
    <2>1. Raised \in T
        BY DEF T
    <2>2. \A x : x \in SUBSET Int => x \in T
        OBVIOUS
    <2> HIDE DEF T
    <2>3. QED
        BY <1>1, <2>1, <2>2
<1> HIDE DEF T
<1>3. ASSUME NEW found
      PROVE  CellsAt(found) \in T
    <2>1. CASE found \in {None, Raised}
        <3>1. CellsAt(found) = Raised
            BY <2>1 DEF CellsAt
        <3>2. QED
            BY <1>2, <3>1
    <2>2. CASE found \notin {None, Raised}
        <3>1. CellsAt(found) = found.from .. found.to
            BY <2>2 DEF CellsAt
        <3>2. QED
            BY <1>2, <3>1
    <2>3. QED
        BY <2>1, <2>2
<1>4. ASSUME NEW cells, NEW off, NEW table
      PROVE  ExtractField(cells, off, table, field) \in T
    <2>1. PICK found : found = Locate(cells, off, table, field)
        OBVIOUS
    <2>2. CellsAt(found) \in T
        BY <1>3
    <2>3. QED
        BY <1>2, <2>1, <2>2 DEF ExtractField
<1>5. Extracted(c, field) \in T
    BY <1>4 DEF Extracted
<1>6. QED
    BY <1>5 DEF T

\* raw answers where every segment has come, and only there.
LEMMA RawAnswers ==
    ASSUME TablesRead, NEW det, NEW alg, NEW field
    PROVE  Complete(det, alg) <=> Raw(det, alg, field) # None
<1> DEFINE segs == CapturedSegments(det, alg)
           values == [seg \in segs |-> Extracted(captured[<<det, alg, seg>>], field)]
<1>1. values \in [segs -> (SUBSET Int) \cup {Raised}]
    BY ExtractedType
<1>2. segs \subseteq {p[2].seg : p \in DeclaredTables(files)}
    BY TablesDeclared DEF CapturedSegments, Segments
<1>3. values # None /\ Raised # None
    BY <1>1, <1>2, NoneAssumption DEF TablesRead
<1>4. Raw(det, alg, field) = CASE ~Complete(det, alg) -> None
                               [] Complete(det, alg) /\ Raised \in Range(values) -> Raised
                               [] OTHER -> values
    BY DEF Raw
<1> HIDE DEF values
<1>5. QED
    BY <1>3, <1>4

\* What is captured for a segment the DAQ wrote, whatever is wrong in a dgram.
LEMMA CapturedIsWritten ==
    ASSUME TablesRead, CapturedThere, DOMAIN event.dgrams \subseteq DOMAIN rawTables,
           NEW det, NEW alg, NEW seg \in CapturedSegments(det, alg)
    PROVE  Wrote(det, alg, seg)
<1>1. <<det, alg, seg>> \in DOMAIN captured
    BY DEF CapturedSegments
<1>2. PICK s \in DOMAIN event.dgrams : \E i \in Sought(s) : <<det, alg, seg>> = SegmentAt(s, i)
    BY <1>1 DEF CapturedThere
<1>3. PICK i \in Sought(s) : <<det, alg, seg>> = SegmentAt(s, i)
    BY <1>2
<1>4. PICK cell : cell = event.dgrams[s][i]
    OBVIOUS
<1>5. /\ i \in DOMAIN event.dgrams[s] /\ cell.type = "ShapesData"
      /\ cell.key \in DOMAIN rawTables[s]
    BY <1>4 DEF Sought
<1>6. PICK t : t = rawTables[s][cell.key]
    OBVIOUS
<1>7. t \in Range(rawTables[s]) /\ t.det = det /\ t.alg = alg /\ t.seg = seg
    BY <1>3, <1>4, <1>5, <1>6 DEF SegmentAt, SegmentOf, Range
<1>8. <<s, t>> \in TablesOf(det, alg)
    BY <1>7 DEF TablesOf
<1>9. QED
    BY <1>4, <1>5, <1>6, <1>7, <1>8 DEF Wrote

\* And of sound dgrams all the DAQ wrote is captured.
LEMMA WrittenIsCaptured ==
    ASSUME TablesRead, StreamsIndexed, unindexed = {}, event.intact,
           NEW det, NEW alg, NEW seg \in Segments(det, alg), Wrote(det, alg, seg)
    PROVE  seg \in CapturedSegments(det, alg)
<1>1. PICK p \in TablesOf(det, alg) :
          /\ p[2].seg = seg /\ p[1] \in DOMAIN event.dgrams
          /\ \E i \in DOMAIN event.dgrams[p[1]] :
                /\ event.dgrams[p[1]][i].type = "ShapesData"
                /\ event.dgrams[p[1]][i].key \in DOMAIN rawTables[p[1]]
                /\ rawTables[p[1]][event.dgrams[p[1]][i].key] = p[2]
    BY DEF Wrote
<1>2. PICK i \in Sought(p[1]) : rawTables[p[1]][event.dgrams[p[1]][i].key] = p[2]
    BY <1>1 DEF Sought
<1>3. SegmentAt(p[1], i) = <<det, alg, seg>>
    BY <1>1, <1>2, TablesDeclared DEF SegmentAt, SegmentOf
<1>4. SegmentAt(p[1], i) \in DOMAIN captured
    BY <1>1 DEF StreamsIndexed
<1>5. QED
    BY <1>3, <1>4 DEF CapturedSegments

\* A detector is "present" exactly where raw answers, and then with segments
\* of this event only; of sound dgrams no segment is missed, so one that is
\* not there was not written.  What is said of a detector that has no frame,
\* and of its damage, is true of the streams that carry it.
THEOREM AlwaysVerdictsAgree == Spec => []VerdictsAgree
<1>1. Init => TablesInv /\ EventInv
    BY DEF Init, DiscoveryInit, TablesInv, Following, EventInv
<1>2. TablesInv /\ [Next]_vars => TablesInv'
    BY TablesInvNext
<1>3. EventInv => VerdictsAgree
    <2> SUFFICES ASSUME EventInv, stage = "indexed", NEW d \in Detectors
                 PROVE  LET owners == {p[1] : p \in TablesOf(d[1], d[2])}
                        IN /\ \A field \in FieldsOf(d[1], d[2]) :
                                  DetectorStatus(d[1], d[2]) = "present"
                                      <=> Raw(d[1], d[2], field) # None
                           /\ DetectorStatus(d[1], d[2]) = "present" =>
                                  \A seg \in Segments(d[1], d[2]) : Wrote(d[1], d[2], seg)
                           /\ event.intact /\ DetectorStatus(d[1], d[2]) # "present" =>
                                  \E seg \in Segments(d[1], d[2]) : ~Wrote(d[1], d[2], seg)
                           /\ DetectorStatus(d[1], d[2]) = "dropped" =>
                                  \E p \in TablesOf(d[1], d[2]) :
                                      p[1] \in event.dropped /\ ~Wrote(d[1], d[2], p[2].seg)
                           /\ DetectorStatus(d[1], d[2]) = "absent" => owners \cap event.dropped = {}
                           /\ IsDetectorDamaged(d[1], d[2]) <=>
                                  \E s \in owners \cap DOMAIN event.dgrams : event.damage[s] % 4096 # 0
        BY DEF VerdictsAgree
    <2> DEFINE det == d[1]
               alg == d[2]
               owners == {p[1] : p \in TablesOf(det, alg)}
    <2>1. /\ TablesRead /\ CapturedThere /\ StreamsIndexed /\ unindexed = {}
          /\ event.dropped \cap DOMAIN event.dgrams = {}
          /\ DOMAIN event.dgrams \subseteq DOMAIN rawTables
        BY EventsAssumption DEF EventInv, TablesRead
    <2>2. StreamsFor(det, alg) = owners
        BY <2>1, StreamsForAll
    <2>3. /\ DetectorStatus(det, alg) = "present" <=> Complete(det, alg)
          /\ DetectorStatus(det, alg) = "dropped" => owners \cap event.dropped # {}
          /\ DetectorStatus(det, alg) = "absent" => owners \cap event.dropped = {}
        BY <2>2 DEF DetectorStatus
    <2>4. \A field : DetectorStatus(det, alg) = "present" <=> Raw(det, alg, field) # None
        BY <2>1, <2>3, RawAnswers
    <2>5. ASSUME NEW p \in TablesOf(det, alg), p[1] \in event.dropped
          PROVE  ~Wrote(det, alg, p[2].seg)
        <3>1. \A q \in TablesOf(det, alg) : q[2].seg = p[2].seg => q[1] \in event.dropped
            BY <2>1, <2>5, OneStream
        <3>2. QED
            BY <2>1, <3>1 DEF Wrote
    <2>6. IsDetectorDamaged(det, alg) <=>
              \E s \in owners \cap DOMAIN event.dgrams : event.damage[s] % 4096 # 0
        BY <2>2 DEF IsDetectorDamaged, DamageId
    <2>7. DetectorStatus(det, alg) = "dropped" =>
              \E p \in TablesOf(det, alg) :
                  p[1] \in event.dropped /\ ~Wrote(det, alg, p[2].seg)
        BY <2>3, <2>5
    <2>8. Complete(det, alg) => \A seg \in Segments(det, alg) : Wrote(det, alg, seg)
        BY <2>1, CapturedIsWritten DEF Complete
    <2>9. ASSUME event.intact, \A seg \in Segments(det, alg) : Wrote(det, alg, seg)
          PROVE  Complete(det, alg)
        <3>1. Segments(det, alg) # {}
            <4>0. PICK s \in DOMAIN rawTables : \E t \in Range(rawTables[s]) : d = <<t.det, t.alg>>
                BY DEF Detectors
            <4>1. PICK t \in Range(rawTables[s]) : d = <<t.det, t.alg>>
                BY <4>0
            <4>2. <<s, t>> \in TablesOf(det, alg)
                BY <4>1 DEF TablesOf
            <4>3. QED
                BY <4>2 DEF Segments
        <3>2. CapturedSegments(det, alg) = Segments(det, alg)
            BY <2>1, <2>9, WrittenIsCaptured DEF CapturedSegments
        <3>3. QED
            BY <3>1, <3>2 DEF Complete
    <2>10. QED
        BY <2>3, <2>4, <2>6, <2>7, <2>8, <2>9
<1>4. QED
    BY <1>1, <1>2, <1>3, EventInvNext, PTL DEF Spec
=============================================================================
