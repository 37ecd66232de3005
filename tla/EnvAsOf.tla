------------------------------- MODULE EnvAsOf -------------------------------
(***************************************************************************)
(* EnvStore.as_of(var, ts): the value a slow variable had at an event.     *)
(* Random access into what the DAQ wrote in order: per stream that         *)
(* declares the variable, the last record at or before ts, then backwards  *)
(* over records without the variable, no further than the search depth;    *)
(* the first stream with a value answers.  A record is known by its stream *)
(* and position, so a value is the record it was read from.  A stream      *)
(* declares the algorithm with fields of its own, which need not include   *)
(* the variable.                                                           *)
(***************************************************************************)
EXTENDS Integers, Sequences, FiniteSets, FiniteSetsExt, Functions

CONSTANTS
    EnvStores, \* [algs, records]: the declared algorithms, each [tables], a stream's
               \* own table by its fields; and the streams' records: [ts, algs],
               \* a timestamp and the algorithms whose container it has
    Queries,   \* [var, ts]
    Depths,    \* values of PSDATA_N_STEP_SEARCH_STEPS
    None

ASSUME NoneAssumption == None \notin Int /\ None \notin [stream : Int, position : Int]

ASSUME LookupsAssumption == Depths \subseteq Nat /\ \A q \in Queries : q.ts \in Nat

\* envstore.py:31: "one stream's ascending env timestamps".
AscendingTimes(records) ==
    \A i, j \in DOMAIN records : i <= j => records[i].ts <= records[j].ts

ASSUME StoresAssumption ==
    \A e \in EnvStores :
        /\ e.algs \in Seq(Range(e.algs))
        /\ \A i \in DOMAIN e.algs :
               IsFiniteSet(DOMAIN e.algs[i].tables) /\ DOMAIN e.algs[i].tables \subseteq Nat
        /\ \A s \in DOMAIN e.records :
               e.records[s] \in Seq([ts : Nat, algs : SUBSET Nat]) /\ AscendingTimes(e.records[s])

VARIABLES
    store,    \* the records and declarations; never change
    query,    \* the variable and the event timestamp asked for
    depth,    \* the search depth
    left,     \* the owning streams not yet answered for; the head is searched
    p,        \* the position searched in the head's records, None before
    status,   \* "called", "searching", "answered" or "raised"
    answer    \* the record the value comes from, None if there is none

asOfVars == <<store, query, depth, left, p, status, answer>>

\* sorted(S): the integers of S in ascending order.
Ascending(S) ==
    [k \in 1 .. Cardinality(S) |-> CHOOSE x \in S : Cardinality({y \in S : y < x}) = k - 1]

Records(s) == IF s \in DOMAIN store.records THEN store.records[s] ELSE <<>>

\* DetectorInfo.algs: an algorithm's fields, merged from the streams' tables.
Fields(alg) == UNION Range(alg.tables)

\* The first declared algorithm that has the variable among its fields.
AlgOf(var) ==
    LET having == {i \in DOMAIN store.algs : var \in Fields(store.algs[i])}
    IN IF having = {} THEN None ELSE Min(having)

\* The streams that declare the algorithm, with the variable or without it.
OwningStreams(var) ==
    IF AlgOf(var) = None
    THEN <<>>
    ELSE Ascending(DOMAIN store.algs[AlgOf(var)].tables)

\* Fault: side="left", a record at ts does not count.
SearchLeft(s) == Cardinality({i \in DOMAIN Records(s) : Records(s)[i].ts < query.ts})

\* np.searchsorted(side="right"), 1-based: the records at or before ts.
SearchSorted(s) == Cardinality({i \in DOMAIN Records(s) : Records(s)[i].ts <= query.ts})

AsOfInit ==
    /\ store \in EnvStores /\ query \in Queries /\ depth \in Depths
    /\ left = <<>> /\ p = None /\ status = "called" /\ answer = None

AsOf ==
    /\ status = "called"
    /\ left' = OwningStreams(query.var)
    /\ status' = "searching"
    /\ UNCHANGED <<store, query, depth, p, answer>>

\* The stream at the head: no records, none at or before ts, or start there.
EnterStream ==
    /\ status = "searching" /\ left # <<>> /\ p = None
    /\ IF SearchSorted(Head(left)) = 0
       THEN left' = Tail(left) /\ UNCHANGED p
       ELSE p' = SearchSorted(Head(left)) /\ UNCHANGED left
    /\ UNCHANGED <<store, query, depth, status, answer>>

\* for p in range(pos, pos - depth, -1), left when p runs below the records.
InRange == p > SearchSorted(Head(left)) - depth /\ p >= 1

\* read_dgram_field finds the container of the variable's algorithm in the dgram.
Carries == AlgOf(query.var) \in Records(Head(left))[p].algs

\* The stream's own table has the variable.
Declares(s) == query.var \in store.algs[AlgOf(query.var)].tables[s]

ReadValue ==
    /\ status = "searching" /\ p # None /\ InRange /\ Carries /\ Declares(Head(left))
    /\ answer' = [stream |-> Head(left), position |-> p]
    /\ status' = "answered"
    /\ UNCHANGED <<store, query, depth, left, p>>

\* extract_field: KeyError.
LacksField ==
    /\ status = "searching" /\ p # None /\ InRange /\ Carries /\ ~Declares(Head(left))
    /\ status' = "raised"
    /\ UNCHANGED <<store, query, depth, left, p, answer>>

SkipBack ==
    /\ status = "searching" /\ p # None /\ InRange /\ ~Carries
    /\ p' = p - 1
    /\ UNCHANGED <<store, query, depth, left, status, answer>>

LeaveStream ==
    /\ status = "searching" /\ p # None /\ ~InRange
    /\ left' = Tail(left) /\ p' = None
    /\ UNCHANGED <<store, query, depth, status, answer>>

NoValue ==
    /\ status = "searching" /\ left = <<>>
    /\ status' = "answered"
    /\ UNCHANGED <<store, query, depth, left, p, answer>>

AsOfNext == AsOf \/ EnterStream \/ ReadValue \/ LacksField \/ SkipBack \/ LeaveStream \/ NoValue

AsOfSpec == AsOfInit /\ [][AsOfNext]_asOfVars

-----------------------------------------------------------------------------
\* The store as psana keeps it: fed with the stream's records in order up to
\* ts, it remembers the last one that held the variable and how many came
\* after it.
Replay(s) ==
    LET seen[i \in 0 .. Len(Records(s))] ==
            CASE i = 0 -> [last |-> 0, age |-> 0]
              [] i > 0 /\ Records(s)[i].ts > query.ts -> seen[i - 1]
              [] i > 0 /\ Records(s)[i].ts <= query.ts /\ AlgOf(query.var) \in Records(s)[i].algs ->
                     [last |-> i, age |-> 0]
              [] OTHER -> [seen[i - 1] EXCEPT !.age = @ + 1]
    IN  seen[Len(Records(s))]

Remembers(s) == Replay(s).last # 0 /\ Replay(s).age < depth

\* Random access answers what feeding the records in order would: the newest
\* container at or before ts of the first owning stream that still remembers
\* one, with the same horizon (depth) and the same tie rule (a record at ts
\* counts).  It has the value unless that stream's own table lacks the
\* variable; then, and only then, the lookup raises.
AsOfIsReplay ==
    status \in {"answered", "raised"} =>
        LET owners == OwningStreams(query.var)
            remembering == {i \in DOMAIN owners : Remembers(owners[i])}
            first == owners[Min(remembering)]
        IN IF remembering = {}
           THEN status = "answered" /\ answer = None
           ELSE IF Declares(first)
           THEN status = "answered" /\ answer = [stream |-> first, position |-> Replay(first).last]
           ELSE status = "raised" /\ answer = None

\* The streams with an update of the variable at or before ts.
Updated ==
    {s \in Range(OwningStreams(query.var)) : Declares(s) /\ Replay(s).last # 0}

\* "A variable with no update at/before the event returns ``None`` -- never
\* raises, never clamps" (envstore.py:45).
NeverRaises == Updated = {} => status # "raised"
=============================================================================
