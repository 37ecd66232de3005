---------------------------- MODULE EventAccess ----------------------------
(***************************************************************************)
(* Event: what a run's tables make of the dgrams of one event.             *)
(* _index_dgram walks each dgram by its extents and captures where the     *)
(* ShapesData of every segment lies; the accessors decode on demand,       *)
(* refuse a detector that lacks a segment, and say why a frame is not      *)
(* there.  An extent or a shape in the dgram may be wrong.                 *)
(***************************************************************************)
EXTENDS Discovery

CONSTANTS
    Raised,        \* an accessor's error
    Events         \* run -> set of [dgrams, damage, dropped, intact]: the dgrams and
                   \* damage words of an event by contributing stream, the streams
                   \* the merge counts as dropped out, whether the dgrams are sound

\* A detector's segment is read out by one stream; a stream that dropped out
\* takes no part in the event (DropOutIsFinal of EventMerge).
DeclaredTables(run) ==
    UNION {{<<s, run[s].cells[i].table>> : i \in Declared(run[s].cells)} : s \in DOMAIN run}

ASSUME SegmentsAssumption ==
    \A run \in Runs : \A p, q \in DeclaredTables(run) :
        p[2].det = q[2].det /\ p[2].alg = q[2].alg /\ p[2].seg = q[2].seg => p[1] = q[1]

ASSUME EventsAssumption ==
    \A run \in Runs : \A e \in Events[run] :
        /\ DOMAIN e.dgrams \subseteq DOMAIN run /\ e.dropped \cap DOMAIN e.dgrams = {}
        /\ \A s \in DOMAIN e.dgrams :
               LET cells == e.dgrams[s]
               IN /\ cells \in Seq(Range(cells)) /\ cells # <<>>
                  /\ \A i \in DOMAIN cells : cells[i].n \in Nat
                  /\ e.intact => Nested(cells, "ShapesData")

\* None is no error, no table, no range and no frame.
ASSUME NoneAssumption ==
    /\ None # Raised
    /\ None \notin [off : Nat, end : Int]
    /\ \A run \in Runs : \A p \in DeclaredTables(run) : p[2] # None
    /\ \A run \in Runs : \A segs \in SUBSET {p[2].seg : p \in DeclaredTables(run)} :
           None \notin [segs -> (SUBSET Int) \cup {Raised}]

VARIABLES
    event,      \* the event assembled; None before
    unindexed,  \* its streams whose dgram is not walked
    at, outer,  \* _index_dgram: the range walked, the ranges around it
    captured    \* _seg_index: <<det, alg, segment>> -> [stream, off, table]

eventVars == <<event, unindexed, at, outer, captured>>
vars == <<discoveryVars, eventVars>>

Init ==
    /\ DiscoveryInit
    /\ event = None /\ unindexed = {} /\ at = None /\ outer = <<>> /\ captured = <<>>

Open == DiscoveryNext /\ UNCHANGED eventVars

\* The join or read_event_at hands over the dgrams of one timestamp.
Assemble ==
    /\ stage = "opened" /\ event = None
    /\ event' \in Events[files]
    /\ unindexed' = DOMAIN event'.dgrams
    /\ stage' = "indexing"
    /\ UNCHANGED <<walkVars, versionVars, at, outer, captured>>

\* The dgrams are walked in the order of their streams.
WalkedStream == Min(unindexed)

Dgram == event.dgrams[WalkedStream]

EnterDgram ==
    /\ stage = "indexing" /\ unindexed # {} /\ at = None
    /\ at' = [off |-> 2, end |-> Dgram[1].n]
    /\ UNCHANGED <<discoveryVars, event, unindexed, outer, captured>>

Here == Dgram[at.off]

\* recurse: a child by its extent; off + header within the range.
OnXtc ==
    /\ stage = "indexing" /\ at # None
    /\ at.off <= at.end /\ at.off <= Len(Dgram) /\ Here.n >= 1

After == [at EXCEPT !.off = @ + Here.n]

TableHere ==
    LET of == rawTables[WalkedStream]
    IN IF Here.key \in DOMAIN of THEN of[Here.key] ELSE None

Capture ==
    /\ OnXtc /\ Here.type = "ShapesData"
    /\ captured' = IF TableHere = None
                   THEN captured
                   ELSE Put(captured, <<TableHere.det, TableHere.alg, TableHere.seg>>,
                            [stream |-> WalkedStream, off |-> at.off, table |-> TableHere])
    /\ at' = After
    /\ UNCHANGED <<discoveryVars, event, unindexed, outer>>

Descend ==
    /\ OnXtc /\ Here.type = "Parent"
    /\ outer' = Append(outer, After)
    /\ at' = [off |-> at.off + 1, end |-> at.off + Here.n - 1]
    /\ UNCHANGED <<discoveryVars, event, unindexed, captured>>

PassOver ==
    /\ OnXtc /\ Here.type \notin {"ShapesData", "Parent"}
    /\ at' = After
    /\ UNCHANGED <<discoveryVars, event, unindexed, outer, captured>>

\* struct.error: a range that runs out of the dgram's bytes.
IndexingRaises ==
    /\ stage = "indexing" /\ at # None
    /\ at.off <= at.end /\ at.off > Len(Dgram)
    /\ stage' = "raised"
    /\ UNCHANGED <<walkVars, versionVars, eventVars>>

LeaveRange ==
    /\ stage = "indexing" /\ at # None
    /\ at.off > at.end \/ (at.off <= Len(Dgram) /\ Here.n < 1)
    /\ IF outer = <<>>
       THEN at' = None /\ unindexed' = unindexed \ {WalkedStream} /\ UNCHANGED outer
       ELSE at' = Last(outer) /\ outer' = Front(outer) /\ UNCHANGED unindexed
    /\ UNCHANGED <<discoveryVars, event, captured>>

Indexed ==
    /\ stage = "indexing" /\ unindexed = {} /\ at = None
    /\ stage' = "indexed"
    /\ UNCHANGED <<walkVars, versionVars, eventVars>>

Next ==
    \/ Open
    \/ Assemble \/ EnterDgram \/ Capture \/ Descend \/ PassOver
    \/ IndexingRaises \/ LeaveRange \/ Indexed

Spec == Init /\ [][Next]_vars

-----------------------------------------------------------------------------
\* DetectorInfo, as _add_table fills it from the tables of all streams.
TablesOf(det, alg) ==
    UNION {{<<s, t>> : t \in {u \in Range(rawTables[s]) : u.det = det /\ u.alg = alg}}
             : s \in DOMAIN rawTables}

Detectors == {<<t.det, t.alg>> : t \in UNION {Range(rawTables[s]) : s \in DOMAIN rawTables}}

Segments(det, alg) == {p[2].seg : p \in TablesOf(det, alg)}

StreamsFor(det, alg) ==
    {Max({p[1] : p \in {q \in TablesOf(det, alg) : q[2].seg = seg}}) : seg \in Segments(det, alg)}

CapturedSegments(det, alg) == {seg \in Segments(det, alg) : <<det, alg, seg>> \in DOMAIN captured}

-----------------------------------------------------------------------------
\* iter_xtc_children from first to last, `cut` if it runs out of the bytes.
Children(cells, first, last) ==
    FoldLeft(
        LAMBDA c, i :
            CASE i # c.next -> c
              [] i = c.next /\ i > Len(cells) -> [c EXCEPT !.cut = TRUE]
              [] i = c.next /\ i <= Len(cells) /\ cells[i].n < 1 -> [c EXCEPT !.next = last + 1]
              [] OTHER -> [c EXCEPT !.next = i + cells[i].n, !.offs = @ \cup {i}],
        [next |-> first, offs |-> {}, cut |-> FALSE],
        [i \in 1 .. last + 1 - first |-> first + i - 1])

\* Fault: the Shapes child and the Data child bound nothing.
Unbounded(end, cells) == Len(cells)

\* The last byte of a Shapes or Data child, by its own extent.
Bound(end, cells) == end

\* The ShapesData at off: its children, and where one of them ends.
ChildrenAt(cells, off) == Children(cells, off + 1, off + cells[off].n - 1)

OfType(cells, off, type) == {i \in ChildrenAt(cells, off).offs : cells[i].type = type}

EndOf(cells, i) == i + cells[i].n - 1

\* No Data child, or a child that runs out of the dgram or the ShapesData.
Malformed(cells, off) ==
    LET data == OfType(cells, off, "Data")
        shapes == OfType(cells, off, "Shapes")
    IN \/ ChildrenAt(cells, off).cut \/ data = {}
       \/ EndOf(cells, Max(data)) > Len(cells)
       \/ shapes # {} /\ EndOf(cells, Max(shapes)) > Min({EndOf(cells, off), Len(cells)})

\* The walk over the table's fields: where the field lies, None if the table
\* has no such field.
Locate(cells, off, table, field) ==
    LET data == Max(OfType(cells, off, "Data"))
        shapesKids == OfType(cells, off, "Shapes")
        shapes == Max(shapesKids)
        needsShape(k) == table.fields[k].rank > 0
        next(w, k) ==
            LET so == shapes + 1 + w.shape
                count == IF needsShape(k) THEN cells[so].n ELSE 1
                start == data + 1 + w.offset
            IN CASE w.found # None -> w
                 [] w.found = None /\ needsShape(k)
                      /\ (shapesKids = {} \/ so > Bound(EndOf(cells, shapes), cells)) ->
                        [w EXCEPT !.found = Raised]
                 [] w.found = None /\ start + count - 1 > Bound(EndOf(cells, data), cells) ->
                        [w EXCEPT !.found = Raised]
                 [] w.found = None /\ table.fields[k].name = field ->
                        [w EXCEPT !.found = [from |-> start, to |-> start + count - 1]]
                 [] OTHER ->
                        [w EXCEPT !.offset = @ + count, !.shape = @ + (IF needsShape(k) THEN 1 ELSE 0)]
    IN FoldLeftDomain(next, [offset |-> 0, shape |-> 0, found |-> None], table.fields).found

\* A field the table does not have is a KeyError.
CellsAt(found) == IF found \in {None, Raised} THEN Raised ELSE found.from .. found.to

\* extract_field: the cells of the Data child that hold the field.
ExtractField(cells, off, table, field) ==
    IF Malformed(cells, off) THEN Raised ELSE CellsAt(Locate(cells, off, table, field))

Extracted(c, field) == ExtractField(event.dgrams[c.stream], c.off, c.table, field)

\* Fault: the segments that came are the frame.
SomeSegments(det, alg) == CapturedSegments(det, alg) # {}

\* _alg_complete, the missing-segment rule.
Complete(det, alg) ==
    CapturedSegments(det, alg) # {} /\ CapturedSegments(det, alg) = Segments(det, alg)

\* Event.raw: None, an error, or the cells of each segment.
Raw(det, alg, field) ==
    LET values == [seg \in CapturedSegments(det, alg) |-> Extracted(captured[<<det, alg, seg>>], field)]
    IN CASE ~Complete(det, alg) -> None
         [] Complete(det, alg) /\ Raised \in Range(values) -> Raised
         [] OTHER -> values

DetectorStatus(det, alg) ==
    CASE Complete(det, alg) -> "present"
      [] ~Complete(det, alg) /\ StreamsFor(det, alg) \cap event.dropped # {} -> "dropped"
      [] OTHER -> "absent"

\* Fault: the user bits count as damage.
WholeWord(word) == word

\* decode_damage: the low 12 bits; the rest is the user's.
DamageId(word) == word % 4096

IsDetectorDamaged(det, alg) ==
    \E s \in StreamsFor(det, alg) \cap DOMAIN event.dgrams : DamageId(event.damage[s]) # 0

-----------------------------------------------------------------------------
\* The DAQ wrote the segment's ShapesData into this event.
Wrote(det, alg, seg) ==
    \E p \in TablesOf(det, alg) : p[2].seg = seg /\ p[1] \in DOMAIN event.dgrams
        /\ \E i \in DOMAIN event.dgrams[p[1]] :
              LET cell == event.dgrams[p[1]][i]
              IN /\ cell.type = "ShapesData"
                     /\ cell.key \in DOMAIN rawTables[p[1]] /\ rawTables[p[1]][cell.key] = p[2]

FieldsOf(det, alg) == UNION {{f.name : f \in Range(p[2].fields)} : p \in TablesOf(det, alg)}

\* A frame is the event's own: every cell of it is data the DAQ wrote for
\* that segment into this event, never a neighbour's, a header or a shape,
\* even when one extent or shape of a dgram is wrong.  From sound dgrams it is
\* exactly the field asked for, and missing only if the event lacks a segment.
FrameIsTheEvents ==
    stage = "indexed" =>
        \A d \in Detectors : \A field \in FieldsOf(d[1], d[2]) :
            LET frame == Raw(d[1], d[2], field)
                written(seg) ==
                    LET c == captured[<<d[1], d[2], seg>>]
                    IN {i \in DOMAIN event.dgrams[c.stream] :
                           LET cell == event.dgrams[c.stream][i]
                           IN cell.type = "bytes" /\ cell.key = event.dgrams[c.stream][c.off].key}
                asked(seg) ==
                    {i \in written(seg) :
                        event.dgrams[captured[<<d[1], d[2], seg>>].stream][i].field = field}
            IN /\ frame \notin {None, Raised} =>
                      /\ DOMAIN frame = Segments(d[1], d[2])
                      /\ \A seg \in DOMAIN frame : frame[seg] \subseteq written(seg)
               /\ event.intact =>
                      IF \A seg \in Segments(d[1], d[2]) : Wrote(d[1], d[2], seg)
                      THEN \A seg \in Segments(d[1], d[2]) : frame[seg] = asked(seg)
                      ELSE frame = None

\* The verdicts agree with each other and with the event: "present" is what
\* raw answers, and it takes every segment from this event, whatever is wrong
\* in its dgrams; of sound ones no segment is missed; a detector is "dropped"
\* only for a segment of its own that is carried by a stream out of the run,
\* and the damage word of a contribution tells on each detector of that stream
\* and on no other.
VerdictsAgree ==
    stage = "indexed" =>
        \A d \in {e \in Detectors : e[2] = "raw"} :
            LET owners == {p[1] : p \in TablesOf(d[1], d[2])}
            IN /\ \A field \in FieldsOf(d[1], d[2]) :
                      DetectorStatus(d[1], d[2]) = "present" <=> Raw(d[1], d[2], field) # None
               /\ DetectorStatus(d[1], d[2]) = "present" =>
                      \A seg \in Segments(d[1], d[2]) : Wrote(d[1], d[2], seg)
               /\ event.intact /\ DetectorStatus(d[1], d[2]) # "present" =>
                      \E seg \in Segments(d[1], d[2]) : ~Wrote(d[1], d[2], seg)
               /\ DetectorStatus(d[1], d[2]) = "dropped" =>
                      \E p \in TablesOf(d[1], d[2]) :
                          p[1] \in event.dropped /\ ~Wrote(d[1], d[2], p[2].seg)
               /\ DetectorStatus(d[1], d[2]) = "absent" => owners \cap event.dropped = {}
               /\ IsDetectorDamaged(d[1], d[2]) <=>
                      \E s \in owners \cap DOMAIN event.dgrams : event.damage[s] % 4096 # 0
=============================================================================
