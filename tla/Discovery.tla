----------------------------- MODULE Discovery -----------------------------
(***************************************************************************)
(* discover: the Names tables of a run, from the Configure dgram in front  *)
(* of each stream, and the signal for a raw version psdata has not been    *)
(* validated on.  The walk keeps a stack of byte ranges, like              *)
(* parse_configure; the signal keeps its state for the life of the         *)
(* process, over any number of runs opened.                                *)
(*                                                                         *)
(* Bytes are counted in cells: an Xtc header is one, so are the front of a *)
(* Names block, its fields, a shape and an element of data.  A cell is     *)
(* [type, n, ...]; n of a header is its extent, the header included.       *)
(* Payload is taken not to look like a header the walk stops at.           *)
(***************************************************************************)
EXTENDS Integers, Sequences, FiniteSets, FiniteSetsExt, SequencesExt, Functions

CONSTANTS
    Runs,        \* sets of files: stream -> [cells, len], what the DAQ wrote
                 \* and how much of it is in the file
    Validated,   \* _VALIDATED_RAW_VERSIONS: <<det_type, version>>
    Acks,        \* what the user may acknowledge: <<det_type, version or None>>
    ReadWindow,  \* _CONFIG_READ
    MaxOpens,    \* bound: runs opened in the process
    None

ASSUME ReadWindowAssumption == ReadWindow \in Nat \ {0}

IsXtc(cell) == cell.type \in {"Names", "Parent", "ShapesData"}

\* The Names blocks the DAQ wrote into a Configure, however deep.
Declared(cells) == {i \in DOMAIN cells : cells[i].type = "Names"}

\* Xtcs behind one another, nested in Parents only; no `leaf` within another.
Nested(cells, leaf) ==
    /\ cells[1].n = Len(cells) /\ cells[1].type # leaf
    /\ Len(cells) > 1 => IsXtc(cells[2])
    /\ \A i \in {j \in 2 .. Len(cells) : IsXtc(cells[j])} :
           LET next == i + cells[i].n
           IN /\ cells[i].n \in 1 .. Len(cells) /\ next <= Len(cells) + 1
              /\ next <= Len(cells) => IsXtc(cells[next])
              /\ IF cells[i].type = "Parent"
                 THEN next > i + 1 => IsXtc(cells[i + 1])
                 ELSE \A j \in i + 1 .. next - 1 : cells[j].type # leaf

\* A Configure: each Names block has a body, and a key of its own.
WellNested(cells) ==
    /\ Nested(cells, "Names")
    /\ \A i \in Declared(cells) : cells[i].n > 1
    /\ \A i, j \in Declared(cells) : cells[i].key = cells[j].key => i = j

ASSUME RunsAssumption ==
    \A run \in Runs : \A s \in DOMAIN run :
        /\ s \in Nat
        /\ run[s].cells \in Seq(Range(run[s].cells)) /\ run[s].cells # <<>>
        /\ run[s].len \in 0 .. Len(run[s].cells)
        /\ run[s].cells[1].type = "Configure" => WellNested(run[s].cells)

VARIABLES
    files,         \* the run being opened
    stage,         \* "idle", "front", "walk", "opened" or "refused"
    left,          \* streams whose Configure is not parsed
    cur, stack,    \* parse_configure: the range walked, the ranges found
    tables,        \* the stream's tables so far: namesId -> table
    rawTables,     \* RunConfig.raw_tables: stream -> tables
    strict,        \* PSDATA_STRICT_VERSIONS
    acknowledged,  \* acknowledge_version, PSDATA_ACK_VERSIONS
    signaled,      \* _signaled_versions
    log,           \* history: the records the psdata logger was given
    opens          \* runs opened

walkVars == <<files, left, cur, stack, tables, rawTables, opens>>
versionVars == <<strict, acknowledged, signaled, log>>
discoveryVars == <<stage, walkVars, versionVars>>

DiscoveryInit ==
    /\ files = <<>> /\ stage = "idle" /\ left = {}
    /\ cur = None /\ stack = <<>> /\ tables = <<>> /\ rawTables = <<>>
    /\ strict \in BOOLEAN /\ acknowledged = {} /\ signaled = {} /\ log = <<>>
    /\ opens = 0

-----------------------------------------------------------------------------
\* d[key] = value of a dict.
Put(d, key, value) == [k \in DOMAIN d \cup {key} |-> IF k = key THEN value ELSE d[k]]

Idle == stage \in {"idle", "opened", "refused"}

\* The user changes the environment or acknowledges a version between runs;
\* the run opened before is followed no further.
ChangeStrict ==
    /\ Idle /\ opens < MaxOpens
    /\ strict' = ~strict
    /\ stage' = "idle"
    /\ UNCHANGED <<walkVars, acknowledged, signaled, log>>

AcknowledgeVersion(ack) ==
    /\ Idle /\ opens < MaxOpens
    /\ acknowledged' = acknowledged \cup {ack}
    /\ stage' = "idle"
    /\ UNCHANGED <<walkVars, strict, signaled, log>>

Discover(run) ==
    /\ Idle /\ opens < MaxOpens
    /\ opens' = opens + 1
    /\ files' = run
    /\ stage' = "front" /\ left' = DOMAIN run
    /\ rawTables' = <<>>
    /\ UNCHANGED <<cur, stack, tables, versionVars>>

-----------------------------------------------------------------------------
\* The streams are opened in ascending order.
Stream == Min(left)

Cells == files[Stream].cells

\* parse_dgram_header: the dgram's size, as its header has it.
Size(cells) == cells[1].n

\* Fault: one pread of the window.
OneRead(file) == Min({file.len, ReadWindow})

\* _read_front_buffer: the window grows until the Configure is whole or the
\* file ends.
FrontBuffer(file) ==
    Min({file.len} \cup {k * ReadWindow : k \in {j \in 1 .. Size(file.cells) :
                                                  j * ReadWindow >= Size(file.cells)}})

Buffered == FrontBuffer(files[Stream])

Refuse ==
    /\ stage' = "refused"
    /\ UNCHANGED <<walkVars, versionVars>>

\* No header, or a front dgram that is not a Configure.
NoConfigure ==
    /\ stage = "front" /\ left # {}
    /\ files[Stream].len = 0 \/ Cells[1].type # "Configure"
    /\ Refuse

ParseConfigure ==
    /\ stage = "front" /\ left # {}
    /\ files[Stream].len > 0 /\ Cells[1].type = "Configure"
    /\ stage' = "walk"
    /\ cur' = [off |-> 2, end |-> Size(Cells)] /\ stack' = <<>> /\ tables' = <<>>
    /\ UNCHANGED <<files, left, rawTables, opens, versionVars>>

\* iter_xtc_children: the child at the current offset, if there is one.
InRange == cur.off <= cur.end

Child == Cells[cur.off]

AtChild(type) ==
    /\ stage = "walk" /\ InRange /\ cur.off <= Buffered
    /\ Child.n >= 1 /\ Child.type = type

Payload == [off |-> cur.off + 1, end |-> cur.off + Child.n - 1]

NextChild == [cur EXCEPT !.off = @ + Child.n]

\* A child's header, or the front of a Names block, lies behind the buffer.
CutShort ==
    /\ stage = "walk" /\ InRange
    /\ \/ cur.off > Buffered
       \/ AtChild("Names") /\ cur.off + 1 > Buffered
    /\ Refuse

\* _version_acknowledged: this version, or every one of the type.
Acknowledged(type, version) == {<<type, version>>, <<type, None>>, <<None, None>>} \cap acknowledged # {}

\* _signal_unvalidated_raw_version has something to say of the table.
Unvalidated(t) ==
    /\ t.alg = "raw"
    /\ <<t.type, t.version>> \notin Validated
    /\ ~Acknowledged(t.type, t.version)

\* Fault: strict mode marks the version as signalled before it refuses it.
StrictMarks(key) == signaled' = signaled \cup {key}

\* The strict refusal leaves the signal for a later, tolerant discovery.
StrictKeeps(key) == UNCHANGED signaled

\* parse_names_block reads the version in the front of the block.
AtNames == AtChild("Names") /\ cur.off + 1 <= Buffered

StrictVersion ==
    /\ AtNames /\ Unvalidated(Child.table) /\ strict
    /\ StrictKeeps(<<Child.table.type, Child.table.version>>)
    /\ stage' = "refused"
    /\ UNCHANGED <<walkVars, strict, acknowledged, log>>

\* Each version is logged at most once in a process.
Signal(key) ==
    /\ signaled' = signaled \cup {key}
    /\ log' = IF key \in signaled THEN log ELSE Append(log, key)

ReadVersion ==
    /\ AtNames /\ ~(Unvalidated(Child.table) /\ strict)
    /\ IF Unvalidated(Child.table)
       THEN Signal(<<Child.table.type, Child.table.version>>)
       ELSE UNCHANGED <<signaled, log>>
    /\ UNCHANGED <<strict, acknowledged>>

VisitNames ==
    /\ ReadVersion /\ Payload.end <= Buffered
    /\ tables' = Put(tables, Child.key, Child.table)
    /\ cur' = NextChild
    /\ UNCHANGED <<stage, files, left, stack, rawTables, opens>>

\* The fields lie behind the buffer; the version is signalled by then.
CutInFields ==
    /\ ReadVersion /\ Payload.end > Buffered
    /\ stage' = "refused"
    /\ UNCHANGED walkVars

\* Fault: the walk stays with the direct children.
SkipParent == stack

\* A Parent is walked when this range is done.
PushParent == Append(stack, Payload)

VisitParent ==
    /\ AtChild("Parent")
    /\ stack' = PushParent
    /\ cur' = NextChild
    /\ UNCHANGED <<stage, files, left, tables, rawTables, opens, versionVars>>

\* The values on the Configure are not read here.
VisitOther ==
    /\ AtChild("ShapesData")
    /\ cur' = NextChild
    /\ UNCHANGED <<stage, files, left, stack, tables, rawTables, opens, versionVars>>

\* Behind the last child, or at an extent shorter than a header.
RangeDone ==
    /\ stage = "walk"
    /\ ~InRange \/ (cur.off <= Buffered /\ Child.n < 1)

PopRange ==
    /\ RangeDone /\ stack # <<>>
    /\ cur' = Last(stack) /\ stack' = Front(stack)
    /\ UNCHANGED <<stage, files, left, tables, rawTables, opens, versionVars>>

StreamDiscovered ==
    /\ RangeDone /\ stack = <<>>
    /\ rawTables' = Put(rawTables, Stream, tables)
    /\ left' = left \ {Stream}
    /\ stage' = "front"
    /\ UNCHANGED <<files, cur, stack, tables, opens, versionVars>>

Discovered ==
    /\ stage = "front" /\ left = {}
    /\ stage' = "opened"
    /\ UNCHANGED <<walkVars, versionVars>>

DiscoveryNext ==
    \/ ChangeStrict \/ (\E ack \in Acks : AcknowledgeVersion(ack))
    \/ \E run \in Runs : Discover(run)
    \/ NoConfigure \/ ParseConfigure \/ CutShort
    \/ StrictVersion \/ VisitNames \/ CutInFields \/ VisitParent \/ VisitOther
    \/ PopRange \/ StreamDiscovered \/ Discovered

-----------------------------------------------------------------------------
\* A run that opens has every table its streams declare, nested ones too, and
\* no run is refused for the size of a Configure: the only reasons are a file
\* without a whole header chain and a version refused in strict mode.  A cut
\* behind the last Names block costs nothing.
TablesWholeOrRaise ==
    /\ stage = "opened" => \A s \in DOMAIN files :
           LET cells == files[s].cells
           IN /\ DOMAIN rawTables[s] = {cells[i].key : i \in Declared(cells)}
              /\ \A i \in Declared(cells) : rawTables[s][cells[i].key] = cells[i].table
    /\ stage = "refused" =>
           \/ \E s \in DOMAIN files :
                 files[s].len < Len(files[s].cells) \/ files[s].cells[1].type # "Configure"
           \/ strict

\* The raw versions of an opened run that psdata was not validated on.
Foreign ==
    {<<t.type, t.version>> : t \in
        {u \in UNION {Range(rawTables[s]) : s \in DOMAIN rawTables} : u.alg = "raw"}} \ Validated

\* No unvalidated raw version goes unnoticed, whatever was opened, refused or
\* acknowledged before: where a run opens, each such version in it is logged,
\* by this run or an earlier one, or acknowledged; in strict mode only the
\* acknowledged ones pass; and none is logged twice.
VersionsSignalled ==
    /\ stage = "opened" =>
           \A v \in Foreign : Acknowledged(v[1], v[2]) \/ (~strict /\ v \in Range(log))
    /\ IsInjective(log)
=============================================================================
