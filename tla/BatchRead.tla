------------------------------ MODULE BatchRead ------------------------------
(***************************************************************************)
(* Random access by position: the whole-slice calls read_events and        *)
(* read_stack, which refuse a request over the memory limit, and the       *)
(* generators iter_events and iter_stack, which read batch by batch.  All  *)
(* of them gather one read per event and stream, walk each chunk file in   *)
(* ascending offsets, merge neighbouring reads into one pread and slice it *)
(* again; read_event_at reads serially and is the reference.               *)
(*                                                                         *)
(* A chunk file is a sequence of bytes; a byte is [ts, nth], the nth byte  *)
(* of a dgram with timestamp ts, so that two slices are equal only if they *)
(* were cut at the same place.                                             *)
(***************************************************************************)
EXTENDS Integers, Sequences, FiniteSets, FiniteSetsExt, SequencesExt

CONSTANTS
    Runs,       \* [timestamps, entries, shapes, files]: an index and its chunk files
    Requests,   \* [api, ks, limit, batch]: the calls made
    MaxGap,     \* _COALESCE_MAX_GAP
    MaxSpan,    \* _COALESCE_MAX_SPAN
    None        \* max_bytes=None; an event that has no stack

ASSUME CapsAreNumbers == MaxGap \in Nat /\ MaxSpan \in Nat /\ None \notin Int

WholeSlice == {"read_events", "read_stack"}
Generators == {"iter_events", "iter_stack"}
Stacks == {"read_stack", "iter_stack"}

Byte == [ts : Int, nth : Nat]

Overlap(a, b) ==
    a.chunk = b.chunk /\ a.offset < b.offset + b.size /\ b.offset < a.offset + a.size

\* index.py:989: "dgrams within one chunk are disjoint"; each has a header.
ASSUME RunsAssumption ==
    \A r \in Runs :
        /\ DOMAIN r.entries = DOMAIN r.timestamps
        /\ \A c \in DOMAIN r.files : r.files[c] \in Seq(Byte)
        /\ \A k \in DOMAIN r.entries :
              /\ IsFiniteSet(DOMAIN r.entries[k])
              /\ \A s \in DOMAIN r.entries[k] :
                    LET e == r.entries[k][s]
                    IN  /\ e.chunk \in Nat \cap DOMAIN r.files
                        /\ e.offset \in Nat /\ e.size \in Nat \ {0}
        /\ \A k, l \in DOMAIN r.entries :
              \A s \in DOMAIN r.entries[k], t \in DOMAIN r.entries[l] :
                  Overlap(r.entries[k][s], r.entries[l][t]) => k = l /\ s = t

ASSUME RequestsAssumption ==
    \A c \in Requests :
        /\ c.api \in WholeSlice \cup Generators /\ c.ks \in Seq(Int)
        /\ c.limit \in Int \cup {None} /\ c.batch \in Int

VARIABLES
    run,      \* the index and the files; never changes
    call,     \* the request being served
    status,   \* "idle", "next" batch, "reading", "yielded", "returned" or the error
    batch,    \* the positions read now
    pending,  \* the dgram reads still to be grouped
    group,    \* the reads merged so far
    got,      \* the dgrams sliced so far
    out       \* what the caller has been given

vars == <<run, call, status, batch, pending, group, got, out>>

Positions == DOMAIN run.timestamps      \* 0-based, as in the code

-----------------------------------------------------------------------------
(* Serial reading.                                                          *)

Pread(chunk, size, offset) ==
    LET file == run.files[chunk] IN SubSeq(file, offset + 1, Min({offset + size, Len(file)}))

\* _assemble_stream_dgram refuses a short read and a foreign timestamp.
Assembles(raw, size, ts) == Len(raw) = size /\ raw[1].ts = ts

SerialRaw(k, s) == LET e == run.entries[k][s] IN Pread(e.chunk, e.size, e.offset)

SerialReads(k) ==
    \A s \in DOMAIN run.entries[k] :
        Assembles(SerialRaw(k, s), run.entries[k][s].size, run.timestamps[k])

ReadEventAt(k) == [s \in DOMAIN run.entries[k] |-> SerialRaw(k, s)]

-----------------------------------------------------------------------------
(* The checks in front of a whole-slice call.                               *)

InRange(ks) == \A i \in DOMAIN ks : ks[i] \in Positions

\* The bytes of one event: each is [stream, nth of its dgram].
EventBytes(k) ==
    UNION {{s} \X (1 .. run.entries[k][s].size) : s \in DOMAIN run.entries[k]}

\* read_events holds one Event per distinct position, read_stack a row per
\* requested one.
RequestedBytes(ks, dedupe) ==
    UNION {{IF dedupe THEN ks[i] ELSE i} \X EventBytes(ks[i]) : i \in DOMAIN ks}

\* Fault: repeated rows are counted once.
EstimateDistinct(ks, dedupe) == Cardinality(RequestedBytes(ks, TRUE))

EstimateReadBytes(ks, dedupe) == Cardinality(RequestedBytes(ks, dedupe))

OverBudget(ks, limit, dedupe) == limit # None /\ EstimateReadBytes(ks, dedupe) > limit

Init ==
    /\ run \in Runs
    /\ call \in Requests
    /\ status = "idle"
    /\ batch = <<>> /\ pending = {} /\ group = <<>> /\ got = {} /\ out = <<>>

CheckCall ==
    /\ status = "idle"
    /\ status' = CASE call.api = "read_stack" /\ call.ks = <<>> -> "ValueError"
                   [] call.api \notin WholeSlice /\ call.batch <= 0 -> "ValueError"
                   [] call.api \notin WholeSlice /\ call.batch > 0 /\ call.ks = <<>> -> "returned"
                   [] call.api \in WholeSlice /\ ~InRange(call.ks) -> "IndexError"
                   [] /\ call.api \in WholeSlice /\ InRange(call.ks)
                      /\ OverBudget(call.ks, call.limit, call.api = "read_events") -> "MemoryError"
                   [] OTHER -> "next"
    /\ UNCHANGED <<run, call, batch, pending, group, got, out>>

-----------------------------------------------------------------------------
(* One batch: gather, merge, pread, slice, assemble.                        *)

Rest == SubSeq(call.ks, Len(out) + 1, Len(call.ks))

NextBatch ==
    IF call.api \in WholeSlice THEN call.ks ELSE SubSeq(Rest, 1, Min({call.batch, Len(Rest)}))

\* A repeated position is read once.
Reads(ks) ==
    UNION {{[chunk |-> run.entries[k][s].chunk, offset |-> run.entries[k][s].offset,
             size |-> run.entries[k][s].size, k |-> k, stream |-> s]
                : s \in DOMAIN run.entries[k]} : k \in ToSet(ks)}

Gather ==
    /\ status = "next"
    /\ IF InRange(NextBatch)
       THEN status' = "reading" /\ batch' = NextBatch /\ pending' = Reads(NextBatch)
       ELSE status' = "IndexError" /\ UNCHANGED <<batch, pending>>
    /\ UNCHANGED <<run, call, group, got, out>>

\* Chunk by chunk, ascending offsets.
FirstRead ==
    CHOOSE r \in pending :
        \A other \in pending \ {r} :
            \/ r.chunk < other.chunk
            \/ r.chunk = other.chunk /\ r.offset < other.offset

GroupStart == Head(group).offset
GroupEnd == Max({group[i].offset + group[i].size : i \in DOMAIN group})

\* Fault: the span does not count the read itself.
JoinsUncapped(r) ==
    /\ r.chunk = Head(group).chunk
    /\ r.offset - GroupEnd \in 0 .. MaxGap
    /\ r.offset - GroupStart <= MaxSpan

Joins(r) ==
    /\ r.chunk = Head(group).chunk
    /\ r.offset - GroupEnd \in 0 .. MaxGap
    /\ Max({r.offset + r.size, GroupEnd}) - GroupStart <= MaxSpan

Take(r) ==
    /\ pending' = pending \ {r}
    /\ group' = Append(group, r)
    /\ UNCHANGED <<run, call, status, batch, got, out>>

OpenGroup == status = "reading" /\ group = <<>> /\ pending # {} /\ Take(FirstRead)

JoinGroup ==
    status = "reading" /\ group # <<>> /\ pending # {} /\ Joins(FirstRead) /\ Take(FirstRead)

Span == Last(group).offset + Last(group).size - GroupStart

Merged == Pread(Head(group).chunk, Span, GroupStart)

\* Fault: slices are cut back to back, as if there were no gaps.
SliceBackToBack(r) ==
    LET before == MapThenSumSet(LAMBDA i : IF group[i].offset < r.offset THEN group[i].size ELSE 0,
                                DOMAIN group)
    IN SubSeq(Merged, before + 1, before + r.size)

Slice(r) == SubSeq(Merged, r.offset - GroupStart + 1, r.offset - GroupStart + r.size)

\* Fault: the read that closes the group is lost.
ReadGroupDropsNext ==
    /\ status = "reading" /\ group # <<>>
    /\ pending # {} => ~Joins(FirstRead)
    /\ got' = got \cup {[k |-> group[i].k, stream |-> group[i].stream,
                         raw |-> Slice(group[i])] : i \in DOMAIN group}
    /\ group' = <<>>
    /\ pending' = IF pending = {} THEN {} ELSE pending \ {FirstRead}
    /\ UNCHANGED <<run, call, batch, status, out>>

ReadGroup ==
    /\ status = "reading" /\ group # <<>>
    /\ pending # {} => ~Joins(FirstRead)
    /\ IF /\ Len(Merged) = Span
          /\ \A i \in DOMAIN group :
                Assembles(Slice(group[i]), group[i].size, run.timestamps[group[i].k])
       THEN /\ got' = got \cup {[k |-> group[i].k, stream |-> group[i].stream,
                                 raw |-> Slice(group[i])] : i \in DOMAIN group}
            /\ UNCHANGED status
       ELSE status' = "RuntimeError" /\ UNCHANGED got
    /\ group' = <<>>
    /\ UNCHANGED <<run, call, batch, pending, out>>

Event(k) ==
    [s \in {g.stream : g \in {h \in got : h.k = k}} |->
        (CHOOSE g \in got : g.k = k /\ g.stream = s).raw]

\* read_stack: a row per position; the first event's shape is the buffer's.
Stackable == \A i \in DOMAIN batch :
    run.shapes[batch[i]] # None /\ run.shapes[batch[i]] = run.shapes[batch[1]]

Deliver ==
    /\ status = "reading" /\ pending = {} /\ group = <<>>
    /\ IF call.api \in Stacks /\ ~Stackable
       THEN status' = "ValueError" /\ UNCHANGED out
       ELSE /\ out' = out \o [i \in DOMAIN batch |-> Event(batch[i])]
            /\ status' = IF call.api \in WholeSlice THEN "returned" ELSE "yielded"
    /\ got' = {} /\ batch' = <<>>
    /\ UNCHANGED <<run, call, pending, group>>

\* The consumer asks the generator for more.
Resume ==
    /\ status = "yielded"
    /\ status' = IF Rest = <<>> THEN "returned" ELSE "next"
    /\ UNCHANGED <<run, call, batch, pending, group, got, out>>

Step == CheckCall \/ Gather \/ OpenGroup \/ JoinGroup \/ ReadGroup \/ Deliver

Next == Step \/ Resume

Spec == Init /\ [][Next]_vars

-----------------------------------------------------------------------------
\* Whatever is merged, in whatever order positions are asked for and however
\* often, the caller gets what read_event_at gives for each position, in the
\* order asked; it gets an error exactly where a serial read gives one, and
\* batches delivered before it stand.
SameAsSerial ==
    /\ Len(out) <= Len(call.ks)
    /\ \A i \in DOMAIN out : SerialReads(call.ks[i]) /\ out[i] = ReadEventAt(call.ks[i])
    /\ status = "returned" => Len(out) = Len(call.ks)
    /\ status = "RuntimeError" => \E i \in DOMAIN batch : ~SerialReads(batch[i])
    /\ status = "IndexError" => ~InRange(call.ks)

\* Every dgram of the batch is in exactly one of the places it can be: still
\* to be read, in the group, or sliced.  None is read twice, none is lost
\* where one group ends and the next begins.
ReadsEachOnce ==
    status = "reading" =>
        /\ Cardinality(pending) + Len(group) + Cardinality(got) = Cardinality(Reads(batch))
        /\ \A r \in pending, i \in DOMAIN group :
              r.chunk = group[i].chunk => r.offset >= GroupEnd

\* The offsets a merged pread reads that are no dgram's of the group.
Foreign ==
    {p \in GroupStart .. GroupStart + Span - 1 :
        \A i \in DOMAIN group : p \notin group[i].offset .. group[i].offset + group[i].size - 1}

\* A merged pread stays within the span cap unless it is a single dgram, and
\* reads no more foreign bytes than one gap between every two dgrams.
MergeBounded ==
    group # <<>> =>
        /\ Len(group) = 1 \/ Span <= MaxSpan
        /\ Cardinality(Foreign) <= MaxGap * (Len(group) - 1)

\* The bytes of the slices held while the call reads, and of what the caller
\* has: a repeated position is one Event of read_events, but a row each of
\* read_stack.
SlicedBytes == UNION {{g.k} \X ({g.stream} \X DOMAIN g.raw) : g \in got}

GivenBytes ==
    UNION {{IF call.api = "read_events" THEN call.ks[i] ELSE i}
                \X UNION {{s} \X DOMAIN out[i][s] : s \in DOMAIN out[i]} : i \in DOMAIN out}

\* A whole-slice call never holds more bytes than its limit, neither in slices
\* nor in what it gives.  A generator never holds dgrams of more events than a
\* batch has.
HeldBounded ==
    /\ call.api \in WholeSlice /\ call.limit # None =>
          \A held \in {SlicedBytes, GivenBytes} :
              held # {} => Cardinality(held) <= call.limit
    /\ call.api \notin WholeSlice /\ got # {} => Cardinality({g.k : g \in got}) <= call.batch
=============================================================================
