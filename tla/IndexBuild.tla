----------------------------- MODULE IndexBuild -----------------------------
(***************************************************************************)
(* index.py `build_index`: the random-access index of a run, built stream  *)
(* after stream from the SMD sidecars (`_scan_smd_stream`) or, without     *)
(* them, from the headers of the bigdata chunks (`_scan_bigdata_stream`),  *)
(* and put together by `_merge_streams`.                                   *)
(*                                                                         *)
(* A file is the whole dgrams in it and how it ends: at a dgram boundary,  *)
(* inside a header ("remnant") or inside a body ("cut").                   *)
(***************************************************************************)
EXTENDS Integers, Sequences, FiniteSets, FiniteSetsExt, SequencesExt

CONSTANTS
  Streams,    \* stream numbers, scanned in ascending order
  Runs,       \* what is on disk, and the arguments of build_index
  Tolerate,   \* tolerate_truncation of the scans; no build sets it
  NoFile,
  None

ASSUME StreamsAssumption == Streams \subseteq Nat /\ IsFiniteSet(Streams) /\ Streams # {}

ASSUME TolerateAssumption == Tolerate \in BOOLEAN

\* Services of a dgram; "Other" stands for those no scan looks at, the
\* end-of-batch L1Accept among them.
L1Accept == "L1Accept"
Services == {L1Accept, "Enable", "SlowUpdate", "BeginStep", "BeginRun", "Other"}

EnvServiceStore == [SlowUpdate |-> "epics", BeginStep |-> "scan", BeginRun |-> "scan"]

Tails == {"clean", "remnant", "cut"}

\* A bigdata dgram; `roll` is the chunkid of an Enable's chunkinfo, else 0.
Dgram == [ts : Nat, svc : Services, size : Nat, roll : Nat]

\* An SMD dgram: an L1Accept carries where its bigdata dgram lies, if anything.
NoInfo == <<>>
SmdDgram == [ts : Nat, svc : Services, info : (Nat \X Nat) \cup {NoInfo}, roll : Nat]

VARIABLES
  run,     \* [chunks, smd, timing, ask, keepTail], unchanged
  source,  \* scan_source: "smd" or "bigdata", None before it is chosen
  cur,     \* the stream being scanned
  chunk,   \* the chunk id its offsets index into
  n,       \* dgrams of the current file read so far
  recs,    \* per_stream: the records found
  env,     \* env_records: per store and stream, the transition timestamps
  index,   \* entries by timestamp, None until merged
  status   \* "select", "scan", "merge", then "done" or "raised"

vars == <<run, source, cur, chunk, n, recs, env, index, status>>

-----------------------------------------------------------------------------
(* What is on disk                                                         *)

OffsetOf(file, i) == FoldLeft(LAMBDA sum, d : sum + d.size, 0, SubSeq(file.dgs, 1, i - 1))

Hole(s) == \E i \in 1..Len(run.chunks[s]) : run.chunks[s][i] = NoFile

\* Where the whole dgrams of a stream lie, <<chunk, dgram>>, and their order.
Places(files) ==
  UNION {{c} \X (1..Len(files[c].dgs)) : c \in {k \in 1..Len(files) : files[k] # NoFile}}

At(files, p) == files[p[1]].dgs[p[2]]

Precedes(p, q) == p[1] < q[1] \/ (p[1] = q[1] /\ p[2] < q[2])

Rank(P, p) == Cardinality({q \in P : Precedes(q, p)}) + 1

\* The values of a function on places, in the order of the places.
InOrder(val) ==
  [k \in 1..Cardinality(DOMAIN val) |-> val[CHOOSE p \in DOMAIN val : Rank(DOMAIN val, p) = k]]

EventPlaces(files) == {p \in Places(files) : At(files, p).svc = L1Accept}

\* The offline SMD writer: one sidecar dgram per bigdata dgram of the stream,
\* without the events that no timing stream has.
Kept(chunks, timing, s) ==
  LET Times(r) == {At(chunks[r], p).ts : p \in EventPlaces(chunks[r])}
  IN  {p \in Places(chunks[s]) :
         \/ At(chunks[s], p).svc # L1Accept \/ timing = {}
         \/ \E r \in timing : At(chunks[s], p).ts \in Times(r)}

SmdOf(chunks, timing, s) ==
  LET Info(p) == <<OffsetOf(chunks[s][p[1]], p[2]), At(chunks[s], p).size>>
      Entry(p) ==
        LET d == At(chunks[s], p)
        IN  [ts |-> d.ts, svc |-> d.svc, roll |-> d.roll,
             info |-> IF d.svc = L1Accept THEN Info(p) ELSE NoInfo]
  IN  InOrder([p \in Kept(chunks, timing, s) |-> Entry(p)])

\* The DAQ announces each chunk in an Enable, behind the last event of the
\* chunk before it and in front of the first of its own.
Announced(files, p) == IF At(files, p).svc = "Enable" THEN At(files, p).roll ELSE 0

RollsAnnounced(files) ==
  \A p \in EventPlaces(files) :
    LET before == {q \in Places(files) : Precedes(q, p)}
    IN  /\ \A q \in before : Announced(files, q) <= p[1] - 1
        /\ p[1] = 1 \/ \E q \in before : Announced(files, q) = p[1] - 1

\* A sidecar that is not cut is what the writer wrote.
ASSUME RunsAssumption ==
  \A r \in Runs :
    /\ r.timing \subseteq Streams
    /\ \A s \in Streams :
         /\ r.chunks[s] # <<>>
         /\ r.chunks[s] \in Seq([dgs : Seq(Dgram), tail : Tails] \cup {NoFile})
         /\ r.smd[s] \in [dgs : Seq(SmdDgram), tail : Tails] \cup {NoFile}
         /\ r.smd[s] # NoFile /\ r.smd[s].tail = "clean" =>
              /\ r.smd[s].dgs = SmdOf(r.chunks, r.timing, s)
              /\ RollsAnnounced(r.chunks[s])

-----------------------------------------------------------------------------
(* The scans                                                               *)

Init ==
  /\ run \in Runs
  /\ source = None
  /\ cur = Min(Streams) /\ chunk = 0 /\ n = 0
  /\ recs = [s \in Streams |-> <<>>]
  /\ env = [store \in {"epics", "scan"} |-> [s \in Streams |-> <<>>]]
  /\ index = None
  /\ status = "select"

\* "auto" takes the sidecars when every one of them is there.
Source ==
  IF run.ask = "smd" \/ (run.ask = "auto" /\ \A s \in Streams : run.smd[s] # NoFile)
  THEN "smd" ELSE "bigdata"

Select ==
  /\ status = "select"
  /\ source' = Source
  /\ status' = "scan"
  /\ UNCHANGED <<run, cur, chunk, n, recs, env, index>>

\* A sidecar that is not there, or a chunk set with a hole.
OpenFails ==
  /\ status = "scan" /\ chunk = 0 /\ n = 0
  /\ IF source = "smd" THEN run.smd[cur] = NoFile ELSE Hole(cur)
  /\ status' = "raised"
  /\ UNCHANGED <<run, source, cur, chunk, n, recs, env, index>>

Opens == IF source = "smd" THEN run.smd[cur] # NoFile ELSE ~Hole(cur)

File == IF source = "smd" THEN run.smd[cur] ELSE run.chunks[cur][chunk + 1]

Reading == status = "scan" /\ Opens /\ n < Len(File.dgs)

AtEndOfFile == status = "scan" /\ Opens /\ n = Len(File.dgs)

HeadDgram == File.dgs[n + 1]

\* Where the head's bytes lie: the running offset restarts in every chunk.
HeadSpan == IF source = "smd" THEN HeadDgram.info ELSE <<OffsetOf(File, n + 1), HeadDgram.size>>

\* An L1Accept of a sidecar may have no smdinfo; a bigdata dgram is its own.
Indexable == source = "smd" => HeadDgram.info # NoInfo

\* Fault: the offset runs on over the chunks.
RecordRunsOn ==
  /\ Reading /\ HeadDgram.svc = L1Accept
  /\ Indexable
  /\ recs' = [recs EXCEPT ![cur] = Append(@,
       [ts |-> HeadDgram.ts, chunk |-> chunk, size |-> HeadSpan[2],
        off |-> IF @ = <<>> \/ source = "smd" THEN HeadSpan[1] ELSE Last(@).off + Last(@).size])]
  /\ n' = n + 1
  /\ UNCHANGED <<run, source, cur, chunk, env, index, status>>

RecordEvent ==
  /\ Reading /\ HeadDgram.svc = L1Accept
  /\ Indexable
  /\ recs' = [recs EXCEPT ![cur] = Append(@,
       [ts |-> HeadDgram.ts, chunk |-> chunk, off |-> HeadSpan[1], size |-> HeadSpan[2]])]
  /\ n' = n + 1
  /\ UNCHANGED <<run, source, cur, chunk, env, index, status>>

\* The SMD scan's chunk roll: only an Enable with a higher chunkid rolls.
FollowRoll ==
  /\ Reading /\ source = "smd" /\ HeadDgram.svc = "Enable"
  /\ chunk' = IF HeadDgram.roll > chunk THEN HeadDgram.roll ELSE chunk
  /\ n' = n + 1
  /\ UNCHANGED <<run, source, cur, recs, env, index, status>>

\* Fault: only the bigdata scan buckets the slow-data transitions.
RecordEnvOfBigdata ==
  /\ Reading /\ HeadDgram.svc \in DOMAIN EnvServiceStore
  /\ env' = IF source = "smd" THEN env
            ELSE [env EXCEPT ![EnvServiceStore[HeadDgram.svc]][cur] = Append(@, HeadDgram.ts)]
  /\ n' = n + 1
  /\ UNCHANGED <<run, source, cur, chunk, recs, index, status>>

RecordEnv ==
  /\ Reading /\ HeadDgram.svc \in DOMAIN EnvServiceStore
  /\ env' = [env EXCEPT ![EnvServiceStore[HeadDgram.svc]][cur] = Append(@, HeadDgram.ts)]
  /\ n' = n + 1
  /\ UNCHANGED <<run, source, cur, chunk, recs, index, status>>

\* Fault: the offset does not move over a transition.
SkipDgramSpins ==
  /\ Reading
  /\ \/ HeadDgram.svc = "Other"
     \/ HeadDgram.svc = L1Accept /\ ~Indexable
     \/ HeadDgram.svc = "Enable" /\ source = "bigdata"
  /\ UNCHANGED vars

SkipDgram ==
  /\ Reading
  /\ \/ HeadDgram.svc = "Other"
     \/ HeadDgram.svc = L1Accept /\ ~Indexable
     \/ HeadDgram.svc = "Enable" /\ source = "bigdata"
  /\ n' = n + 1
  /\ UNCHANGED <<run, source, cur, chunk, recs, env, index, status>>

Truncated ==
  /\ AtEndOfFile /\ ~Tolerate
  /\ File.tail # "clean"
  /\ status' = "raised"
  /\ UNCHANGED <<run, source, cur, chunk, n, recs, env, index>>

\* Fault: trailing bytes too few for a header count as a clean end.
EndsWithRemnant == AtEndOfFile /\ (File.tail # "cut" \/ Tolerate)

EndsRegularly == AtEndOfFile /\ (File.tail = "clean" \/ Tolerate)

LastFile == source = "smd" \/ chunk + 1 = Len(run.chunks[cur])

\* The bigdata scan's loop over the chunk files.
NextChunk ==
  /\ EndsRegularly /\ ~LastFile
  /\ chunk' = chunk + 1
  /\ n' = 0
  /\ UNCHANGED <<run, source, cur, recs, env, index, status>>

NextStream ==
  /\ EndsRegularly /\ LastFile
  /\ LET later == {s \in Streams : s > cur}
     IN  IF later = {}
         THEN status' = "merge" /\ UNCHANGED <<cur, n>>
         ELSE cur' = Min(later) /\ n' = 0 /\ UNCHANGED status
  /\ chunk' = 0
  /\ UNCHANGED <<run, source, recs, env, index>>

-----------------------------------------------------------------------------
(* The merge                                                               *)

Span(rec) == [chunk |-> rec.chunk, off |-> rec.off, size |-> rec.size]

Contributes(s, t) == \E i \in 1..Len(recs[s]) : recs[s][i].ts = t

RecordOf(s, t) == recs[s][CHOOSE i \in 1..Len(recs[s]) : recs[s][i].ts = t]

Duplicate == \E s \in Streams : \E i, j \in 1..Len(recs[s]) : i # j /\ recs[s][i].ts = recs[s][j].ts

\* The clamp: an event is kept when a timing stream contributes to it.  The
\* SMD writer has clamped already.
Clamp == IF source = "smd" \/ run.keepTail THEN {} ELSE run.timing

Merged ==
  LET all == UNION {{recs[s][i].ts : i \in 1..Len(recs[s])} : s \in Streams}
      kept == {t \in all : Clamp = {} \/ \E s \in Clamp : Contributes(s, t)}
  IN  [t \in kept |-> [s \in {r \in Streams : Contributes(r, t)} |-> Span(RecordOf(s, t))]]

MergeStreams ==
  /\ status = "merge" /\ ~Duplicate
  /\ index' = Merged
  /\ status' = "done"
  /\ UNCHANGED <<run, source, cur, chunk, n, recs, env>>

DuplicateRaises ==
  /\ status = "merge" /\ Duplicate
  /\ status' = "raised"
  /\ UNCHANGED <<run, source, cur, chunk, n, recs, env, index>>

Next ==
  \/ Select \/ OpenFails
  \/ RecordEvent \/ FollowRoll \/ RecordEnv \/ SkipDgram
  \/ Truncated \/ NextChunk \/ NextStream
  \/ MergeStreams \/ DuplicateRaises

\* Fairness: build_index is straight-line code over files of finite size.
Spec == Init /\ [][Next]_vars /\ WF_vars(Next)

-----------------------------------------------------------------------------
(* What the index is to be, read off the files                             *)

\* Every whole L1Accept of stream s.
EventsOnDisk(s) ==
  LET files == run.chunks[s]
  IN  {[ts |-> At(files, p).ts, chunk |-> p[1] - 1,
        off |-> OffsetOf(files[p[1]], p[2]), size |-> At(files, p).size] : p \in EventPlaces(files)}

HasEvent(s, t) == \E e \in EventsOnDisk(s) : e.ts = t

\* The canonical events: those that have a pulseId.  The shutdown tail comes
\* on top when it is asked for and the sidecars are not used.
CanonicalIndex ==
  LET all == {e.ts : e \in UNION {EventsOnDisk(s) : s \in Streams}}
      tail == run.keepTail /\ source = "bigdata"
      kept == {t \in all : run.timing = {} \/ tail \/ \E s \in run.timing : HasEvent(s, t)}
  IN  [t \in kept |->
         [s \in {r \in Streams : HasEvent(r, t)} |->
            Span(CHOOSE e \in EventsOnDisk(s) : e.ts = t)]]

\* The slow-data transitions of stream s that feed `store`.
EnvOnDisk(store, s) ==
  LET files == run.chunks[s]
      feeding == {p \in Places(files) : At(files, p).svc \in DOMAIN EnvServiceStore
                                         /\ EnvServiceStore[At(files, p).svc] = store}
  IN  InOrder([p \in feeding |-> At(files, p).ts])

\* What makes the files the build read unfit for an index.
Defective ==
  \E s \in Streams :
    \/ IF source = "smd"
       THEN run.smd[s] = NoFile \/ run.smd[s].tail # "clean"
       ELSE Hole(s) \/ \E c \in 1..Len(run.chunks[s]) : run.chunks[s][c].tail # "clean"
    \/ \E i, j \in 1..Len(recs[s]) : i # j /\ recs[s][i].ts = recs[s][j].ts

-----------------------------------------------------------------------------
\* The index holds every canonical event, and for each the chunk, offset and
\* size of the dgram of every stream that contributes, whichever source it
\* was built from: the two builds cannot be told apart.
IndexIsCanonical == status = "done" => index = CanonicalIndex

\* Both sources give the slow-data stores the same timestamps.
EnvOfEitherSource ==
  status = "done" => \A store \in DOMAIN env, s \in Streams : env[store][s] = EnvOnDisk(store, s)

\* The build refuses exactly the files that cannot be indexed: a short index
\* is never returned, and a missing sidecar alone is no reason to refuse.
RaisesIffDefective ==
  /\ status = "done" => ~Defective
  /\ status = "raised" => Defective /\ (run.ask = "smd" \/ source = "bigdata"
                                        \/ \A s \in Streams : run.smd[s] # NoFile)

\* Every build comes to an index or an error.
BuildEnds == <>(status \in {"done", "raised"})

=============================================================================
