# A verification of psdata

psdata reads the xtc2 files of an LCLS run: forward, event by event, from the
bigdata files alone, or at random through an index built from the `.smd.xtc2`
sidecars or from the bigdata headers. This directory holds TLA+ models of that
code, TLC runs that check them on small instances, and TLAPS proofs for every
value of the constants. Paths below are relative to `src/src/psdata/`.

## 1. Inventory

| Component | State | Operations | Talks to | Hard behaviour | What makes it correct |
|---|---|---|---|---|---|
| Stream cursor, `stream.py` `_StreamCursor` | window `_buf`, `_base`, `_pos`, cached head, chunk list and index, `_last_ts`, `_just_rolled` | `peek`, `advance`, `_fill_to`, `_maybe_trim`, `_roll_to_next_chunk`, `close` | chunk files through `pread`; pulled by the merge | short reads, compaction between two peeks, rolling, a file cut anywhere, a missing chunk | the window is the file; the head is one whole dgram; bounded memory; serves each dgram once and in order, and stops as its files do |
| Event merge, `stream.py` `events` | cursors, `ever_live`, `dropped` | one iteration: peek round, service, consume, yield or skip; close | cursors below; the join or the user above | streams that skip, repeat, end early or raise in the middle of a round | each group of equal timestamps once and in order; drop-outs reported for good; a cut never passes for a drop-out |
| Gate source, `index.py` `iter_gate_timestamps` | one generator per stream, the heap of their heads | yield or skip a group, end, raise, close | sidecars or bigdata headers; pulled by the join | reads one record ahead of the group it yields | the canonical timestamps, without building the index |
| Gated stream, `run.py` `_gated_stream` | gate head, two suspended generators | advance gate, pull event, pass, skip, close | merge and gate | either side may end, fail or be dropped first | equals the filter by the whole index; never ends regularly short of it; closes both |
| Index build, `index.py` `build_index` | per-stream records, environment records | both scans, merge | files | chunk rolls, holes, cuts, repeated timestamps, shutdown tail | same index from either source, or an error |
| Index file, `index.py` `save`, `load` | container on disk, fingerprints | save, load, resolve, verify | files, other processes | torn writes, files replaced or moved under an index | an index loads whole or not at all; stale offsets are refused, a moved run is not |
| Random access, `index.py` `read_event*`, `read_stack`, `iter_*` | fd cache | read one, read many, budget | index, bigdata files | coalescing, duplicate positions, limits | a batch equals its single reads; bounded buffers |
| Event, `stream.py` `Event` | segment index, damage, drop-outs | `stack`, `raw`, `detector_status` | merge, random access | absent, dropped and damaged segments | never an array with a segment silently missing |
| Environment store, `envstore.py` | timestamps and dgram places per stream, fd cache | as-of lookup | index | walk back over records without the variable, streams with fields of their own | the last value at or before the time, or none |
| Run facade, `run.py` `Run` | lazily built index, environment store, step configurations | accessors, rebuild, close | all of the above | caches that outlive what they were built from, descriptors that outlive their process | accessors agree with each other; a descriptor number names the file it is kept for |
| xtc2 format, `format.py` | Names tables, version signals | header and container walk, discovery | files | extents read from the file, version policy | every slice inside its dgram; each version signalled once |
| torch datasets, `torch.py` | index, fds per process | fork, pickle, item read | index | descriptors shared over a fork | each process reads with its own |
| Tools and examples | none | scripts | - | - | - |

The hazards of this code, each at its line and with the properties that cover
it, are in `PROJECT.json`.

How the parts interact: `Run.events()` starts one merge over one cursor per
stream and one gate generator, and joins them; everything runs in one thread,
so interleaving means *who is asked next and what has already been read when
it answers*. Generators hold open files, so how they end matters. The index is
shared between processes as a file or by pickling.

## 2. Modules

| Module | Models | Notes |
|---|---|---|
| `StreamDisk` | a stream's chunk files and the two ways they are enumerated | dgrams with a timestamp, an offset and a size; a file may be cut in its last dgram |
| `DgramStream` | abstract: what one stream promises | refined by the cursor |
| `StreamCursor` | `_StreamCursor` | one action per `pread`, per outcome of `peek`, `advance`, `close` |
| `EventBuilder` | abstract: the events of a set of streams | refined by the merge; written without cursors |
| `EventMerge` | `events()` | one action per kind of iteration; "suspended" is a generator before its start or at a yield |
| `GateSource` | `iter_gate_timestamps`, `_merge_join_gate_ts` | also the canonical timestamp set, for comparison |
| `GatedStream` | `Run.events`, `_gated_stream` | composes `EventMerge` and `GateSource` |
| `IndexBuild` | `build_index`, `_scan_smd_stream`, `_scan_bigdata_stream`, `_merge_streams` | one action per dgram read; the sidecars come from a model of their writer |
| `IndexFile` | `RunIndex.save`, `load`, `resolve_paths`, the fingerprints and their checks, the descriptor caches | a builder, a loader and others who change the files; one action per write, per check, per change |
| `BatchRead` | `read_events`, `read_stack`, `iter_events`, `iter_stack`, `_coalesce`, the memory estimate | compared with the serial `read_event_at` |
| `EnvAsOf` | `EnvStore.as_of` and its helpers, down to the `KeyError` of `extract_field` | compared with feeding the records in order |
| `StepConfig` | `Run.seg_configs`, `_seg_config_steps`, `extract_segment_configs`, over `EnvAsOf` for `Run.scan` | compared with the transitions each stream has seen before the event |
| `RunFacade` | what a `Run` and its `XTCDataset`s cache, in one process and its workers: build, rebuild, read, close, drop, fork, pickle | descriptors are numbers in a table |
| `Discovery` | `discover`, `parse_configure`, `parse_names_block`, the front buffer, the version signal | any number of runs opened in one process |
| `EventAccess` | `Event`: `_index_dgram`, `raw`, `detector_status`, damage, and `extract_field` | over the tables of `Discovery` |
| `MC*` | instances for TLC | `MCRunIndex` and `MCRun` put models side by side that share no variable: an initial state belongs to one of them and the other never moves, so one run explores both, each as it is alone |
| `StreamCursorProofs`, `EventMergeProofs`, `GatedStreamProofs`, `IndexBuildProofs`, `StoreProofs`, `BatchReadProofs`, `RunFacadeProofs`, `DiscoveryProofs` | theorems | section 4; each extends the module it is about, `StoreProofs` both `IndexFile` and `StepConfig` |

How state and actions correspond to the code:

* **StreamCursor.** `buf`, `base`, `pos` are `_buf`, `_base`, `_pos`; `idx` is
  `_chunk_idx + 1`; `head` is the cached head and its relative offset;
  `justRolled` and `lastTs` are the fields of that name. A byte is modelled by
  where it lies on disk, `<<chunk, offset>>`, so "the window is the file" is a
  statement about content. A loop in `peek` is the actions `Fill`, `Roll` and
  the outcomes `Serve`, `CutShort`, `EndOfStream`; `Advance` contains the trim
  that ends `advance`.
* **EventMerge.** `at[s]` counts what stream `s`'s cursor has consumed;
  `everLive` and `dropped` are the generator's sets. An iteration is atomic:
  nothing else runs in it. `Refusing` streams raise out of the peek round.
* **GateSource.** `taken[s]` counts the records of stream `s` that went into
  groups. `heapq.merge` reads a stream's next record before the group that
  ends with the last one is complete, so a cut right behind a group refuses
  the group (`Refuses(TakenWithGroup)`).
* **GatedStream.** `head` is the gate head, `join` the point the generator is
  at. The two generators' own variables are the parameters of `Merge` and
  `Gate`; the `finally` clause is `CloseMerge` and `GateClose`, conjoined to
  every action that ends the join.
* **IndexFile.** A file is a sequence of dgrams of one unit each: its size is
  its length, an offset is a position. `builder.scanned` is what the scan read
  of each file, `builder.stated` what `record_file_fingerprints` stat'd later;
  the fingerprint is size and `mtime` of the latter. `container` is the file
  `save` writes, header and payload apart, since `open(path, "wb")`, the header
  and the payload reach the disk one after the other. `reader.step` walks
  through `load`: header, payload with length and digest, place, verification.
  `since` is the model's clock and is read by properties only. A descriptor in
  `fds` is closed, open on a path, or the unlinked file it was open on.
* **BatchRead.** A byte is `[ts, nth]`, so two slices are equal only if cut at
  the same place. `pending`, `group` and `got` are the reads not yet merged,
  the group being merged, and the slices; `status` is where the call is or the
  exception it ended with. `CheckCall` is everything in front of the first
  read; `Resume` is the caller's next `next()`.
* **StepConfig.** `active` is the running dict the steps are folded from, `off`
  and `streams` the walk of the first chunks, `pending` the timestamps of
  `per_ts`, `steps` the returned list; a value is named by the timestamp of the
  dgram that wrote it. The caller asks `scan` for the event first.
* **RunFacade.** `objs` are the `RunIndex` objects alive, with the generation of
  the files they were built from and their descriptor cache; `index`, `env` and
  `configs` are `Run._index`, `_env` and `_seg_cfg_steps`. The configurations
  have two generations: the base is read from the files as they are when
  `seg_configs` is called, the places of the `BeginStep`s come from the index
  (`run.py` 610-623). `table` is the process's
  descriptor table: a number, the path it is open on, and the process that
  opened it. `Collect` is `__del__` of every index nothing refers to any more.
  `Fork` keeps all of it under a new `pid`; `ShipDataset` and `ShipRun` are a
  pickle arriving in a worker with an empty table. `lost` is history, read by a
  property only.
* **Discovery.** `cur` and `stack` are the range `parse_configure` walks and the
  ranges it found, `left` the streams still to be opened, taken in ascending
  order; `signaled` is `_signaled_versions`, `log` what the logger was
  given. Bytes are counted in cells: an Xtc header, the front of a Names block,
  its fields, a shape and an element of data are one each.
* **EventAccess.** `at` and `outer` are the recursion of `_index_dgram`,
  `captured` is `_seg_index`; the accessors are operators on an indexed event.
* **EnvAsOf.** `left` and `p` are the loops over the owning streams and
  backwards over the records; a value is named by the record it comes from.
  `tables` are the fields of each stream's own table: the owners are chosen by
  algorithm over the fields of all of them, `Carries` is a record with the
  algorithm's container, and where the stream's own table lacks the variable
  the lookup ends `raised` (`LacksField`).
* **IndexBuild.** `cur`, `chunk`, `n` say where the scan is, `recs` and `env`
  are its two results, `index` the merged entries. `source` is chosen once. A
  dgram on disk is named by its place, `<<chunk, dgram>>`; what a sidecar holds,
  and what the index is to hold, is stated by places and their order (`Places`,
  `InOrder`), not by a second scan.

## 3. What the runs check

| Run | Question | Result |
|---|---|---|
| `cursor` | Does the cursor keep its window, head and memory, and serve its files? | holds; refines `DgramStream` (`ServesTheFiles`) |
| `merge` | Are the events of any streams built whole, once, in order, with final drop-outs? | holds; refines `EventBuilder` |
| `gated` | Is the join the filter by the index, in lockstep, and does it release its files? On a regular run, does a regular end deliver the whole index? | holds |
| `gated_collision` | The same when a transition of one stream shares its time with an event of another | no: the event is indexed and not streamed |
| `index` | Do both sources give the canonical index, and is every defect refused? | holds |
| `run_index` | Is what is read through a loaded index what the build scanned, whoever changed or copied files and wherever the builder died; does verification refuse only on a change? Does a batch equal its serial reads, read each dgram once, and stay within its caps and limits? | holds, outside of the moments `Unnoticeable` lists |
| `index_copy` | Is a byte-identical relocated copy never refused? | no: below the build root it is compared by mtime |
| `run` | Does every cached number name its file in its process; does a worker read with its own; is any lost? Does a random lookup answer what replaying the records would, is the configuration the one active at the event, and do `scan` and `seg_configs` put an event in the same step? | holds, with the exceptions the properties name, for runs as `Regular` describes them |
| `facade_caches` | Do the caches of a `Run` know what its index knows? | no: they outlive a rebuild |
| `facade_ship` | Does a number name its file when a `Run` is pickled after its environment store was read? | no: the store's numbers go along |
| `env_own_fields` | Does a lookup without an update answer `None`? | no: it raises where a stream declares the algorithm without the variable |
| `event` | Are a run's tables whole or refused, is every unvalidated version noticed, is a frame made of its own event's data only, and do the verdicts agree? | holds |

The five runs that end in a violation are findings in `PROJECT.json`; each
quotes the sentence the code departs from.

### Bounds

* `cursor`: a header of 2 bytes, dgrams of 2 to 4 bytes, reads of 1 to 5 bytes,
  trimming at 3. Every pair of two chunk files from a list of nine, the last
  dgram of each cut at every byte, and three-file layouts with an empty chunk,
  a hole, a cut, or a name that does not roll. This reaches every combination
  of trim, roll, cut in a header or a body, and a read that ends anywhere. One
  layout is long enough for the window to reach its bound exactly.
* `merge`: three streams of up to three dgrams from nine contents, each ending
  or refusing. Three streams are the fewest in which one leads, one waits and
  one is dry.
* `gated`: two streams. Every subset of a four-dgram run on either stream with
  every kind of file end, with and without the clamp, from bigdata headers and
  from sidecars that stop earlier; then anomalies (repeated timestamps, an
  end-of-batch event, sidecars of another run).
* `index`: two streams, one of two chunks with the `Enable` of the roll on
  either side of it, each sidecar present, cut or missing, all three sources,
  all clamps; damaged bigdata with every combination of file ends; holes.
* `run_index`, saving and loading: two files of an environment record and an event. Two builds,
  so that one saves over the other's container, and two changes by others
  anywhere between any two steps of build, load and read: two are enough for a
  copy followed by a rewrite, a removal that comes back, or one change between
  scan and stat and one after the load. New contents are the same size and
  timestamps, the same size with other timestamps, shorter, or equal. `beside`
  is not below the build root; in `index_copy` it is, with one build. Files are interchangeable (symmetry; the run
  has no liveness property).
* `run_index`, batches: three events on two streams and three chunk files; gaps of 0, 1 and
  2 against `MaxGap` 1, dgrams of 1 to 5 bytes against `MaxSpan` 5, so both
  caps are met exactly and exceeded; the last dgram cut, absent or foreign;
  requests with repeats, any order, out of range, empty; limits just above one
  event; batches of 0, 1 and 2.
* `run`, lookups: two streams of up to four records, any of which may lack
  the container, with repeated timestamps; the streams declare one algorithm
  with the same fields or each with its own, or two algorithms; depth 0, 2 and 10; queries before,
  on, between and after the records; a variable nobody declares. Runs of two
  streams and three segments: steps without events, one of them not heard by
  stream 1, no step at all, configurations on any set of transitions, and a
  first chunk that holds all of a stream or only its `Configure`.
* `run`, the handle: two generations of the files, three processes (a worker's worker is
  the fewest in which a dataset is guarded twice), four descriptors, two
  index objects, two datasets: two datasets are the fewest that share an index,
  two objects the fewest in which a rebuilt index lives beside one that a
  dataset still uses. The theorems of `RunFacadeProofs` hold for any number. `facade_caches` needs
  one process and one dataset; `env_own_fields` the lookups of `run` at one depth.
* `event`: a camera of two segments on two streams, a timing detector nested
  beside segment 0. Configures cut at every cell and larger than the read
  window; two runs opened in a process, versions acknowledged by name and by
  type, strict mode changed in between. Sound events with every subset of
  contributions and damage words 0, 1, 4096, 4097; every event in which one
  extent or shape has any value from 0 to beyond the dgram.

### Fairness

All of this is straight-line code that a consumer pulls: `WF` on the steps of
the loop says that the consumer keeps asking and that `pread` returns. Closing,
interrupting and dropping a generator are never owed. Under this fairness
`Answers`, `RunEnds`, `JoinEnds` and `BuildEnds` say that no loop spins. The
other specifications state no fairness: nothing they model is owed, or their
loops run down a finite list.
Deadlock checking is off in the runs of components that stop; it is on in
`facade_ship` and `facade_caches`, where a handle can always be used again.

## 4. What is proved

TLAPS checks, for every value of the constants:

* **The cursor** (`StreamCursorProofs`), from `HdrAssumption` (a header is not
  empty), `DisksAssumption` (the files are laid out as `DiskOK` says and
  declare at most `MaxTotal` bytes per dgram), `SizesAssumption` and
  `NoneAssumption`: `TypeCorrect`, `WindowAlwaysFile`, `HeadAlwaysWhole`,
  `MemoryBounded`, `RollsAscend`. `WindowIsFile` is not inductive alone: to
  know that `HeaderAt` reads a header and not payload, the cursor must stand
  on a dgram or at the end of the file (`OnBoundary`), and how far a fill may
  take the window depends on how little of it is consumed (`PrefixTrimmed`).
  `IInv` is their conjunction. The order over rolls is a second invariant on
  top of it (`RollChecked`): the cursor stands at file offset 0 only behind a
  roll, so the first dgram of a chunk is always compared.
  `CursorKeepsContract` is the safety half of the refinement `ServesTheFiles`:
  the cursor starts as `DgramStream` and each of its steps is a step of it or a
  stutter. The files are served chunk by chunk (`ServedUpTo`), so a third
  invariant (`ServesInv`) says where the cursor stands in that: the chunk it is
  on has been reached, nothing before it is cut or steps back, and what the
  abstract stream has still to serve is what lies at and behind the position
  (`Standing`). The length of what is served so far is all that is needed of the
  fold, one chunk at a time.
* **The merge** (`EventMergeProofs`), from `StreamsAssumption` and
  `InputsAssumption` (each stream ascends): `TypeCorrect`, `AlwaysAscending`,
  `DropOutAlwaysFinal`, `CutNeverDropOut`. The events so far are compared with
  the heads that still wait and with the streams known to be dry
  (`DroppedAreDry`): a dry stream never comes alive again, because consuming
  only moves heads forward. `MergeBuildsEvents` is the refinement `BuildsEvents`
  itself, which has no liveness in it: every iteration of the merge is the step
  of `EventBuilder` for the earliest time not delivered. The abstract builder
  knows no cursors, so the invariant (`BuildInv`) adds that what lies in front
  of the cursors is exactly what was delivered or swept (`Swept`), and that the
  streams known to be live and those reported as dropped are the builder's
  (`EverLiveFits`, `OutFits`).
* **The gated stream** (`GatedStreamProofs`), from `StreamsAssumption`,
  `ServicesAssumption`, `NoneAssumption` and `RunsAssumption` (bigdata files and
  sidecars ascend; what they hold of each other, and where they are cut, is
  open): `AlwaysTheFilter`, `AlwaysYieldsTheIndex`, `AlwaysInLockstep`,
  `AlwaysReleasesBoth`. The merge's own invariant is used as proved, over an
  instance of `EventMergeProofs` and the lemma that each step of the join is a
  step of the merge or leaves it alone. On top of it, what has gone into the
  gate's groups lies before what has not (`Swept`), the head is the last group
  (`HeadOK`), and no generator is suspended behind a join that ended (`JoinOK`).
  That on a regular run every event a cursor has consumed is among the merge's
  events (`NothingSwallowed`) carries the claim about regular ends: what was not
  yielded would still wait in front of a cursor or of the gate.
* **The index build** (`IndexBuildProofs`), from `StreamsAssumption` and
  `RunsAssumption` (the types of the files, and of a sidecar that is not cut: it
  is what the writer writes of the bigdata, and the DAQ announced each chunk
  between the last event of the one before it and its first), for a build that
  does not tolerate truncation (`~Tolerate`; no caller sets it, see section 5):
  `AlwaysCanonical`, `EnvAlwaysOfEitherSource`, `AlwaysRaisesIffDefective`. Both
  scans go through places in order - all of them, or those the writer kept - so
  what a scan has found is the listing of the places it has passed (`Found`), and
  one more dgram appends one place (`InOrderAppend`, `FoundMore`). An SMD scan
  knows a chunk only from the Enables it has passed; that they name the chunk an
  event lies in takes an invariant of its own (`ChunkFollows`, `RollsFollow`).
  Streams already scanned are whole (`Sound`), which is the refusals' half.
* **The index file** (`StoreProofs`), from `BodiesAreDgrams`,
  `RootIsUnderRoot` and `BoundsAreNumbers`, for any files, contents and number of
  changes and builds and any set of places that count as below the build root:
  `TypeCorrect`, `AlwaysServesWhatWasScanned` and `RefusalsAreChanges`, an action
  property: a refusal means a file written or copied over since its stat at the
  build root, other bytes or another mtime elsewhere in place, other bytes off
  the build root. That a byte-identical copy is never refused is not a theorem:
  `index_copy` is a counterexample. Contents are never compared by the code, so the invariant is about
  time stamps: of all that is known of one file - on disk, in an index half
  built, saved or loaded, behind an open descriptor - two states with one mtime
  hold the same bytes (`StampsTell`); whoever is at the build root can only move
  forward (`RootMovesOn`); and a load that passed has compared what is in place
  (`Compared`).
* **Lookups** (`StoreProofs`), from `LookupsAssumption`, `StoresAssumption` (the
  records of a stream ascend in time, not strictly) and `NoneAssumption`:
  `AlwaysAsOfIsReplay`, for the stores given, whatever fields each stream's own
  table has, and for the scan store of any run: the answer is the replay's, and
  the lookup raises exactly where the stream that would answer lacks the
  variable.
  The replay is a recursive function of the position, so it is first described
  without recursion (`ReplayRemembers`): it remembers the last record at or
  before the time that holds the variable, aged by the records after it. The
  search goes backwards; its invariant (`LookInv`) is that the owners passed have
  no such record within the depth (`Silent`) and that none lies between the
  position searched and where the search of the head began.
* **Configurations** (`StoreProofs`), from the above and `StepRunsAssumption` (a
  stream's first dgram is its one `Configure`, only events share a timestamp
  within a stream, no segment is declared by two streams) and `StagesAssumption`:
  `AlwaysConfigActive` and `AlwaysAgreesWithScan`, for any streams, dgrams, ends
  of the first chunk, missed broadcasts and detectors. The invariant (`StepInv`)
  describes a configuration segment by segment, through the segment's own stream
  alone: while the fronts are walked it holds what the first dgrams wrote last
  (`AtWrite`); after a step it holds what the last step wrote that carries the
  segment, or else what the front did (`AtStep`). That a front may have run into
  the steps is harmless because such a step is laid over again. Every step told
  to a declaring stream is listed or still pending (`OverlaysAt`), so the one
  found for an event is the last that began. The agreement of the two lookups
  compares that step with the record `LookInv` says `scan` answers from.
* **Batches** (`BatchReadProofs`), from `CapsAreNumbers`, `RequestsAssumption`
  and `RunsAssumption` (an entry has a place in a chunk and a size, and dgrams
  within one chunk are disjoint, as `index.py` 989 relies on):
  `AlwaysSameAsSerial`, `AlwaysReadsEachOnce`, `AlwaysMergeBounded`, for any
  request, gap, span and limit, and for files cut or foreign anywhere. Every
  read of a batch is still pending, in the group, or settled; the order of the
  reads keeps the three apart (`Places`), and a slice cut out of a merged read is
  what its own read would have returned, short at the end of a file included.
  `AlwaysHeldBounded` needs one fact more: that a call which reads has passed
  its budget, and that what it holds is its batch's (`Budgeted`). Bytes are
  counted as the sets they are (`RequestedBytes`), so that "what is held is part
  of what was estimated" is an inclusion, repeats of a position included.
* **The run facade** (`RunFacadeProofs`), from `BoundsAssumption` and
  `NilAssumption`, for any number of processes, descriptors, indexes and
  datasets, as long as no `Run` is pickled after its environment store was read
  (`~ShipsReadEnv`; with it `facade_ship` is a counterexample):
  `DescriptorsAlwaysNameTheirFile`, `OwnDescriptorsAlways`, `NeverLost`. That a number names its file is not
  inductive: a close closes the numbers of one cache, so no two caches may share
  a number (`Apart`), and what the `Run` and its datasets refer to must exist.
  `IInv` says so. `OwnDescriptors` needs that no dataset is of a process yet to
  begin (`Begun`), so that a fork leaves every dataset to be guarded. `NeverLost`
  says where each open number of a process is kept.
* **Discovery** (`DiscoveryProofs`), from `ReadWindowAssumption` and
  `RunsAssumption` (Configures are nested as `WellNested` says, of any depth, and
  may be cut at any cell): `AlwaysWholeOrRefused` and `AlwaysSignalled`. The first
  rests on what is still ahead of the walk: each Names block of the Configure is
  in its tables, in the range being walked, or in one on the stack, and each of
  these ranges starts at an Xtc or is empty (`TablesInv`, `InStep`). The second on what was already dealt
  with: each table read so far is validated, acknowledged or logged, and the set
  of signalled versions is what the log holds, once each (`VersionInv`), across
  all the runs a process opens.
* **The verdicts on an event** (`DiscoveryProofs`), from the above,
  `SegmentsAssumption` (a segment is read out by one stream),
  `EventsAssumption` (an event's dgrams come from streams of its run and none
  that dropped out, which is `DropOutIsFinal` of the merge; one called intact is
  nested as `Nested` says) and `NoneAssumption`: `AlwaysVerdictsAgree`, for any
  event, damaged or not. "Present" is what `raw` answers, and whatever the
  extents in a dgram are, only with segments the DAQ wrote into this event; of
  sound dgrams `_index_dgram` misses no segment. What is captured comes from a
  ShapesData of the event (`CapturedThere`); what is not yet captured of a sound
  dgram lies in the range walked, in one around it (`WalkedOn`) or in a dgram not
  yet walked (`StreamsIndexed`). Both walks, this one and that of
  `parse_configure`, pass an Xtc by the one lemma `PassXtc`. The tables are whole
  by then (`EventInv` on top of `TablesInv`), so the streams `detector_status` and
  `is_detector_damaged` consult are those that declare the detector.

Each module proves the facts about least and greatest elements it needs
(`LeastElement`, `MinProperties`, `GreatestElement`) from the library's
well-founded order of the naturals. Induction over positions, where a recursive
function of the positions is described, is the argument from the least position
at which the description fails (`IntervalInduction`).

Only model-checked:

* Liveness (`Answers`, `RunEnds`, `JoinEnds`, `BuildEnds`, and the fairness that
  `ServesTheFiles` asks of the cursor), which is out of the prover's reach.
* `FrameIsTheEvents` of `EventAccess`: that a frame's segments are the event's is
  in `VerdictsAgree`, but its cells are folds of library operators (`FoldLeft`,
  `FoldLeftDomain`), and what such a fold computes for every
  input needs induction over data through an operator parameter, which the
  prover cannot do here.

## 5. What is left out, and why

* Payload bytes, dtypes and array layout: no property here depends on them.
  In `EventAccess` payload is taken not to look like an Xtc header; a fixed
  timing pulse id (`pulseId`), `uniqueid` and `extract_detector_event` are left
  out, and `stack` is `raw` with the segments in order.
* Files do not change while one scan or one iteration of a stream runs, nor
  while one file is scanned or one verification runs in `IndexFile`; they
  change between any two of those steps.
* In `IndexFile`: a write always stamps a new mtime and only a copy keeps one
  (a writer that restores an mtime defeats any such check); two savers at
  once (header and payload of different saves are told apart by length and
  digest exactly as those of a torn save are); the binary codec itself and the
  older container formats, which have no digest.
* `UnderRoot` is a constant of `IndexFile` because `_resolved_off_build_root`
  also counts directories *below* the build root as in place. `run_index` has no
  such directory, `index_copy` has.
* `tolerate_truncation` of the bigdata scan: no caller sets it, `Tolerate` is
  FALSE in the run and in the theorems. With it, the `break` at a cut
  (`index.py` 2068-2090) leaves the walk of one chunk and later chunks are still
  scanned, although the docstring (2021) says "index the intact prefix and stop".
* Tables of one detector that differ between its streams: `StepConfig` takes
  every segment's configuration to have the same fields. Where they differ,
  `_read_config_dgram` asks each stream for the fields of all (`want_fields`,
  `run.py` 605) and meets the `KeyError` that `EnvAsOf` models.
* The docstring of `read_events` speaks of one `os.pread` per pair; reads are
  merged, which `run_index` shows to be unobservable.
* A gated stream whose bigdata lost whole dgrams at its end, while the
  sidecars did not, ends short without an error: a cut on a dgram boundary is
  the regular end of a file. `JoinIsFilter` is stated for regular runs.
* Conversion of environment values and PV names to fields in `EnvAsOf`;
  `Run.epics` and `Run.scan` are one lookup.
* `pread` errors (`EIO`) and interrupts end a generator like the errors that
  are modelled.
* A join that is never started runs no `finally`; its two generators have not
  opened a file from the merge, and the gate's files are closed when they are
  collected. The model's first state is the first `next()`.
* Wall-clock and byte counters of a build.

### Seen in the code, kept out of the runs

What the models are built to accept, and a reader of the code should know:

* A hole in the chunk set ends a forward stream regularly (the chunks are
  probed by name until one is missing, `stream.py` 131), while `index._enumerate_bd_chunks` refuses it; so does a cut
  inside the header of the last chunk's last dgram (`stream.py` 269).
  `ServesTheFiles` states the stream's own rule for both.
* The environment store reads without the fingerprint check that guards event
  reads (`envstore.py` 197 against `index.py` 769); `ServesWhatWasScanned`
  promises an environment read nothing in the moments `Unnoticeable` lists, and
  an event read the right timestamp even then.
* `seg_configs` reads the base configuration from each stream's `c000` file
  only and stops quietly at a cut. `ConfigActiveAtEvent` holds all the same for
  runs where configurations ride on `Configure` and `BeginStep` and every
  stream's first event follows its first `BeginStep` (`Regular`). A
  configuration on `Enable` before the first event is taken for the whole run,
  and an event before the first `BeginStep` gets that step's configuration.
* When the first step has no events, the base has already folded in the next
  step's configuration. Element 0 of the steps, the base with the first
  `BeginStep` over it, is then not the single value `seg_configs` answers with
  when asked without an event (`run.py` 587-588 says it is).
* A dataset made *in* a worker over an index it inherited already warm is not
  guarded, since its pid is the worker's (`clean` in `OwnDescriptors`). On
  Linux the inherited descriptors are valid; their file offset is shared, which
  `pread` does not use.
* The guard drops descriptors the worker opened itself when the `Run`, or
  another dataset, read through the same index first (`lost` in `NothingLost`):
  `_drop_inherited_fds` takes every cached number for the parent's and closes
  none of them, so the worker keeps them open until it ends.
* The environment store survives `build_index(rebuild=True)` and the step
  configurations survive `close()` as well: `facade_caches` shows that after
  either, accessors answer from different generations of a growing run. The
  configurations can mix two even when they are made, their base being read from
  the files and their steps through the index.
* `parse_configure` walks containers last in, first out and `_index_dgram` in
  the order of the document; with keys unique in a stream this is
  unobservable. An extent shorter than a header ends a walk without an error,
  and a Data child is bounded by the buffer, not by the ShapesData around it:
  `FrameIsTheEvents` shows that no wrong single extent or shape makes a frame of
  anything but its own segment's data.

## 6. Status and plan

Every component but the tools is modelled; what is `partly` so is named in
`PROJECT.json` and above. Still worth modelling: pulse ids and
`extract_detector_event`, two savers of one index at once, and value
conversion in the environment store.

Composition: `GatedStream` over `StreamCursor` instead of `EventMerge`'s
abstract streams is not needed for safety, since the cursor refines
`DgramStream` and the merge assumes no more than that.
