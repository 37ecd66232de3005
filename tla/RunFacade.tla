----------------------------- MODULE RunFacade -----------------------------
(***************************************************************************)
(* One Run handle and what it caches, in a process and the workers it      *)
(* forks or sends pickles to: the RunIndex (Run._index), the environment   *)
(* store (Run._env), the step configurations (Run._seg_cfg_steps), and     *)
(* XTCDatasets that share an index.  An index and an environment store     *)
(* keep descriptors by path, plain numbers that mean something only in the *)
(* process whose table holds them.  The run may still be growing: what a   *)
(* cache was read from is known by the generation of the files.            *)
(*                                                                         *)
(* Processes share nothing that changes once a worker has begun, so the    *)
(* specification goes on with the worker then; the process it left behind  *)
(* behaves as if it had not begun one.                                     *)
(***************************************************************************)
EXTENDS Integers, Sequences, FiniteSetsExt, Functions

CONSTANTS
    DataPath,      \* what read_event opens
    EnvPath,       \* what the environment store opens
    ShipsReadEnv,  \* a Run is pickled after its environment store was read, too
    MaxGen, MaxPid, MaxFds, MaxObjects, MaxDatasets,    \* bounds
    Nil

Fds == 1 .. MaxFds
Objects == 1 .. MaxObjects

ASSUME BoundsAssumption == {MaxGen, MaxPid, MaxFds, MaxObjects, MaxDatasets} \subseteq Nat \ {0}
ASSUME NilAssumption ==
    /\ Nil \notin Objects /\ Nil \notin [path : {DataPath, EnvPath}, opener : 1 .. MaxPid]
    /\ Nil \notin [gen : Nat, fds : UNION {[P -> Fds] : P \in SUBSET {DataPath, EnvPath}}]
    /\ Nil \notin [base : Nat, places : Nat]

VARIABLES
    gen,       \* generation of the run's files
    pid,       \* os.getpid()
    table,     \* the descriptor table: number -> [path, opener] or Nil
    index,     \* Run._index: an object or Nil
    env,       \* Run._env: [gen, fds] or Nil
    configs,   \* Run._seg_cfg_steps: [base, places] or Nil; the generations that
               \* the base and the places of the BeginSteps were read from
    objs,      \* the RunIndex objects: [gen, fds]
    datasets,  \* Seq([obj, pid, clean])
    lost       \* history: a dataset dropped what its own process had opened

handle == <<index, env, configs>>
vars == <<gen, pid, table, handle, objs, datasets, lost>>

\* Run.__init__; `clean` of a dataset is history: no inherited descriptor was
\* in its index when it was made.
Init ==
    /\ gen = 1 /\ pid = 1
    /\ table = [fd \in Fds |-> Nil]
    /\ index = Nil /\ env = Nil /\ configs = Nil
    /\ objs = <<>> /\ datasets = <<>>
    /\ lost = FALSE

-----------------------------------------------------------------------------
\* d[key] = value of a dict.
Put(d, key, value) == [k \in DOMAIN d \cup {key} |-> IF k = key THEN value ELSE d[k]]

\* RunIndex.close, EnvStore.close: os.close of every cached number.
Shut(tab, fds) == [fd \in Fds |-> IF fd \in fds THEN Nil ELSE tab[fd]]

\* The objects something refers to.
Live == {index'} \cup {datasets'[i].obj : i \in DOMAIN datasets'}

\* Fault: an index goes without closing what it cached.
DropUnclosed(os, tab) ==
    /\ objs' = [o \in DOMAIN os \cap Live |-> os[o]]
    /\ table' = tab

\* RunIndex.__del__: an index nothing refers to any more is closed.
Collect(os, tab) ==
    /\ objs' = [o \in DOMAIN os \cap Live |-> os[o]]
    /\ table' = Shut(tab, UNION {Range(os[o].fds) : o \in DOMAIN os \ Live})

NewObject == Min(Objects \ DOMAIN objs)

CanBuild == index # Nil \/ Objects \ DOMAIN objs # {}

\* Run.build_index(): the cached index, or a new one of the files as they are.
Built == IF index = Nil THEN NewObject ELSE index

BuiltObjs == IF index = Nil THEN Put(objs, NewObject, [gen |-> gen, fds |-> <<>>]) ELSE objs

BuiltGen == BuiltObjs[Built].gen

\* os.open takes the lowest free number; _bd_fd, _read_dgram keep it by path.
FreeFds(tab) == {fd \in Fds : tab[fd] = Nil}

CanOpen(cache, path) == path \in DOMAIN cache \/ FreeFds(table) # {}

Cached(cache, path) ==
    IF path \in DOMAIN cache THEN cache ELSE Put(cache, path, Min(FreeFds(table)))

Open(cache, path) ==
    table' = IF path \in DOMAIN cache
             THEN table ELSE [table EXCEPT ![Min(FreeFds(table))] = [path |-> path, opener |-> pid]]

-----------------------------------------------------------------------------
\* The DAQ is still writing.
Grow ==
    /\ gen < MaxGen
    /\ gen' = gen + 1
    /\ UNCHANGED <<pid, table, handle, objs, datasets, lost>>

\* build_index(rebuild=True): the old index goes with its last reference.
Rebuild ==
    /\ Objects \ DOMAIN objs # {}
    /\ index' = NewObject
    /\ datasets' = datasets
    /\ Collect(Put(objs, NewObject, [gen |-> gen, fds |-> <<>>]), table)
    /\ UNCHANGED <<gen, pid, env, configs, lost>>

\* Run.read_event
ReadEvent ==
    /\ CanBuild
    /\ LET cache == BuiltObjs[Built].fds
       IN /\ CanOpen(cache, DataPath)
          /\ objs' = [BuiltObjs EXCEPT ![Built].fds = Cached(cache, DataPath)]
          /\ Open(cache, DataPath)
    /\ index' = Built
    /\ UNCHANGED <<gen, pid, env, configs, datasets, lost>>

\* Run.epics, Run.scan
ReadEnv ==
    /\ env # Nil \/ CanBuild
    /\ LET store == IF env = Nil THEN [gen |-> BuiltGen, fds |-> <<>>] ELSE env
       IN /\ CanOpen(store.fds, EnvPath)
          /\ env' = [store EXCEPT !.fds = Cached(@, EnvPath)]
          /\ Open(store.fds, EnvPath)
    /\ IF env = Nil THEN index' = Built /\ objs' = BuiltObjs ELSE UNCHANGED <<index, objs>>
    /\ UNCHANGED <<gen, pid, configs, datasets, lost>>

\* Run._seg_config_steps.  The base is read from the files as they are, the
\* BeginSteps at the places that the index was built with; the descriptor they
\* are read with is closed at once.
SegConfigSteps ==
    /\ configs = Nil /\ CanBuild /\ FreeFds(table) # {}
    /\ configs' = [base |-> gen, places |-> BuiltGen]
    /\ index' = Built /\ objs' = BuiltObjs
    /\ UNCHANGED <<gen, pid, table, env, datasets, lost>>

EnvCache == IF env = Nil THEN <<>> ELSE env.fds

\* RunIndex.close empties the cache, whoever else uses the index.
IndexCleared == [objs EXCEPT ![index].fds = <<>>]

\* Run.close: the environment store and the index; the step configurations
\* stay.  A Run that has no index has no environment store.
Close ==
    /\ index # Nil
    /\ index' = Nil /\ env' = Nil
    /\ datasets' = datasets
    /\ Collect(IndexCleared, Shut(table, Range(EnvCache) \cup Range(objs[index].fds)))
    /\ UNCHANGED <<gen, pid, configs, lost>>

-----------------------------------------------------------------------------
Own(cache) == \A fd \in Range(cache) : table[fd] # Nil /\ table[fd].opener = pid

\* XTCDataset.__init__
MakeDataset ==
    /\ CanBuild /\ Len(datasets) < MaxDatasets
    /\ datasets' = Append(datasets,
           [obj |-> Built, pid |-> pid, clean |-> Own(BuiltObjs[Built].fds)])
    /\ index' = Built /\ objs' = BuiltObjs
    /\ UNCHANGED <<gen, pid, table, env, configs, lost>>

\* Fault: no pid guard.
Unguarded(d) == objs[d.obj].fds

\* _ensure_fork_safe_fds: in another process the cache is dropped, not closed.
ForkSafe(d) == IF d.pid = pid THEN objs[d.obj].fds ELSE <<>>

\* XTCDataset.__getitem__
GetItem(i) ==
    LET d == datasets[i]
        cache == ForkSafe(d)
    IN /\ CanOpen(cache, DataPath)
       /\ datasets' = [datasets EXCEPT ![i].pid = pid]
       /\ objs' = [objs EXCEPT ![d.obj].fds = Cached(cache, DataPath)]
       /\ Open(cache, DataPath)
       /\ lost' = (lost \/ \E fd \in Range(objs[d.obj].fds) \ Range(cache) : table[fd].opener = pid)
       /\ UNCHANGED <<gen, pid, handle>>

DropDataset(i) ==
    /\ datasets' = SubSeq(datasets, 1, i - 1) \o SubSeq(datasets, i + 1, Len(datasets))
    /\ index' = index
    /\ Collect(objs, table)
    /\ UNCHANGED <<gen, pid, env, configs, lost>>

-----------------------------------------------------------------------------
\* A forked worker begins with a copy of the objects and of the table.
Fork ==
    /\ pid < MaxPid
    /\ pid' = pid + 1
    /\ UNCHANGED <<gen, table, handle, objs, datasets, lost>>

\* Fault: the descriptor cache is part of the pickle.
WholeState(obj) == obj

\* RunIndex.__getstate__, __setstate__: an index arrives with an empty cache.
PersistState(obj) == [obj EXCEPT !.fds = <<>>]

\* A spawned worker begins with an empty table.
Spawn ==
    /\ pid < MaxPid
    /\ pid' = pid + 1
    /\ table' = [fd \in Fds |-> Nil]
    /\ lost' = FALSE

\* It is sent a dataset; the pid the dataset was made in goes along.
ShipDataset(i) ==
    /\ Spawn
    /\ index' = Nil /\ env' = Nil /\ configs' = Nil
    /\ objs' = Put(<<>>, datasets[i].obj, PersistState(objs[datasets[i].obj]))
    /\ datasets' = <<datasets[i]>>
    /\ UNCHANGED gen

\* A Run is pickled attribute by attribute: its index by __getstate__, its
\* environment store with the descriptors it keeps.
ShipRun ==
    /\ EnvCache # <<>> => ShipsReadEnv
    /\ Spawn
    /\ objs' = IF index = Nil THEN <<>> ELSE Put(<<>>, index, PersistState(objs[index]))
    /\ datasets' = <<>>
    /\ UNCHANGED <<gen, handle>>

Next ==
    \/ Grow
    \/ Rebuild \/ ReadEvent \/ ReadEnv \/ SegConfigSteps \/ Close
    \/ MakeDataset
    \/ \E i \in DOMAIN datasets : GetItem(i) \/ DropDataset(i) \/ ShipDataset(i)
    \/ Fork \/ ShipRun

Spec == Init /\ [][Next]_vars

-----------------------------------------------------------------------------
Names(cache) ==
    \A path \in DOMAIN cache : table[cache[path]] # Nil /\ table[cache[path]].path = path

\* A number kept by an environment store is, in its process, an open
\* descriptor of the file it is kept for (envstore.py: "never persisted").
EnvDescriptorsNameTheirFile == Names(EnvCache)

\* Whatever is built, closed, dropped, forked or sent, in any order, a number
\* kept by an index or an environment store is, in its process, an open
\* descriptor of the file it is kept for: no read meets a closed number or,
\* worse, one that was given to another file meanwhile.
DescriptorsNameTheirFile ==
    EnvDescriptorsNameTheirFile /\ \A o \in DOMAIN objs : Names(objs[o].fds)

\* Once a dataset has read in a worker, its index keeps descriptors the
\* worker opened, never its parent's.  (A dataset made in the worker over an
\* index it inherited warm is not protected: its pid is the worker's.)
OwnDescriptors ==
    \A i \in DOMAIN datasets :
        datasets[i].pid = pid /\ datasets[i].clean => Own(objs[datasets[i].obj].fds)

\* No descriptor is lost: what a process opened and did not close is in a
\* cache that Run.close or the collector empties, so a worker over many runs
\* stays within its limit.  The one way to lose it is the guard of a dataset
\* whose index the worker has already read by the Run or another dataset: it
\* takes those descriptors for the parent's.
NothingLost ==
    ~lost => \A fd \in Fds :
        table[fd] # Nil /\ table[fd].opener = pid =>
            fd \in Range(EnvCache) \cup UNION {Range(objs[o].fds) : o \in DOMAIN objs}

\* What read_event serves, epics, scan and seg_configs know: for an event of the
\* Run's index, the value "as of" the event (run.py:438) and "the most recent
\* ``BeginStep`` override at/before the event" (run.py:539) are among the records
\* they look in, so those were read no earlier than the index.
CachesCoverTheIndex ==
    index # Nil =>
        /\ env # Nil => env.gen >= objs[index].gen
        /\ configs # Nil => Min({configs.base, configs.places}) >= objs[index].gen
=============================================================================
