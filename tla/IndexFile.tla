------------------------------ MODULE IndexFile ------------------------------
(***************************************************************************)
(* The persisted index: a builder scans the run's files, fingerprints them *)
(* and saves the index over the previous one in place; a loader reads the  *)
(* container back, resolves the files' place, verifies the fingerprints    *)
(* and then reads dgrams through cached file descriptors, while other      *)
(* people rewrite, replace, remove and copy the data files.                *)
(*                                                                         *)
(* A file is a sequence of dgrams of one unit each, so its size is its     *)
(* length and the i-th dgram lies at offset i.  The index keeps, for each  *)
(* file, the state in which the scan read it (offsets and timestamps come  *)
(* from there) and the state in which it was stat'd (its fingerprint is    *)
(* that state's size and mtime).                                           *)
(***************************************************************************)
EXTENDS Naturals, FiniteSets, Sequences

CONSTANTS
    Files,       \* names of the data files, relative to the build root
    Bodies,      \* what a data file may hold: sequences of dgrams
    FirstBody,   \* what every file holds when the run begins
    UnderRoot,   \* the places that lie below the build root, itself included
    MaxChanges,  \* bound on the changes made to data files
    MaxBuilds    \* bound on the index builds

Places == {"root", "beside"}    \* the build root, and the saved index's directory
NoDir == "none"                 \* load(dir=None)
Stores == {"index", "env"}      \* the owners of descriptor caches

Dgram == [ts : Nat, data : Nat, env : BOOLEAN]

ASSUME BodiesAreDgrams == Bodies \subseteq Seq(Dgram) /\ FirstBody \in Bodies
ASSUME RootIsUnderRoot == "root" \in UnderRoot /\ UnderRoot \subseteq Places
ASSUME BoundsAreNumbers == MaxChanges \in Nat /\ MaxBuilds \in Nat

Absent == [absent |-> TRUE]
Partial == [partial |-> TRUE]       \* a container region not (fully) written

\* A file as it lies at a path: what it holds, its mtime, and since when it
\* lies there (`since' is the model's own clock, no code reads it).
File == [body : Bodies, mtime : 0 .. MaxChanges, since : 0 .. MaxChanges]

Index == [scanned : [Files -> File], stated : [Files -> File \cup {Absent}]]

VARIABLES
    fs,         \* the file at each place and name
    now,        \* number of changes made to data files
    builder,    \* what the build has got to: its step and the index so far
    builds,     \* number of builds begun
    container,  \* the index file: header and payload
    reader,     \* what the load has got to: its step, arguments and result
    loaded,     \* the index the loader holds
    fds         \* the descriptors open in the index and in the env store

fileVars == <<fs, now, builder, builds, container, reader, loaded, fds>>

\* An open descriptor sees the file at its path until that is unlinked, then
\* the unlinked file.
Closed == [closed |-> TRUE]
Open == [open |-> TRUE]
Fd == {Closed, Open} \cup File

TypeOK ==
    /\ fs \in [Places -> [Files -> File \cup {Absent}]]
    /\ now \in 0 .. MaxChanges
    /\ builder.step \in {"idle", "scan", "save", "head", "payload"}
    /\ builder.scanned \in [Files -> File \cup {Absent}]
    /\ builder.stated \in [Files -> File \cup {Absent}]
    /\ builds \in 0 .. MaxBuilds
    /\ container.head \in Index \cup {Partial, Absent}
    /\ container.payload \in Index \cup {Partial, Absent}
    /\ reader.step \in {"closed", "payload", "resolve", "verify", "loaded", "refused"}
    /\ reader.dir \in Places \cup {NoDir}
    /\ reader.base \in Places
    /\ reader.verify \in BOOLEAN
    /\ reader.at \in 0 .. MaxChanges
    /\ loaded \in Index \cup {Absent}
    /\ reader.step \in {"resolve", "verify", "loaded"} => loaded \in Index
    /\ fds \in [Stores -> [Files -> Fd]]

FirstFile == [body |-> FirstBody, mtime |-> 0, since |-> 0]
NoFiles == [f \in Files |-> Absent]
NoReader == [step |-> "closed", dir |-> NoDir, base |-> "root", verify |-> TRUE, at |-> 0]
NoFds == [c \in Stores |-> [f \in Files |-> Closed]]

FileInit ==
    /\ fs = [p \in Places |-> [f \in Files |-> IF p = "root" THEN FirstFile ELSE Absent]]
    /\ now = 0
    /\ builder = [step |-> "idle", scanned |-> NoFiles, stated |-> NoFiles]
    /\ builds = 0
    /\ container = [head |-> Absent, payload |-> Absent]
    /\ reader = NoReader
    /\ loaded = Absent
    /\ fds = NoFds

-----------------------------------------------------------------------------
(* The data files.  Every write stamps a new mtime; only a copy of the same  *)
(* bytes may carry an old one.  Unlinking or renaming over a path leaves an  *)
(* open descriptor on the old file; a write in place is seen through it.     *)

Change ==
    /\ now < MaxChanges
    /\ now' = now + 1
    /\ UNCHANGED <<builder, builds, container, reader, loaded>>

Unlink(p) ==
    fds' = [c \in Stores |-> [f \in Files |->
              IF fds[c][f] = Open /\ reader.base = p /\ fs'[p][f] # fs[p][f]
              THEN fs[p][f] ELSE fds[c][f]]]

RewriteInPlace(p, f, body) ==
    /\ Change
    /\ fs[p][f] # Absent
    /\ fs' = [fs EXCEPT ![p][f] = [body |-> body, mtime |-> now + 1, since |-> now + 1]]
    /\ UNCHANGED fds

Replace(p, f, body) ==
    /\ Change
    /\ fs' = [fs EXCEPT ![p][f] = [body |-> body, mtime |-> now + 1, since |-> now + 1]]
    /\ Unlink(p)

RemoveFile(p, f) ==
    /\ Change
    /\ fs[p][f] # Absent
    /\ fs' = [fs EXCEPT ![p][f] = Absent]
    /\ Unlink(p)

\* The files of one place copied to the other (cp, or cp -p).
Relocate(p, q, keepsMtime) ==
    /\ Change
    /\ p # q
    /\ \A f \in Files : fs[p][f] # Absent
    /\ fs' = [fs EXCEPT ![q] = [f \in Files |-> [fs[p][f] EXCEPT
                 !.mtime = IF keepsMtime THEN @ ELSE now + 1, !.since = now + 1]]]
    /\ Unlink(q)

-----------------------------------------------------------------------------
(* build_index(...).save(path): scan file by file, stat the files, write.   *)

StopsBuilding == builder' = [step |-> "idle", scanned |-> NoFiles, stated |-> NoFiles]

StartBuild ==
    /\ builder.step = "idle"
    /\ builds < MaxBuilds
    /\ builds' = builds + 1
    /\ builder' = [builder EXCEPT !.step = "scan"]
    /\ UNCHANGED <<fs, now, container, reader, loaded, fds>>

Scan(f) ==
    /\ builder.step = "scan"
    /\ builder.scanned[f] = Absent
    /\ IF fs["root"][f] = Absent
       THEN StopsBuilding
       ELSE builder' = [builder EXCEPT !.scanned[f] = fs["root"][f]]
    /\ UNCHANGED <<fs, now, builds, container, reader, loaded, fds>>

\* A file that is gone by now keeps no fingerprint.
RecordFileFingerprints ==
    /\ builder.step = "scan"
    /\ \A f \in Files : builder.scanned[f] # Absent
    /\ builder' = [builder EXCEPT !.step = "save", !.stated = fs["root"]]
    /\ UNCHANGED <<fs, now, builds, container, reader, loaded, fds>>

Draft == [scanned |-> builder.scanned, stated |-> builder.stated]

\* open(path, "wb") empties the previous index before a byte is written.
SaveTruncates ==
    /\ builder.step = "save"
    /\ builder' = [builder EXCEPT !.step = "head"]
    /\ container' = [head |-> Partial, payload |-> Partial]
    /\ UNCHANGED <<fs, now, builds, reader, loaded, fds>>

SaveHeader ==
    /\ builder.step = "head"
    /\ builder' = [builder EXCEPT !.step = "payload"]
    /\ container' = [container EXCEPT !.head = Draft]
    /\ UNCHANGED <<fs, now, builds, reader, loaded, fds>>

SavePayload ==
    /\ builder.step = "payload"
    /\ StopsBuilding
    /\ container' = [container EXCEPT !.payload = Draft]
    /\ UNCHANGED <<fs, now, builds, reader, loaded, fds>>

BuilderCrashes ==
    /\ builder.step # "idle"
    /\ StopsBuilding
    /\ UNCHANGED <<fs, now, builds, container, reader, loaded, fds>>

Build ==
    \/ StartBuild
    \/ \E f \in Files : Scan(f)
    \/ RecordFileFingerprints
    \/ SaveTruncates
    \/ SaveHeader
    \/ SavePayload
    \/ BuilderCrashes

-----------------------------------------------------------------------------
(* RunIndex.load(path, dir, verify_files).                                  *)

Refuse ==
    /\ reader' = [NoReader EXCEPT !.step = "refused"]
    /\ loaded' = Absent

\* The header carries the length and the digest of the payload it was written
\* with: it is taken for that index until the payload has been compared.
LoadHeader(dir, verify) ==
    /\ reader.step \in {"closed", "refused", "loaded"}
    /\ IF container.head \in {Partial, Absent}
       THEN Refuse
       ELSE /\ loaded' = container.head
            /\ reader' = [NoReader EXCEPT !.step = "payload", !.dir = dir, !.verify = verify]
    /\ fds' = NoFds
    /\ UNCHANGED <<fs, now, builder, builds, container>>

\* Fault: the payload is decoded without comparing length and digest.
LoadPayloadUnchecked ==
    /\ reader.step = "payload"
    /\ reader' = [reader EXCEPT !.step = "resolve"]
    /\ loaded' = container.payload
    /\ UNCHANGED <<fs, now, builder, builds, container, fds>>

LoadPayload ==
    /\ reader.step = "payload"
    /\ IF container.payload = loaded
       THEN reader' = [reader EXCEPT !.step = "resolve"] /\ loaded' = container.payload
       ELSE Refuse
    /\ UNCHANGED <<fs, now, builder, builds, container, fds>>

HoldsAll(p) == \A f \in Files : fs[p][f] # Absent

\* An explicit directory, else the build root, else the index's own directory,
\* else the build root although it lacks files.
Resolved ==
    CASE reader.dir # NoDir -> reader.dir
      [] reader.dir = NoDir /\ ~HoldsAll("root") /\ HoldsAll("beside") -> "beside"
      [] OTHER -> "root"

IndexResolvePaths ==
    /\ reader.step = "resolve"
    /\ IF reader.dir # NoDir /\ ~HoldsAll(reader.dir)
       THEN Refuse
       ELSE reader' = [reader EXCEPT !.step = "verify", !.base = Resolved] /\ UNCHANGED loaded
    /\ UNCHANGED <<fs, now, builder, builds, container, fds>>

Fingerprinted == {f \in Files : loaded.stated[f] # Absent}

\* Fault: files found beside the index count as in place.
OffBuildRootByDirOnly == reader.dir # NoDir

ResolvedOffBuildRoot ==
    \/ reader.dir # NoDir
    \/ Fingerprinted # {} /\ reader.base \notin UnderRoot

\* Fault: the size alone.
StatSize(file) == <<Len(file.body), 0>>

StatFingerprint(file) == <<Len(file.body), file.mtime>>

\* The comparison of one file that both fingerprints are there for.
Differs(f) ==
    LET recorded == StatFingerprint(loaded.stated[f])
        current == StatFingerprint(fs[reader.base][f])
    IN IF ResolvedOffBuildRoot THEN current[1] # recorded[1] ELSE current # recorded

VerifyFileFingerprints ==
    /\ reader.step = "verify"
    /\ IF reader.verify /\ \E f \in Fingerprinted : fs[reader.base][f] # Absent /\ Differs(f)
       THEN Refuse
       ELSE reader' = [reader EXCEPT !.step = "loaded", !.at = now] /\ UNCHANGED loaded
    /\ UNCHANGED <<fs, now, builder, builds, container, fds>>

-----------------------------------------------------------------------------
(* Reads through the descriptor caches.  What a read gives is a function of *)
(* the state; its only lasting effect is the descriptor it leaves open.     *)

OpenFd(c, f) ==
    /\ reader.step = "loaded"
    /\ fds[c][f] = Closed
    /\ fs[reader.base][f] # Absent
    /\ fds' = [fds EXCEPT ![c][f] = Open]
    /\ UNCHANGED <<fs, now, builder, builds, container, reader, loaded>>

\* Pickling or to_dict / from_dict: the copy opens its own descriptors and
\* verifies nothing.
Ship ==
    /\ reader.step = "loaded"
    /\ fds' = NoFds
    /\ UNCHANGED <<fs, now, builder, builds, container, reader, loaded>>

\* The file a read of f through cache c sees.
Seen(c, f) == IF fds[c][f] \in {Closed, Open} THEN fs[reader.base][f] ELSE fds[c][f]

Raises == [raises |-> TRUE]

ReadAt(c, f, i) ==
    IF Seen(c, f) # Absent /\ i <= Len(Seen(c, f).body) THEN Seen(c, f).body[i] ELSE Raises

\* _assemble_stream_dgram compares the timestamp with the indexed one.
ReadEvent(f, i) ==
    LET raw == ReadAt("index", f, i)
    IN IF raw # Raises /\ raw.ts = loaded.scanned[f].body[i].ts THEN raw ELSE Raises

\* EnvStore._read_dgram hands on what lies at the recorded offset.
ReadEnv(f, i) == ReadAt("env", f, i)

Read(f, i) == IF loaded.scanned[f].body[i].env THEN ReadEnv(f, i) ELSE ReadEvent(f, i)

Load ==
    \/ \E dir \in Places \cup {NoDir}, verify \in BOOLEAN : LoadHeader(dir, verify)
    \/ LoadPayload
    \/ IndexResolvePaths
    \/ VerifyFileFingerprints
    \/ \E c \in Stores, f \in Files : OpenFd(c, f)
    \/ Ship

Others ==
    \/ \E p \in Places, f \in Files, body \in Bodies : RewriteInPlace(p, f, body)
    \/ \E p \in Places, f \in Files, body \in Bodies : Replace(p, f, body)
    \/ \E p \in Places, f \in Files : RemoveFile(p, f)
    \/ \E p, q \in Places, keepsMtime \in BOOLEAN : Relocate(p, q, keepsMtime)

FileNext == Build \/ Load \/ Others

FileSpec == FileInit /\ [][FileNext]_fileVars

-----------------------------------------------------------------------------
(* What a loaded index promises.                                            *)

\* The indexed dgrams of a file.
Indexed(f) == DOMAIN loaded.scanned[f].body

\* The moments at which a change of f cannot be noticed: the load verified
\* nothing, or had only sizes to go by; f changed between the scan and the
\* stat, or was not there to be stat'd; or it changed (or came back) after
\* the load had verified it.
Unnoticeable(f, c) ==
    \/ ~reader.verify
    \/ ResolvedOffBuildRoot
    \/ loaded.stated[f] # loaded.scanned[f]
    \/ Seen(c, f).since > reader.at

\* Soundness of the fingerprints: outside of those moments, whatever is read
\* through a loaded index is the very dgram the build scanned, whichever files
\* were rewritten, replaced, removed or copied in between, and whatever
\* descriptors were left open; and an event is never served from a dgram of
\* another timestamp, not even then.
ServesWhatWasScanned ==
    reader.step = "loaded" =>
        \A f \in Files : \A i \in Indexed(f) :
            LET dgram == loaded.scanned[f].body[i]
                c == IF dgram.env THEN "env" ELSE "index"
            IN Read(f, i) # Raises =>
                   /\ Read(f, i) = dgram \/ Unnoticeable(f, c)
                   /\ dgram.env \/ Read(f, i).ts = dgram.ts

\* A file that is there and is not what was stat'd: at the build root, it was
\* written, replaced or copied over since; at another place that counts as in
\* place, its bytes or its mtime differ; off the build root, its bytes do,
\* whatever its mtime.
Changed(f) ==
    LET found == fs[reader.base][f]
        stated == loaded.stated[f]
    IN  /\ found # Absent
        /\ IF reader.dir # NoDir \/ reader.base \notin UnderRoot
           THEN found.body # stated.body
           ELSE IF reader.base = "root"
           THEN found.since > stated.since
           ELSE found.body # stated.body \/ found.mtime # stated.mtime

\* A verification refuses only on a change.  A plain copy to a place off the
\* build root never makes a load refuse, nor does a file at the build root that
\* nobody wrote to since its stat, whatever was built or loaded in between.
RefusesOnlyChanges ==
    [][ VerifyFileFingerprints /\ reader'.step = "refused" =>
          \E f \in Fingerprinted : Changed(f) ]_fileVars

\* "a byte-identical relocated copy is not falsely invalidated" (index.py:731):
\* whatever place other than the build root the files are found at, a refusal
\* means that the bytes of one have changed.
NeverFalselyInvalidated ==
    [][ VerifyFileFingerprints /\ reader'.step = "refused"
        /\ (reader.dir # NoDir \/ reader.base # "root") =>
          \E f \in Fingerprinted :
             fs[reader.base][f] # Absent /\ fs[reader.base][f].body # loaded.stated[f].body
      ]_fileVars
=============================================================================
