---------------------------- MODULE StoreProofs ----------------------------
(***************************************************************************)
(* What is proved of the stores on disk: the saved index and the           *)
(* environment store.                                                      *)
(*                                                                         *)
(* The index (IndexFile).  The fingerprints are sound, for any files,      *)
(* bodies and number of changes and builds: what is read through a loaded  *)
(* index is what the build scanned, outside of the moments at which a      *)
(* change cannot be noticed.  Nothing here compares bodies: the argument   *)
(* is that a time stamp tells them.  Of all that is known of one file, on  *)
(* disk, in an index half built, saved or loaded, or behind an open        *)
(* descriptor, two states with one mtime hold the same bytes.  The load    *)
(* compares the mtime of what is in place; what is seen later with a       *)
(* `since' no later than the load is what it compared.                     *)
(*                                                                         *)
(* The environment store (EnvAsOf, StepConfig).  For any store, run, event *)
(* and search depth, a lookup of a slow variable answers what feeding the  *)
(* records in order would, or raises where a stream's own table lacks the  *)
(* variable, and the configuration looked up for an event is               *)
(* the one last written before it.  A lookup is followed backwards from    *)
(* the records that hold the variable, which the replay forwards leaves    *)
(* off at the newest of; a configuration is described by the dgram of the  *)
(* segment's own stream that wrote it last, in the front or in a step.     *)
(***************************************************************************)
EXTENDS IndexFile, StepConfig, TLAPS, FiniteSetTheorems

-----------------------------------------------------------------------------
(* The saved index                                                         *)


BuildSteps == {"idle", "scan", "save", "head", "payload"}
LoadSteps == {"closed", "payload", "resolve", "verify", "loaded", "refused"}
Builders == [step : BuildSteps, scanned : [Files -> File \cup {Absent}],
             stated : [Files -> File \cup {Absent}]]
Regions == Index \cup {Partial, Absent}
Readers == [step : LoadSteps, dir : Places \cup {NoDir}, base : Places, verify : BOOLEAN,
            at : 0 .. MaxChanges]

Types ==
    /\ fs \in [Places -> [Files -> File \cup {Absent}]]
    /\ now \in 0 .. MaxChanges /\ builds \in 0 .. MaxBuilds
    /\ builder \in Builders
    /\ builder.step \in {"save", "head", "payload"} => builder.scanned \in [Files -> File]
    /\ container \in [head : Regions, payload : Regions]
    /\ reader \in Readers /\ reader.at <= now
    /\ loaded \in Index \cup {Absent}
    /\ reader.step \in {"payload", "resolve", "verify", "loaded"} => loaded \in Index
    /\ fds \in [Stores -> [Files -> Fd]]

\* Descriptors are opened by a loaded index, on files that are there.
Descriptors ==
    /\ reader.step # "loaded" => fds = NoFds
    /\ \A c \in Stores, f \in Files : fds[c][f] = Open => fs[reader.base][f] # Absent

\* The indexes that are whole: saved, or in memory.
Indexes == {container.head, container.payload, loaded} \cap Index

\* The states of f that were stat'd for an index.
Stats(f) == ({builder.stated[f]} \cup {x.stated[f] : x \in Indexes}) \cap File

\* All the states of f that are known anywhere.
Known(f) ==
    Stats(f) \cup (({fs[pl][f] : pl \in Places} \cup {fds[c][f] : c \in Stores}
                       \cup {builder.scanned[f]} \cup {x.scanned[f] : x \in Indexes}) \cap File)

\* One mtime, one content.
StampsTell ==
    \A f \in Files : \A x, y \in Known(f) :
        x.mtime <= now /\ x.since <= now /\ (x.mtime = y.mtime => x.body = y.body)

\* What was stat'd lay at the build root: it lies there still, or what lies
\* there came later.
RootMovesOn ==
    \A f \in Files : \A x \in Stats(f) :
        fs["root"][f] # Absent => x = fs["root"][f] \/ x.since < fs["root"][f].since

\* What the load compared: the files at the base and those behind open
\* descriptors, as far as they were there then, have the mtime stat'd.
Compared ==
    reader.step = "loaded" /\ reader.verify /\ ~ResolvedOffBuildRoot =>
        \A f \in Fingerprinted :
            \A x \in ({fs[reader.base][f]} \cup {fds[c][f] : c \in Stores}) \cap File :
                x.since <= reader.at => x.mtime = loaded.stated[f].mtime

IInv == Types /\ Descriptors /\ StampsTell /\ RootMovesOn /\ Compared

-----------------------------------------------------------------------------
(* Types.                                                                  *)

LEMMA Distinct ==
    /\ Absent \notin File /\ Closed \notin File /\ Open \notin File
    /\ Absent \notin Index /\ Partial \notin Index
    /\ Open # Closed /\ Absent # Open /\ Absent # Closed
BY DEF Absent, Closed, Open, Partial, File, Index

LEMMA TypesInit == FileInit => Types /\ Descriptors
<1> SUFFICES ASSUME FileInit
             PROVE  Types /\ Descriptors
    OBVIOUS
<1>1. FirstFile \in File /\ 0 \in 0 .. MaxChanges /\ 0 \in 0 .. MaxBuilds
    BY BodiesAreDgrams, BoundsAreNumbers DEF FirstFile, File
<1>2. Types
    BY <1>1 DEF FileInit, Types, Builders, BuildSteps, NoFiles, Regions, Readers, LoadSteps, NoReader, NoFds,
       Fd, NoDir, Places, Stores
<1>3. Descriptors
    BY Distinct DEF FileInit, Descriptors, NoReader, NoFds
<1>4. QED
    BY <1>2, <1>3

\* A new file, in type.
LEMMA NewFile ==
    ASSUME Types, Change, NEW body \in Bodies, NEW mtime \in 0 .. now + 1
    PROVE  /\ [body |-> body, mtime |-> mtime, since |-> now + 1] \in File
           /\ now' \in 0 .. MaxChanges /\ now' = now + 1 /\ now \in Nat
BY BoundsAreNumbers DEF Types, Change, File

\* What a change does: at one place each file stays, goes, or is fresh; a
\* descriptor stays, or keeps the file that was unlinked.
Fresh(x, z) ==
    z.since = now + 1 /\ (z.mtime = now + 1 \/ (x # Absent /\ z.mtime = x.mtime /\ z.body = x.body))

ChangesAt(pl) ==
    /\ \A q \in Places \ {pl} : fs'[q] = fs[q]
    /\ \A f \in Files :
           \/ fs'[pl][f] = fs[pl][f] \/ fs'[pl][f] = Absent
           \/ \E q \in Places : fs'[pl][f] \in File /\ Fresh(fs[q][f], fs'[pl][f])
    /\ \A c \in Stores, f \in Files :
           \/ fds'[c][f] = fds[c][f]
                /\ (fds[c][f] = Open /\ reader.base = pl => fs'[pl][f] = fs[pl][f] \/ fs'[pl][f] # Absent)
           \/ fds'[c][f] = fs[pl][f] /\ fds[c][f] = Open /\ reader.base = pl

LEMMA UnlinkKeeps ==
    ASSUME Types, Descriptors, NEW pl \in Places, Unlink(pl)
    PROVE  /\ fds' \in [Stores -> [Files -> Fd]]
           /\ \A c \in Stores, f \in Files :
                 \/ fds'[c][f] = fds[c][f]
                      /\ (fds[c][f] = Open /\ reader.base = pl => fs'[pl][f] = fs[pl][f])
                 \/ fds'[c][f] = fs[pl][f] /\ fds[c][f] = Open /\ reader.base = pl
<1>1. fs \in [Places -> [Files -> File \cup {Absent}]] /\ fds \in [Stores -> [Files -> Fd]]
    BY DEF Types
<1>2. \A c \in Stores, f \in Files :
          fds'[c][f] = IF fds[c][f] = Open /\ reader.base = pl /\ fs'[pl][f] # fs[pl][f]
                       THEN fs[pl][f] ELSE fds[c][f]
    BY DEF Unlink
<1>3. \A c \in Stores, f \in Files : fds'[c][f] \in Fd
    <2> SUFFICES ASSUME NEW c \in Stores, NEW f \in Files
                 PROVE  fds'[c][f] \in Fd
        OBVIOUS
    <2>1. CASE fds[c][f] = Open /\ reader.base = pl
        <3>1. fs[pl][f] \in File
            BY <1>1, <2>1 DEF Descriptors
        <3>2. QED
            BY <1>1, <1>2, <3>1 DEF Fd
    <2>2. CASE ~(fds[c][f] = Open /\ reader.base = pl)
        BY <1>1, <1>2, <2>2
    <2>3. QED
        BY <2>1, <2>2
<1>4. fds' \in [Stores -> [Files -> Fd]]
    BY <1>3 DEF Unlink
<1>5. QED
    BY <1>2, <1>4

LEMMA OthersStep ==
    ASSUME Types, Descriptors, Others
    PROVE  /\ Change /\ Types'
           /\ \E pl \in Places : ChangesAt(pl)
<1>1. /\ fs \in [Places -> [Files -> File \cup {Absent}]] /\ fds \in [Stores -> [Files -> Fd]]
      /\ now \in Nat
    BY BoundsAreNumbers DEF Types
<1>2. ASSUME Change, fs' \in [Places -> [Files -> File \cup {Absent}]], fds' \in [Stores -> [Files -> Fd]]
      PROVE  Types'
    BY <1>2, BoundsAreNumbers DEF Change, Types, Readers
<1>3. ASSUME NEW pl \in Places, NEW f \in Files, NEW body \in Bodies,
             RewriteInPlace(pl, f, body) \/ Replace(pl, f, body)
      PROVE  Change /\ Types' /\ ChangesAt(pl)
    <2>1. PICK z : z = [body |-> body, mtime |-> now + 1, since |-> now + 1]
        OBVIOUS
    <2>2. Change /\ fs' = [fs EXCEPT ![pl][f] = z]
        BY <1>3, <2>1 DEF RewriteInPlace, Replace
    <2>3. z \in File /\ z.since = now + 1 /\ z.mtime = now + 1
        BY <1>1, <2>1, <2>2, NewFile
    <2>4. /\ fs' \in [Places -> [Files -> File \cup {Absent}]] /\ fs'[pl][f] = z
          /\ \A q \in Places \ {pl} : fs'[q] = fs[q]
          /\ \A g \in Files \ {f} : fs'[pl][g] = fs[pl][g]
        BY <1>1, <2>2, <2>3
    <2>5. \A g \in Files : fs'[pl][g] = fs[pl][g] \/ (fs'[pl][g] = z /\ fs'[pl][g] # Absent)
        BY <2>3, <2>4, Distinct
    <2>6. fds' \in [Stores -> [Files -> Fd]]
          /\ \A c \in Stores, g \in Files :
                \/ fds'[c][g] = fds[c][g]
                \/ fds'[c][g] = fs[pl][g] /\ fds[c][g] = Open /\ reader.base = pl
        BY <1>1, <1>3, UnlinkKeeps DEF RewriteInPlace, Replace
    <2>7. ChangesAt(pl)
        BY <2>3, <2>4, <2>5, <2>6 DEF ChangesAt, Fresh
    <2>8. QED
        BY <1>2, <2>2, <2>4, <2>6, <2>7
<1>4. ASSUME NEW pl \in Places, NEW f \in Files, RemoveFile(pl, f)
      PROVE  Change /\ Types' /\ ChangesAt(pl)
    <2>1. Change /\ fs' = [fs EXCEPT ![pl][f] = Absent] /\ Unlink(pl)
        BY <1>4 DEF RemoveFile
    <2>2. /\ fs' \in [Places -> [Files -> File \cup {Absent}]] /\ fs'[pl][f] = Absent
          /\ \A q \in Places \ {pl} : fs'[q] = fs[q]
          /\ \A g \in Files \ {f} : fs'[pl][g] = fs[pl][g]
        BY <1>1, <2>1
    <2>3. /\ fds' \in [Stores -> [Files -> Fd]]
          /\ \A c \in Stores, g \in Files :
                \/ fds'[c][g] = fds[c][g]
                     /\ (fds[c][g] = Open /\ reader.base = pl => fs'[pl][g] = fs[pl][g])
                \/ fds'[c][g] = fs[pl][g] /\ fds[c][g] = Open /\ reader.base = pl
        BY <2>1, UnlinkKeeps
    <2>4. ChangesAt(pl)
        BY <2>2, <2>3 DEF ChangesAt
    <2>5. QED
        BY <1>2, <2>1, <2>2, <2>3, <2>4
<1>5. ASSUME NEW q \in Places, NEW pl \in Places, NEW keepsMtime \in BOOLEAN, Relocate(q, pl, keepsMtime)
      PROVE  Change /\ Types' /\ ChangesAt(pl)
    <2>1. PICK z : z = [f \in Files |-> [fs[q][f] EXCEPT
                          !.mtime = IF keepsMtime THEN @ ELSE now + 1, !.since = now + 1]]
        OBVIOUS
    <2>2. Change /\ (\A f \in Files : fs[q][f] # Absent) /\ fs' = [fs EXCEPT ![pl] = z] /\ Unlink(pl)
        BY <1>5, <2>1 DEF Relocate
    <2>3. \A f \in Files : z[f] \in File /\ Fresh(fs[q][f], z[f])
        <3> SUFFICES ASSUME NEW f \in Files
                     PROVE  z[f] \in File /\ Fresh(fs[q][f], z[f])
            OBVIOUS
        <3>1. fs[q][f] \in File
            BY <1>1, <2>2
        <3>2. PICK x \in File : x = fs[q][f]
            BY <3>1
        <3>3. PICK m : m = IF keepsMtime THEN x.mtime ELSE now + 1
            OBVIOUS
        <3>4. now < MaxChanges
            BY <2>2 DEF Change
        <3>5. x = [body |-> x.body, mtime |-> x.mtime, since |-> x.since]
              /\ x.body \in Bodies /\ x.mtime \in 0 .. MaxChanges
            BY <3>2 DEF File
        <3>6. z[f] = [body |-> x.body, mtime |-> m, since |-> now + 1]
            BY <2>1, <3>2, <3>3, <3>5
        <3>7. z[f] \in File
            BY <1>1, <3>3, <3>4, <3>5, <3>6, BoundsAreNumbers DEF File
        <3>8. x # Absent
            BY <3>2, Distinct
        <3>9. QED
            BY <3>2, <3>3, <3>6, <3>7, <3>8 DEF Fresh
    <2>4. z \in [Files -> File]
        BY <2>1, <2>3
    <2>5. /\ fs' \in [Places -> [Files -> File \cup {Absent}]] /\ fs'[pl] = z
          /\ \A r \in Places \ {pl} : fs'[r] = fs[r]
        BY <1>1, <2>2, <2>4
    <2>6. /\ fds' \in [Stores -> [Files -> Fd]]
          /\ \A c \in Stores, g \in Files :
                \/ fds'[c][g] = fds[c][g]
                     /\ (fds[c][g] = Open /\ reader.base = pl => fs'[pl][g] = fs[pl][g])
                \/ fds'[c][g] = fs[pl][g] /\ fds[c][g] = Open /\ reader.base = pl
        BY <2>2, UnlinkKeeps
    <2>7. ChangesAt(pl)
        BY <2>3, <2>5, <2>6 DEF ChangesAt
    <2>8. QED
        BY <1>2, <2>2, <2>5, <2>6, <2>7
<1>6. QED
    BY <1>3, <1>4, <1>5 DEF Others

\* A step of the build or of the load leaves the files alone; an open
\* descriptor is opened, or all are forgotten.
LEMMA BuildTypes ==
    ASSUME Types, Build
    PROVE  Types' /\ UNCHANGED <<fs, now, reader, loaded, fds>>
<1>1. /\ builder \in Builders /\ builds \in 0 .. MaxBuilds /\ MaxBuilds \in Nat
      /\ builder.scanned \in [Files -> File \cup {Absent}]
      /\ builder.stated \in [Files -> File \cup {Absent}]
      /\ builder = [step |-> builder.step, scanned |-> builder.scanned, stated |-> builder.stated]
      /\ fs["root"] \in [Files -> File \cup {Absent}]
      /\ container \in [head : Regions, payload : Regions]
      /\ container = [head |-> container.head, payload |-> container.payload]
    BY BoundsAreNumbers DEF Types, Builders, Places
<1>2. ASSUME UNCHANGED <<fs, now, reader, loaded, fds>>, builds' \in 0 .. MaxBuilds,
             builder' \in Builders,
             builder'.step \in {"save", "head", "payload"} => builder'.scanned \in [Files -> File],
             container' \in [head : Regions, payload : Regions]
      PROVE  Types'
    BY <1>2 DEF Types
<1>3. ASSUME StopsBuilding
      PROVE  builder' \in Builders /\ builder'.step = "idle"
    BY <1>3 DEF StopsBuilding, Builders, BuildSteps, NoFiles
<1>4. CASE StartBuild
    BY <1>1, <1>2, <1>4 DEF StartBuild, Builders, BuildSteps
<1>5. ASSUME NEW f \in Files, Scan(f)
      PROVE  Types' /\ UNCHANGED <<fs, now, reader, loaded, fds>>
    <2>1. UNCHANGED <<fs, now, builds, container, reader, loaded, fds>>
        BY <1>5 DEF Scan
    <2>2. CASE fs["root"][f] = Absent
        BY <1>1, <1>2, <1>3, <1>5, <2>1, <2>2 DEF Scan
    <2>3. CASE fs["root"][f] # Absent
        <3>1. builder' = [builder EXCEPT !.scanned[f] = fs["root"][f]] /\ builder.step = "scan"
            BY <1>5, <2>3 DEF Scan
        <3>2. [builder.scanned EXCEPT ![f] = fs["root"][f]] \in [Files -> File \cup {Absent}]
            BY <1>1
        <3>3. builder' = [step |-> "scan", scanned |-> [builder.scanned EXCEPT ![f] = fs["root"][f]],
                          stated |-> builder.stated]
            BY <1>1, <3>1
        <3>4. builder' \in Builders /\ builder'.step = "scan"
            BY <1>1, <3>2, <3>3 DEF Builders, BuildSteps
        <3>5. QED
            BY <1>1, <1>2, <2>1, <3>4
    <2>4. QED
        BY <2>2, <2>3
<1>6. CASE RecordFileFingerprints
    <2>1. builder' = [step |-> "save", scanned |-> builder.scanned, stated |-> fs["root"]]
        BY <1>1, <1>6 DEF RecordFileFingerprints
    <2>2. builder' \in Builders /\ builder'.scanned = builder.scanned
        BY <1>1, <2>1 DEF Builders, BuildSteps
    <2>3. builder.scanned \in [Files -> File]
        BY <1>1, <1>6 DEF RecordFileFingerprints
    <2>4. QED
        BY <1>1, <1>2, <1>6, <2>2, <2>3 DEF RecordFileFingerprints
<1>7. ASSUME builder.step \in {"save", "head", "payload"}
      PROVE  Draft \in Index
    BY <1>1, <1>7 DEF Types, Draft, Index
<1>8. CASE SaveTruncates
    <2>1. builder' = [step |-> "head", scanned |-> builder.scanned, stated |-> builder.stated]
        BY <1>1, <1>8 DEF SaveTruncates
    <2>2. builder' \in Builders /\ builder'.scanned \in [Files -> File]
        BY <1>1, <1>8, <2>1 DEF SaveTruncates, Types, Builders, BuildSteps
    <2>3. QED
        BY <1>1, <1>2, <1>8, <2>2 DEF SaveTruncates, Regions
<1>9. CASE SaveHeader
    <2>1. builder' = [step |-> "payload", scanned |-> builder.scanned, stated |-> builder.stated]
          /\ container' = [head |-> Draft, payload |-> container.payload]
        BY <1>1, <1>9 DEF SaveHeader
    <2>2. builder' \in Builders /\ builder'.scanned \in [Files -> File]
        BY <1>1, <1>9, <2>1 DEF SaveHeader, Types, Builders, BuildSteps
    <2>3. container' \in [head : Regions, payload : Regions]
        BY <1>1, <1>7, <1>9, <2>1 DEF SaveHeader, Regions
    <2>4. QED
        BY <1>1, <1>2, <1>9, <2>2, <2>3 DEF SaveHeader
<1>10. CASE SavePayload
    <2>1. container' = [head |-> container.head, payload |-> Draft]
        BY <1>1, <1>10 DEF SavePayload
    <2>2. container' \in [head : Regions, payload : Regions]
        BY <1>1, <1>7, <1>10, <2>1 DEF SavePayload, Regions
    <2>3. QED
        BY <1>1, <1>2, <1>3, <1>10, <2>2 DEF SavePayload
<1>11. CASE BuilderCrashes
    BY <1>1, <1>2, <1>3, <1>11 DEF BuilderCrashes
<1>12. QED
    BY <1>4, <1>5, <1>6, <1>8, <1>9, <1>10, <1>11
       DEF Build, StartBuild, RecordFileFingerprints, SaveTruncates, SaveHeader, SavePayload, BuilderCrashes

LEMMA LoadTypes ==
    ASSUME Types, Descriptors, Load
    PROVE  /\ Types' /\ Descriptors' /\ UNCHANGED <<fs, now, builder, builds, container>>
           /\ loaded' \in {loaded, container.head, Absent}
           /\ \A c \in Stores, f \in Files : fds'[c][f] \in {Open, Closed, fds[c][f]}
<1>1. /\ reader \in Readers /\ NoReader \in Readers /\ NoFds \in [Stores -> [Files -> Fd]]
      /\ reader = [step |-> reader.step, dir |-> reader.dir, base |-> reader.base,
                   verify |-> reader.verify, at |-> reader.at]
      /\ container.head \in Regions /\ now \in Nat /\ 0 \in 0 .. MaxChanges
      /\ fds \in [Stores -> [Files -> Fd]]
    BY BoundsAreNumbers DEF Types, NoReader, Readers, LoadSteps, NoFds, Fd, Places
<1>2. ASSUME UNCHANGED <<fs, now, builder, builds, container>>, reader' \in Readers, reader'.at <= now,
             loaded' \in Index \cup {Absent},
             reader'.step \in {"payload", "resolve", "verify", "loaded"} => loaded' \in Index,
             fds' \in [Stores -> [Files -> Fd]]
      PROVE  Types'
    BY <1>2 DEF Types
<1>3. \A c \in Stores, f \in Files : NoFds[c][f] = Closed
    BY DEF NoFds
<1>4. ASSUME fds' = NoFds
      PROVE  Descriptors' /\ \A c \in Stores, f \in Files : fds'[c][f] \in {Open, Closed, fds[c][f]}
    BY <1>3, <1>4, Distinct DEF Descriptors
<1>5. ASSUME reader.step # "loaded"
      PROVE  fds = NoFds
    BY <1>5 DEF Descriptors
<1>6. ASSUME Refuse
      PROVE  /\ reader' \in Readers /\ reader'.step = "refused" /\ reader'.at = 0 /\ 0 <= now
             /\ loaded' = Absent
    <2>1. reader' = [step |-> "refused", dir |-> NoDir, base |-> "root", verify |-> TRUE, at |-> 0]
        BY <1>6 DEF Refuse, NoReader
    <2>2. QED
        BY <1>1, <1>6, <2>1 DEF Refuse, Readers, LoadSteps, Places
<1>7. ASSUME NEW dir \in Places \cup {NoDir}, NEW verify \in BOOLEAN, LoadHeader(dir, verify)
      PROVE  /\ Types' /\ Descriptors' /\ UNCHANGED <<fs, now, builder, builds, container>>
             /\ loaded' \in {loaded, container.head, Absent}
             /\ \A c \in Stores, f \in Files : fds'[c][f] \in {Open, Closed, fds[c][f]}
    <2>1. UNCHANGED <<fs, now, builder, builds, container>> /\ fds' = NoFds
        BY <1>7 DEF LoadHeader
    <2>2. CASE container.head \in {Partial, Absent}
        BY <1>1, <1>2, <1>4, <1>6, <1>7, <2>1, <2>2 DEF LoadHeader
    <2>3. CASE container.head \notin {Partial, Absent}
        <3>1. loaded' = container.head /\ container.head \in Index
            BY <1>1, <1>7, <2>3 DEF LoadHeader, Regions
        <3>2. reader' = [step |-> "payload", dir |-> dir, base |-> "root", verify |-> verify, at |-> 0]
            BY <1>7, <2>3 DEF LoadHeader, NoReader
        <3>3. reader' \in Readers /\ reader'.at <= now
            BY <1>1, <3>2 DEF Readers, LoadSteps, Places
        <3>4. QED
            BY <1>1, <1>2, <1>4, <2>1, <3>1, <3>3
    <2>4. QED
        BY <2>2, <2>3
<1>8. CASE LoadPayload \/ IndexResolvePaths \/ VerifyFileFingerprints
    <2>1. /\ UNCHANGED <<fs, now, builder, builds, container, fds>> /\ fds = NoFds
          /\ reader.step \in {"payload", "resolve", "verify"} /\ loaded \in Index
        BY <1>5, <1>8 DEF LoadPayload, IndexResolvePaths, VerifyFileFingerprints, Types
    <2>2. CASE Refuse
        BY <1>1, <1>2, <1>4, <1>6, <2>1, <2>2
    <2>3. CASE ~Refuse
        <3>1. loaded' = loaded
            BY <1>8, <2>3 DEF LoadPayload, IndexResolvePaths, VerifyFileFingerprints
        <3>2. reader' \in Readers /\ reader'.at <= now
            <4>1. CASE reader' = [reader EXCEPT !.step = "resolve"]
                BY <1>1, <4>1 DEF Readers, LoadSteps, Types
            <4>2. CASE reader' = [reader EXCEPT !.step = "verify", !.base = Resolved]
                <5>1. reader.dir # NoDir => reader.dir \in Places
                    BY <1>1 DEF Readers
                <5>2. Resolved \in Places
                    BY <5>1 DEF Resolved, Places
                <5>3. reader' = [step |-> "verify", dir |-> reader.dir, base |-> Resolved,
                                 verify |-> reader.verify, at |-> reader.at]
                    BY <1>1, <4>2
                <5>4. QED
                    BY <1>1, <5>2, <5>3 DEF Readers, LoadSteps, Types
            <4>3. CASE reader' = [reader EXCEPT !.step = "loaded", !.at = now]
                <5>1. reader' = [step |-> "loaded", dir |-> reader.dir, base |-> reader.base,
                                 verify |-> reader.verify, at |-> now]
                    BY <1>1, <4>3
                <5>2. QED
                    BY <1>1, <5>1 DEF Readers, LoadSteps, Types
            <4>4. QED
                BY <1>8, <2>3, <4>1, <4>2, <4>3 DEF LoadPayload, IndexResolvePaths, VerifyFileFingerprints
        <3>3. QED
            BY <1>1, <1>2, <1>4, <2>1, <3>1, <3>2
    <2>4. QED
        BY <2>2, <2>3
<1>9. ASSUME NEW c \in Stores, NEW f \in Files, OpenFd(c, f)
      PROVE  /\ Types' /\ Descriptors' /\ UNCHANGED <<fs, now, builder, builds, container>>
             /\ loaded' \in {loaded, container.head, Absent}
             /\ \A d \in Stores, g \in Files : fds'[d][g] \in {Open, Closed, fds[d][g]}
    <2>1. /\ UNCHANGED <<fs, now, builder, builds, container, reader, loaded>>
          /\ fds' = [fds EXCEPT ![c][f] = Open] /\ fs[reader.base][f] # Absent /\ reader.step = "loaded"
        BY <1>9 DEF OpenFd
    <2>2. fds' \in [Stores -> [Files -> Fd]]
        BY <1>1, <2>1 DEF Fd
    <2>3. \A d \in Stores, g \in Files : fds'[d][g] = IF d = c /\ g = f THEN Open ELSE fds[d][g]
        BY <1>1, <2>1
    <2>4. Types'
        BY <2>1, <2>2 DEF Types
    <2>5. Descriptors'
        BY <2>1, <2>3 DEF Descriptors
    <2>6. QED
        BY <2>1, <2>3, <2>4, <2>5
<1>10. CASE Ship
    <2>1. UNCHANGED <<fs, now, builder, builds, container, reader, loaded>> /\ fds' = NoFds
        BY <1>10 DEF Ship
    <2>2. Types'
        BY <1>1, <2>1 DEF Types
    <2>3. QED
        BY <1>4, <2>1, <2>2
<1>11. QED
    BY <1>7, <1>8, <1>9, <1>10 DEF Load

-----------------------------------------------------------------------------
(* What time stamps tell.                                                  *)

\* Nothing new becomes known; what is stat'd lies at the build root.
LEMMA NothingNew ==
    ASSUME StampsTell, RootMovesOn, UNCHANGED <<fs, now>>,
           \A f \in Files : Known(f)' \subseteq Known(f),
           \A f \in Files : Stats(f)' \subseteq Stats(f) \cup {fs["root"][f]}
    PROVE  StampsTell' /\ RootMovesOn'
<1>1. StampsTell'
    BY DEF StampsTell
<1>2. RootMovesOn'
    BY DEF RootMovesOn
<1>3. QED
    BY <1>1, <1>2

\* The members of the sets of states.
LEMMA StatsAre ==
    ASSUME NEW f
    PROVE  /\ \A x : x \in Stats(f) <=>
                  x \in File /\ (x = builder.stated[f] \/ \E i \in Indexes : x = i.stated[f])
           /\ \A x : x \in Known(f) <=>
                  x \in File /\ (\/ x \in Stats(f)
                                 \/ \E pl \in Places : x = fs[pl][f]
                                 \/ \E c \in Stores : x = fds[c][f]
                                 \/ x = builder.scanned[f]
                                 \/ \E i \in Indexes : x = i.scanned[f])
BY DEF Stats, Known

\* The build learns what lies at the build root, and saves what it learnt.
LEMMA BuildLearns ==
    ASSUME Types, Build
    PROVE  /\ \A f \in Files :
                 /\ builder'.scanned[f] \in {builder.scanned[f], fs["root"][f], Absent}
                 /\ builder'.stated[f] \in {builder.stated[f], fs["root"][f], Absent}
           /\ {container'.head, container'.payload}
                 \subseteq {container.head, container.payload, Partial, Draft}
<1>1. /\ builder.scanned \in [Files -> File \cup {Absent}]
      /\ builder = [step |-> builder.step, scanned |-> builder.scanned, stated |-> builder.stated]
      /\ container = [head |-> container.head, payload |-> container.payload]
    BY DEF Types, Builders
<1>2. ASSUME StopsBuilding, NEW f \in Files
      PROVE  builder'.scanned[f] = Absent /\ builder'.stated[f] = Absent
    BY <1>2 DEF StopsBuilding, NoFiles
<1>3. CASE StartBuild
    <2>1. builder' = [step |-> "scan", scanned |-> builder.scanned, stated |-> builder.stated]
        BY <1>1, <1>3 DEF StartBuild
    <2>2. QED
        BY <1>3, <2>1 DEF StartBuild
<1>4. ASSUME NEW g \in Files, Scan(g)
      PROVE  /\ \A f \in Files :
                   /\ builder'.scanned[f] \in {builder.scanned[f], fs["root"][f], Absent}
                   /\ builder'.stated[f] \in {builder.stated[f], fs["root"][f], Absent}
             /\ container' = container
    <2>1. CASE StopsBuilding
        BY <1>2, <1>4, <2>1 DEF Scan
    <2>2. CASE builder' = [builder EXCEPT !.scanned[g] = fs["root"][g]]
        <3>1. builder' = [step |-> builder.step, scanned |-> [builder.scanned EXCEPT ![g] = fs["root"][g]],
                          stated |-> builder.stated]
            BY <1>1, <2>2
        <3>2. \A f \in Files : [builder.scanned EXCEPT ![g] = fs["root"][g]][f] \in {builder.scanned[f], fs["root"][f]}
            BY <1>1
        <3>3. QED
            BY <1>4, <3>1, <3>2 DEF Scan
    <2>3. QED
        BY <1>4, <2>1, <2>2 DEF Scan
<1>5. CASE RecordFileFingerprints
    <2>1. builder' = [step |-> "save", scanned |-> builder.scanned, stated |-> fs["root"]]
        BY <1>1, <1>5 DEF RecordFileFingerprints
    <2>2. QED
        BY <1>5, <2>1 DEF RecordFileFingerprints
<1>6. CASE SaveTruncates
    <2>1. builder' = [step |-> "head", scanned |-> builder.scanned, stated |-> builder.stated]
          /\ container' = [head |-> Partial, payload |-> Partial]
        BY <1>1, <1>6 DEF SaveTruncates
    <2>2. QED
        BY <2>1
<1>7. CASE SaveHeader
    <2>1. builder' = [step |-> "payload", scanned |-> builder.scanned, stated |-> builder.stated]
          /\ container' = [head |-> Draft, payload |-> container.payload]
        BY <1>1, <1>7 DEF SaveHeader
    <2>2. QED
        BY <2>1
<1>8. CASE SavePayload
    <2>1. StopsBuilding /\ container' = [head |-> container.head, payload |-> Draft]
        BY <1>1, <1>8 DEF SavePayload
    <2>2. QED
        BY <1>2, <2>1
<1>9. CASE BuilderCrashes
    BY <1>2, <1>9 DEF BuilderCrashes
<1>10. QED
    BY <1>3, <1>4, <1>5, <1>6, <1>7, <1>8, <1>9 DEF Build

LEMMA BuildStamps ==
    ASSUME Types, StampsTell, RootMovesOn, Build
    PROVE  StampsTell' /\ RootMovesOn'
<1>1. UNCHANGED <<fs, now, reader, loaded, fds>> /\ Places = {"root", "beside"}
    BY BuildTypes DEF Places
<1>2. \A i \in Indexes' : i \in Indexes \/ i = Draft
    BY BuildLearns, <1>1, Distinct DEF Indexes
<1>3. ASSUME NEW f \in Files
      PROVE  Known(f)' \subseteq Known(f) /\ Stats(f)' \subseteq Stats(f) \cup {fs["root"][f]}
    <2>1. Draft.scanned[f] = builder.scanned[f] /\ Draft.stated[f] = builder.stated[f]
        BY DEF Draft
    <2>2. /\ builder'.scanned[f] \in {builder.scanned[f], fs["root"][f], Absent}
          /\ builder'.stated[f] \in {builder.stated[f], fs["root"][f], Absent}
        BY BuildLearns
    <2>3. Stats(f)' \subseteq Stats(f) \cup ({fs["root"][f]} \cap File)
        BY <1>2, <2>1, <2>2, Distinct DEF Stats
    <2>4. \A x \in Known(f)' :
              x \in File /\ (\/ x \in Stats(f)' \/ (\E pl \in Places : x = fs[pl][f])
                             \/ (\E c \in Stores : x = fds[c][f])
                             \/ x = builder'.scanned[f] \/ \E i \in Indexes' : x = i.scanned[f])
        BY <1>1 DEF Known, Stats
    <2>5. \A x : x \in Known(f) <=>
              x \in File /\ (\/ x \in Stats(f) \/ (\E pl \in Places : x = fs[pl][f])
                             \/ (\E c \in Stores : x = fds[c][f])
                             \/ x = builder.scanned[f] \/ \E i \in Indexes : x = i.scanned[f])
        BY StatsAre
    <2>6. Known(f)' \subseteq Known(f)
        BY <1>1, <1>2, <2>1, <2>2, <2>3, <2>4, <2>5, Distinct
    <2>7. QED
        BY <2>3, <2>6
<1>4. QED
    BY <1>1, <1>3, NothingNew

LEMMA LoadStamps ==
    ASSUME Types, Descriptors, StampsTell, RootMovesOn, Load
    PROVE  StampsTell' /\ RootMovesOn'
<1>1. /\ UNCHANGED <<fs, now, builder, builds, container>> /\ loaded' \in {loaded, container.head, Absent}
      /\ \A c \in Stores, f \in Files : fds'[c][f] \in {Open, Closed, fds[c][f]}
    BY LoadTypes
<1>2. Indexes' \subseteq Indexes
    BY <1>1, Distinct DEF Indexes
<1>3. ASSUME NEW f \in Files
      PROVE  Known(f)' \subseteq Known(f) /\ Stats(f)' \subseteq Stats(f)
    <2>1. Stats(f)' \subseteq Stats(f)
        BY <1>1, <1>2 DEF Stats
    <2>2. Known(f)' \subseteq Known(f)
        BY <1>1, <1>2, <2>1, Distinct DEF Known
    <2>3. QED
        BY <2>1, <2>2
<1>4. QED
    BY <1>1, <1>3, NothingNew

LEMMA ChangeStamps ==
    ASSUME Types, Descriptors, StampsTell, RootMovesOn, Others
    PROVE  StampsTell' /\ RootMovesOn'
<1>1. PICK pl \in Places : ChangesAt(pl)
    BY OthersStep
<1>2. UNCHANGED <<builder, container, loaded>> /\ now' = now + 1 /\ now \in Nat
    BY OthersStep, BoundsAreNumbers DEF Change, Types
<1>3. Indexes' = Indexes /\ \A f \in Files : Stats(f)' = Stats(f)
    BY <1>2 DEF Indexes, Stats
<1>4. \A x \in File : x.mtime \in Nat /\ x.since \in Nat
    BY BoundsAreNumbers DEF File
<1>5. \A f \in Files : \A q \in Places : fs[q][f] \in File => fs[q][f] \in Known(f)
    BY StatsAre
<1>6. fs \in [Places -> [Files -> File \cup {Absent}]]
    BY DEF Types
<1>7. ASSUME NEW f \in Files, NEW z \in Known(f)', z \notin Known(f)
      PROVE  z = fs'[pl][f] /\ \E q \in Places : Fresh(fs[q][f], z) /\ (fs[q][f] # Absent => fs[q][f] \in Known(f))
    <2>1. z \in File /\ (\/ z \in Stats(f) \/ (\E q \in Places : z = fs'[q][f])
                         \/ (\E c \in Stores : z = fds'[c][f])
                         \/ z = builder.scanned[f] \/ \E i \in Indexes : z = i.scanned[f])
        BY <1>2, <1>3, <1>7 DEF Known
    <2>2. \E q \in Places : z = fs'[q][f]
        <3>1. \A c \in Stores : fds'[c][f] = fds[c][f] \/ fds'[c][f] = fs[pl][f]
            BY <1>1 DEF ChangesAt
        <3>2. QED
            BY <1>7, <2>1, <3>1, StatsAre
    <2>3. z = fs'[pl][f] /\ fs'[pl][f] # fs[pl][f]
        BY <1>1, <1>5, <1>7, <2>1, <2>2 DEF ChangesAt
    <2>4. QED
        BY <1>1, <1>5, <1>6, <2>1, <2>3, Distinct DEF ChangesAt
<1>8. StampsTell'
    <2> SUFFICES ASSUME NEW f \in Files, NEW x \in Known(f)', NEW y \in Known(f)'
                 PROVE  x.mtime <= now + 1 /\ x.since <= now + 1 /\ (x.mtime = y.mtime => x.body = y.body)
        BY <1>2 DEF StampsTell
    <2>1. Known(f) \subseteq File
        BY StatsAre
    <2>2. \A v, w \in Known(f) :
              /\ v.mtime \in Nat /\ v.since \in Nat /\ v.mtime <= now /\ v.since <= now
              /\ v.mtime = w.mtime => v.body = w.body
        BY <1>4, <2>1 DEF StampsTell
    <2>3. \A z \in {x, y} : z \notin Known(f) =>
              /\ z = fs'[pl][f] /\ z.since = now + 1
              /\ z.mtime = now + 1 \/ \E w \in Known(f) : z.mtime = w.mtime /\ z.body = w.body
        BY <1>7 DEF Fresh
    <2>4. QED
        BY <1>2, <2>2, <2>3
<1>9. RootMovesOn'
    <2> SUFFICES ASSUME NEW f \in Files, NEW x \in Stats(f), fs'["root"][f] # Absent
                 PROVE  x = fs'["root"][f] \/ x.since < fs'["root"][f].since
        BY <1>3 DEF RootMovesOn
    <2>1. "root" \in Places /\ x \in Known(f)
        BY StatsAre DEF Places
    <2>2. x.since \in Nat /\ x.since <= now
        BY <1>4, <2>1, StatsAre DEF StampsTell
    <2>3. CASE fs'["root"][f] = fs["root"][f]
        BY <2>3 DEF RootMovesOn
    <2>4. CASE fs'["root"][f] # fs["root"][f]
        <3>1. fs'["root"][f].since = now + 1
            BY <1>1, <2>1, <2>4 DEF ChangesAt, Fresh
        <3>2. QED
            BY <1>2, <2>2, <3>1
    <2>5. QED
        BY <2>3, <2>4
<1>10. QED
    BY <1>8, <1>9

-----------------------------------------------------------------------------
(* What the load compared.                                                 *)

\* The load compares the stamps of all that is in place.
LEMMA VerifyCompares ==
    ASSUME Types, Descriptors, VerifyFileFingerprints
    PROVE  Compared'
<1>1. /\ reader.step = "verify" /\ UNCHANGED <<fs, fds>> /\ fds = NoFds
      /\ reader = [step |-> reader.step, dir |-> reader.dir, base |-> reader.base,
                   verify |-> reader.verify, at |-> reader.at]
    BY DEF VerifyFileFingerprints, Types, Readers, Descriptors
<1>2. CASE Refuse
    <2>1. reader' = [step |-> "refused", dir |-> NoDir, base |-> "root", verify |-> TRUE, at |-> 0]
        BY <1>2 DEF Refuse, NoReader
    <2>2. QED
        BY <2>1 DEF Compared
<1>3. CASE ~Refuse
    <2>1. /\ ~(reader.verify /\ \E f \in Fingerprinted : fs[reader.base][f] # Absent /\ Differs(f))
          /\ reader' = [reader EXCEPT !.step = "loaded", !.at = now] /\ loaded' = loaded
        BY <1>3 DEF VerifyFileFingerprints
    <2>2. reader' = [step |-> "loaded", dir |-> reader.dir, base |-> reader.base,
                     verify |-> reader.verify, at |-> now]
        BY <1>1, <2>1
    <2>3. Fingerprinted' = Fingerprinted
        BY <2>1 DEF Fingerprinted
    <2>4. ResolvedOffBuildRoot' = ResolvedOffBuildRoot
        BY <2>2, <2>3 DEF ResolvedOffBuildRoot
    <2>5. ASSUME reader.verify, ~ResolvedOffBuildRoot, NEW f \in Fingerprinted,
                 NEW x \in ({fs[reader.base][f]} \cup {NoFds[c][f] : c \in Stores}) \cap File
          PROVE  x.mtime = loaded.stated[f].mtime
        <3>1. x = fs[reader.base][f] /\ x # Absent
            BY <2>5, Distinct DEF NoFds, Fingerprinted
        <3>2. ~Differs(f)
            BY <2>1, <2>5, <3>1
        <3>3. StatFingerprint(x) = StatFingerprint(loaded.stated[f])
            BY <2>5, <3>1, <3>2 DEF Differs
        <3>4. QED
            BY <3>3 DEF StatFingerprint
    <2>6. QED
        BY <1>1, <2>1, <2>2, <2>3, <2>4, <2>5 DEF Compared
<1>4. QED
    BY <1>2, <1>3

\* Nothing new is seen through a load that stays.
LEMMA NothingNewSeen ==
    ASSUME Compared, UNCHANGED <<reader, loaded>>,
           \A f \in Files : \A x \in ({fs'[reader.base][f]} \cup {fds'[c][f] : c \in Stores}) \cap File :
               \/ x \in {fs[reader.base][f]} \cup {fds[c][f] : c \in Stores}
               \/ ~(x.since <= reader.at)
    PROVE  Compared'
<1>1. Fingerprinted' = Fingerprinted /\ Fingerprinted \subseteq Files
    BY DEF Fingerprinted
<1>2. ResolvedOffBuildRoot' = ResolvedOffBuildRoot
    BY <1>1 DEF ResolvedOffBuildRoot
<1>3. QED
    BY <1>1, <1>2 DEF Compared

LEMMA ComparedNext ==
    ASSUME Types, Descriptors, Compared, FileNext
    PROVE  Compared'
<1>1. CASE Build
    BY <1>1, BuildTypes, NothingNewSeen
<1>2. CASE Load
    <2>1. CASE (\E dir \in Places \cup {NoDir}, verify \in BOOLEAN : LoadHeader(dir, verify))
                 \/ LoadPayload \/ IndexResolvePaths
        <3>1. reader' \in {[NoReader EXCEPT !.step = "refused"], [reader EXCEPT !.step = "resolve"],
                           [reader EXCEPT !.step = "verify", !.base = Resolved]}
                \/ \E dir \in Places \cup {NoDir}, verify \in BOOLEAN :
                      reader' = [NoReader EXCEPT !.step = "payload", !.dir = dir, !.verify = verify]
            BY <2>1 DEF LoadHeader, LoadPayload, IndexResolvePaths, Refuse
        <3>2. reader \in Readers /\ NoReader = [step |-> "closed", dir |-> NoDir, base |-> "root",
                                                verify |-> TRUE, at |-> 0]
            BY DEF Types, NoReader
        <3>3. reader'.step \in {"refused", "resolve", "verify", "payload"}
            BY <3>1, <3>2 DEF Readers
        <3>4. QED
            BY <3>3 DEF Compared
    <2>2. CASE VerifyFileFingerprints
        BY <2>2, VerifyCompares
    <2>3. CASE Ship \/ \E c \in Stores, f \in Files : OpenFd(c, f)
        <3>1. UNCHANGED <<fs, reader, loaded>>
            BY <2>3 DEF Ship, OpenFd
        <3>2. \A c \in Stores, f \in Files : fds'[c][f] \in {Open, Closed, fds[c][f]}
            BY <1>2, LoadTypes
        <3>3. QED
            BY <3>1, <3>2, Distinct, NothingNewSeen
    <2>4. QED
        BY <1>2, <2>1, <2>2, <2>3 DEF Load
<1>3. CASE Others
    <2>1. PICK pl \in Places : ChangesAt(pl)
        BY <1>3, OthersStep
    <2>2. UNCHANGED <<reader, loaded>> /\ now \in Nat /\ reader.at \in Nat /\ reader.at <= now
          /\ reader.base \in Places
        BY <1>3, OthersStep, BoundsAreNumbers DEF Change, Types, Readers
    <2>3. ASSUME NEW f \in Files
          PROVE  /\ \/ fs'[reader.base][f] = fs[reader.base][f] \/ fs'[reader.base][f] = Absent
                    \/ ~(fs'[reader.base][f].since <= reader.at)
                 /\ \A c \in Stores : fds'[c][f] \in {fds[c][f], fs[reader.base][f]}
        BY <2>1, <2>2 DEF ChangesAt, Fresh
    <2>4. QED
        BY <2>2, <2>3, Distinct, NothingNewSeen
<1>4. QED
    BY <1>1, <1>2, <1>3 DEF FileNext

-----------------------------------------------------------------------------
(* The inductive invariant and what it gives.                              *)

LEMMA InvInit == FileInit => IInv
<1> SUFFICES ASSUME FileInit
             PROVE  IInv
    OBVIOUS
<1>1. Types /\ Descriptors
    BY TypesInit
<1>2. FirstFile \in File /\ FirstFile.mtime = 0 /\ FirstFile.since = 0 /\ now = 0
    BY BodiesAreDgrams, BoundsAreNumbers DEF FirstFile, File, FileInit
<1>3. Indexes = {}
    BY Distinct DEF FileInit, Indexes
<1>4. \A f \in Files : Stats(f) = {} /\ Known(f) \subseteq {FirstFile}
    <2> SUFFICES ASSUME NEW f \in Files
                 PROVE  Stats(f) = {} /\ Known(f) \subseteq {FirstFile}
        OBVIOUS
    <2>1. builder.scanned[f] = Absent /\ builder.stated[f] = Absent
        BY DEF FileInit, NoFiles
    <2>2. /\ \A pl \in Places : fs[pl][f] \in {FirstFile, Absent}
          /\ \A c \in Stores : fds[c][f] = Closed
        BY DEF FileInit, NoFds
    <2>3. QED
        BY <1>3, <2>1, <2>2, Distinct DEF Stats, Known
<1>5. StampsTell /\ RootMovesOn
    BY <1>2, <1>4 DEF StampsTell, RootMovesOn
<1>6. Compared
    BY DEF FileInit, NoReader, Compared
<1>7. QED
    BY <1>1, <1>5, <1>6 DEF IInv

LEMMA OthersDescriptors ==
    ASSUME Types, Descriptors, Others
    PROVE  Descriptors'
<1>1. PICK pl \in Places : ChangesAt(pl)
    BY OthersStep
<1>2. UNCHANGED reader
    BY OthersStep DEF Change
<1>3. fs \in [Places -> [Files -> File \cup {Absent}]] /\ reader.base \in Places
    BY DEF Types, Readers
<1>4. ASSUME NEW c \in Stores, NEW f \in Files, fds'[c][f] = Open
      PROVE  fs'[reader.base][f] # Absent
    <2>1. fds'[c][f] = fds[c][f]
        BY <1>1, <1>3, <1>4, Distinct DEF ChangesAt
    <2>2. fs[reader.base][f] # Absent
        BY <1>4, <2>1 DEF Descriptors
    <2>3. CASE reader.base = pl
        <3>1. ~(fds'[c][f] = fs[pl][f])
            BY <1>3, <1>4, <2>2, <2>3, Distinct
        <3>2. QED
            BY <1>1, <1>4, <2>1, <2>2, <2>3, <3>1 DEF ChangesAt
    <2>4. CASE reader.base # pl
        BY <1>1, <1>3, <2>2, <2>4 DEF ChangesAt
    <2>5. QED
        BY <2>3, <2>4
<1>5. reader.step # "loaded" => fds' = NoFds
    <2> SUFFICES ASSUME reader.step # "loaded"
                 PROVE  fds' = NoFds
        OBVIOUS
    <2>1. fds = NoFds
        BY DEF Descriptors
    <2>2. \A c \in Stores, f \in Files : fds[c][f] = Closed
        BY <2>1 DEF NoFds
    <2>3. \A c \in Stores, f \in Files : fds'[c][f] = Closed
        BY <1>1, <2>2, Distinct DEF ChangesAt
    <2>4. fds' \in [Stores -> [Files -> Fd]]
        BY OthersStep DEF Types
    <2>5. QED
        BY <2>1, <2>3, <2>4 DEF NoFds
<1>6. QED
    BY <1>2, <1>4, <1>5 DEF Descriptors

LEMMA InvNext ==
    ASSUME IInv, [FileNext]_fileVars
    PROVE  IInv'
<1> USE DEF IInv
<1>1. CASE Build
    <2>1. Descriptors'
        BY <1>1, BuildTypes DEF Descriptors
    <2>2. QED
        BY <1>1, <2>1, BuildTypes, BuildStamps, ComparedNext DEF FileNext
<1>2. CASE Load
    BY <1>2, LoadTypes, LoadStamps, ComparedNext DEF FileNext
<1>3. CASE Others
    BY <1>3, OthersStep, OthersDescriptors, ChangeStamps, ComparedNext DEF FileNext
<1>4. CASE UNCHANGED fileVars
    <2>1. UNCHANGED <<fs, now, builder, builds, container, reader, loaded, fds>>
        BY <1>4 DEF fileVars
    <2>2. Types' /\ Descriptors'
        BY <2>1 DEF Types, Descriptors
    <2>3. \A f \in Files : Known(f)' = Known(f) /\ Stats(f)' = Stats(f)
        BY <2>1 DEF Known, Stats, Indexes
    <2>4. StampsTell' /\ RootMovesOn'
        BY <2>1, <2>3, NothingNew
    <2>5. Compared'
        BY <2>1, NothingNewSeen
    <2>6. QED
        BY <2>2, <2>4, <2>5
<1>5. QED
    BY <1>1, <1>2, <1>3, <1>4 DEF FileNext

\* The inductive invariant, for any files, bodies and bounds.
THEOREM Inductive == FileSpec => []IInv
BY InvInit, InvNext, PTL DEF FileSpec

\* The build, the container, the load and the descriptors keep their types,
\* and what is served is served from a whole index.
THEOREM TypeCorrect == FileSpec => []TypeOK
<1>1. IInv => TypeOK
    BY DEF IInv, Types, TypeOK, Builders, BuildSteps, Regions, Readers, LoadSteps
<1>2. QED
    BY <1>1, Inductive, PTL

LEMMA ServesFromInv ==
    ASSUME IInv
    PROVE  ServesWhatWasScanned
<1> SUFFICES ASSUME reader.step = "loaded", NEW f \in Files, NEW i \in Indexed(f), Read(f, i) # Raises
             PROVE  LET dgram == loaded.scanned[f].body[i]
                        c == IF dgram.env THEN "env" ELSE "index"
                    IN /\ Read(f, i) = dgram \/ Unnoticeable(f, c)
                       /\ dgram.env \/ Read(f, i).ts = dgram.ts
    BY DEF ServesWhatWasScanned
<1>1. PICK dgram, c : /\ dgram = loaded.scanned[f].body[i]
                      /\ c = IF dgram.env THEN "env" ELSE "index"
    OBVIOUS
<1>2. c \in Stores
    BY <1>1 DEF Stores
<1>3. dgram.env \/ Read(f, i).ts = dgram.ts
    BY <1>1 DEF Read, ReadEvent
<1>4. Read(f, i) = ReadAt(c, f, i)
    BY <1>1 DEF Read, ReadEvent, ReadEnv
<1>5. Seen(c, f) # Absent /\ Read(f, i) = Seen(c, f).body[i]
    BY <1>4 DEF ReadAt
<1>6. ASSUME ~Unnoticeable(f, c)
      PROVE  Read(f, i) = dgram
    <2>1. /\ reader.verify /\ ~ResolvedOffBuildRoot /\ loaded.stated[f] = loaded.scanned[f]
          /\ ~(Seen(c, f).since > reader.at)
        BY <1>6 DEF Unnoticeable
    <2>2. loaded \in Index /\ loaded \in Indexes /\ loaded.scanned[f] \in File
        BY DEF IInv, Types, Index, Indexes
    <2>3. f \in Fingerprinted
        BY <2>1, <2>2, Distinct DEF Fingerprinted
    <2>4. /\ reader.base \in Places /\ reader.at \in Nat
          /\ fs[reader.base][f] \in File \cup {Absent} /\ fds[c][f] \in Fd
        BY <1>2, BoundsAreNumbers DEF IInv, Types, Readers
    <2>5. Seen(c, f) \in {fs[reader.base][f], fds[c][f]} /\ Seen(c, f) \in File
        BY <1>5, <2>4 DEF Seen, Fd
    <2>6. Seen(c, f).since \in Nat
        BY <2>5, BoundsAreNumbers DEF File
    <2>7. Seen(c, f).since <= reader.at
        BY <2>1, <2>4, <2>6
    <2>8. Seen(c, f).mtime = loaded.scanned[f].mtime
        BY <1>2, <2>1, <2>3, <2>5, <2>7 DEF IInv, Compared
    <2>9. Seen(c, f) \in Known(f) /\ loaded.scanned[f] \in Known(f)
        BY <1>2, <2>2, <2>4, <2>5, StatsAre
    <2>10. Seen(c, f).body = loaded.scanned[f].body
        BY <2>8, <2>9 DEF IInv, StampsTell
    <2>11. QED
        BY <1>1, <1>5, <2>10
<1>7. QED
    BY <1>1, <1>3, <1>6

\* Through a loaded index, whatever is done to the files, to the container
\* and to the descriptors, and in whatever order: what is read is the dgram
\* the build scanned, or it changed at a moment nobody can notice; and never
\* does an event come from a dgram of another time.
THEOREM AlwaysServesWhatWasScanned == FileSpec => []ServesWhatWasScanned
BY Inductive, ServesFromInv, PTL

\* A load is refused for a change only, whatever places lie below the build
\* root: off it, of the bytes; at it, since the stat.
THEOREM RefusalsAreChanges == FileSpec => RefusesOnlyChanges
<1> DEFINE Justified ==
        VerifyFileFingerprints /\ reader'.step = "refused" => \E f \in Fingerprinted : Changed(f)
<1>1. IInv => Justified
    <2> SUFFICES ASSUME IInv, VerifyFileFingerprints, reader'.step = "refused"
                 PROVE  \E f \in Fingerprinted : Changed(f)
        OBVIOUS
    <2>1. reader \in Readers /\ loaded \in Index /\ loaded \in Indexes
          /\ fs \in [Places -> [Files -> File \cup {Absent}]]
        BY DEF IInv, Types, VerifyFileFingerprints, Indexes
    <2>2. ~(reader' = [reader EXCEPT !.step = "loaded", !.at = now])
        BY <2>1 DEF Readers
    <2>3. PICK f \in Fingerprinted : fs[reader.base][f] # Absent /\ Differs(f)
        BY <2>2 DEF VerifyFileFingerprints
    <2>4. f \in Files /\ loaded.stated[f] \in File /\ loaded.stated[f] \in Stats(f)
          /\ fs[reader.base][f] \in File /\ reader.base \in Places
        <3>1. f \in Files /\ loaded.stated[f] # Absent
            BY DEF Fingerprinted
        <3>2. loaded.stated[f] \in File
            BY <2>1, <3>1 DEF Index
        <3>3. QED
            BY <2>1, <2>3, <3>1, <3>2, StatsAre DEF Readers
    <2>5. CASE reader.dir # NoDir \/ reader.base \notin UnderRoot
        <3>1. ResolvedOffBuildRoot
            BY <2>5 DEF ResolvedOffBuildRoot
        <3>2. StatFingerprint(fs[reader.base][f])[1] # StatFingerprint(loaded.stated[f])[1]
            BY <2>3, <3>1 DEF Differs
        <3>3. fs[reader.base][f].body # loaded.stated[f].body
            BY <3>2 DEF StatFingerprint
        <3>4. QED
            BY <2>3, <2>5, <3>3 DEF Changed
    <2>6. CASE ~(reader.dir # NoDir \/ reader.base \notin UnderRoot)
        <3>1. ~ResolvedOffBuildRoot
            BY <2>6 DEF ResolvedOffBuildRoot
        <3>2. StatFingerprint(fs[reader.base][f]) # StatFingerprint(loaded.stated[f])
            BY <2>3, <3>1 DEF Differs
        <3>3. CASE reader.base = "root"
            <4>1. loaded.stated[f].since < fs["root"][f].since
                BY <2>3, <2>4, <3>2, <3>3 DEF IInv, RootMovesOn
            <4>2. fs["root"][f].since > loaded.stated[f].since
                BY <2>4, <3>3, <4>1, BoundsAreNumbers DEF File
            <4>3. QED
                BY <2>3, <2>6, <3>3, <4>2 DEF Changed
        <3>4. CASE reader.base # "root"
            <4>1. \/ fs[reader.base][f].body # loaded.stated[f].body
                  \/ fs[reader.base][f].mtime # loaded.stated[f].mtime
                BY <3>2 DEF StatFingerprint
            <4>2. QED
                BY <2>3, <2>6, <3>4, <4>1 DEF Changed
        <3>5. QED
            BY <3>3, <3>4
    <2>7. QED
        BY <2>5, <2>6
<1>2. QED
    BY <1>1, Inductive, PTL DEF RefusesOnlyChanges

-----------------------------------------------------------------------------
(* Lookups by timestamp                                                    *)

LEMMA LeastElement ==
  ASSUME NEW T, T \subseteq Nat, T # {}
  PROVE  \E x \in T : \A y \in T : x <= y
<1> DEFINE R == OpToRel(<, Nat)
<1>1. IsWellFoundedOn(R, Nat)
  BY NatLessThanWellFounded
<1>2. \A x, y \in Nat : x < y => <<x, y>> \in R
  BY DEF OpToRel
<1> HIDE DEF R
<1>3. PICK x \in T : \A y \in T : ~ (<<y, x>> \in R)
  BY <1>1, WFMin
<1>4. \A y \in T : x \in Nat /\ y \in Nat /\ ~ (y < x)
  BY <1>2, <1>3
<1>5. QED
  BY <1>4

\* The number of members below x.
Below(S, x) == Cardinality({y \in S : y < x})

LEMMA BelowCounts ==
  ASSUME NEW S, S \subseteq Int, IsFiniteSet(S)
  PROVE  /\ Cardinality(S) \in Nat
         /\ \A x \in S : Below(S, x) \in 0..Cardinality(S) - 1
         /\ \A x, y \in S : x < y => Below(S, x) < Below(S, y)
         /\ \A k \in 0..Cardinality(S) - 1 : \E x \in S : Below(S, x) = k
<1>1. PICK n : n = Cardinality(S)
  OBVIOUS
<1>2. n \in Nat
  BY <1>1, FS_CardinalityType
<1>3. ASSUME NEW x \in S
      PROVE  Below(S, x) \in 0..n - 1
  <2> DEFINE L == {y \in S : y < x}
  <2>1. L \in SUBSET S /\ x \notin L
    OBVIOUS
  <2>2. IsFiniteSet(L) /\ Cardinality(L) <= n /\ (n = Cardinality(L) => S = L)
    BY <1>1, <2>1, FS_Subset
  <2>3. Cardinality(L) \in Nat /\ Cardinality(L) # n
    BY <2>1, <2>2, FS_CardinalityType
  <2>4. QED
    BY <1>2, <2>2, <2>3 DEF Below
<1>4. ASSUME NEW x \in S, NEW y \in S, x < y
      PROVE  Below(S, x) < Below(S, y)
  <2> DEFINE L == {z \in S : z < x}
             M == {z \in S : z < y}
  <2>0. \A z \in S : z < x => z < y
    BY <1>4
  <2>a. L \subseteq M
    BY <2>0
  <2>b. x \in M /\ x \notin L
    BY <1>4
  <2>1. L \in SUBSET M /\ x \in M /\ x \notin L
    BY <2>a, <2>b
  <2>2. IsFiniteSet(M)
    BY FS_Subset, M \in SUBSET S
  <2>3. IsFiniteSet(L) /\ Cardinality(L) <= Cardinality(M) /\ (Cardinality(M) = Cardinality(L) => M = L)
    BY <2>1, <2>2, FS_Subset
  <2>4. Cardinality(L) \in Nat /\ Cardinality(M) \in Nat /\ Cardinality(L) # Cardinality(M)
    BY <2>1, <2>2, <2>3, FS_CardinalityType
  <2>5. QED
    BY <2>3, <2>4 DEF Below
<1>5. \A k \in 0..n - 1 : \E x \in S : Below(S, x) = k
  <2> DEFINE f == [x \in S |-> Below(S, x)]
  <2>1. f \in [S -> 0..n - 1]
    BY <1>3
  <2>2. ASSUME NEW x \in S, NEW y \in S, f[x] = f[y]
        PROVE  x = y
    <3>1. x < y \/ y < x \/ x = y
      OBVIOUS
    <3>2. Below(S, x) = Below(S, y) /\ Below(S, x) \in Int /\ Below(S, y) \in Int
      BY <1>2, <1>3, <2>2
    <3>3. QED
      BY <1>4, <3>1, <3>2
  <2>3. f \in Injection(S, 0..n - 1)
    BY <2>1, <2>2 DEF Injection, IsInjective
  <2>4. IsFiniteSet(0..n - 1) /\ Cardinality(0..n - 1) = IF 0 > n - 1 THEN 0 ELSE (n - 1) - 0 + 1
    BY <1>2, FS_Interval, n - 1 \in Int, 0 \in Int
  <2>5. Cardinality(0..n - 1) = n
    BY <1>2, <2>4
  <2>6. f \in Surjection(S, 0..n - 1)
    BY <1>1, <2>3, <2>4, <2>5, FS_Injection
  <2>7. \A k \in 0..n - 1 : \E x \in S : f[x] = k
    BY <2>6 DEF Surjection
  <2>8. QED
    BY <2>7
<1>6. QED
  BY <1>1, <1>2, <1>3, <1>4, <1>5

\* Ascending lists a finite set of integers in ascending order, each once.
LEMMA AscendingLists ==
  ASSUME NEW S, S \subseteq Int, IsFiniteSet(S)
  PROVE  /\ Len(Ascending(S)) = Cardinality(S) /\ Cardinality(S) \in Nat
         /\ DOMAIN Ascending(S) = 1..Cardinality(S)
         /\ Ascending(S) \in Seq(S)
         /\ \A k \in 1..Cardinality(S) : Ascending(S)[k] \in S
         /\ \A i, j \in 1..Cardinality(S) : i < j => Ascending(S)[i] < Ascending(S)[j]
         /\ \A x \in S : \E k \in 1..Cardinality(S) : Ascending(S)[k] = x
<1>1. PICK n : n = Cardinality(S)
  OBVIOUS
<1>2. PICK a : a = Ascending(S)
  OBVIOUS
<1>3. /\ n \in Nat
      /\ \A x \in S : Below(S, x) \in 0..n - 1
      /\ \A x, y \in S : x < y => Below(S, x) < Below(S, y)
      /\ \A k \in 0..n - 1 : \E x \in S : Below(S, x) = k
  BY <1>1, BelowCounts
<1>4. a = [k \in 1..n |-> CHOOSE x \in S : Below(S, x) = k - 1]
  BY <1>1, <1>2 DEF Ascending, Below
<1>5. \A k \in 1..n : a[k] \in S /\ Below(S, a[k]) = k - 1
  BY <1>3, <1>4
<1>6. a \in Seq(S) /\ Len(a) = n /\ DOMAIN a = 1..n
  <2>1. a \in [1..n -> S]
    BY <1>4, <1>5
  <2>2. QED
    BY <1>3, <2>1
<1>7. ASSUME NEW i \in 1..n, NEW j \in 1..n, i < j
      PROVE  a[i] < a[j]
  <2>1. a[i] \in Int /\ a[j] \in Int /\ a[i] \in S /\ a[j] \in S
    BY <1>5
  <2>2. Below(S, a[i]) = i - 1 /\ Below(S, a[j]) = j - 1
    BY <1>5
  <2>3. CASE a[j] < a[i]
    <3>1. Below(S, a[j]) < Below(S, a[i])
      BY <1>3, <2>1, <2>3
    <3>2. QED
      BY <1>7, <2>2, <3>1
  <2>4. CASE a[j] = a[i]
    BY <1>7, <2>2, <2>4
  <2>5. QED
    BY <2>1, <2>3, <2>4
<1>8. ASSUME NEW x \in S
      PROVE  \E k \in 1..n : a[k] = x
  <2>1. PICK b : b = Below(S, x)
    OBVIOUS
  <2>2. b \in 0..n - 1
    BY <1>3, <2>1
  <2>3. b + 1 \in 1..n /\ (b + 1) - 1 = b
    BY <1>3, <2>2
  <2>4. a[b + 1] \in S /\ Below(S, a[b + 1]) = b
    BY <1>5, <2>3
  <2>5. Below(S, x) = Below(S, a[b + 1]) /\ x \in Int /\ a[b + 1] \in Int
    BY <2>1, <2>4
  <2>6. Below(S, x) \in Int
    BY <1>3
  <2>7. x = a[b + 1]
    BY <1>3, <2>4, <2>5, <2>6
  <2>8. QED
    BY <2>3, <2>7
<1>9. QED
  BY <1>1, <1>2, <1>3, <1>5, <1>6, <1>7, <1>8

\* Induction over an interval: a set that holds its first number and with a
\* number the next one holds all of it.
LEMMA IntervalInduction ==
  ASSUME NEW n \in Nat, NEW T, 0 \in T, \A k \in 1..n : k - 1 \in T => k \in T
  PROVE  \A k \in 0..n : k \in T
<1> DEFINE Bad == {k \in 0..n : k \notin T}
<1>1. SUFFICES ASSUME Bad # {}
               PROVE  FALSE
  OBVIOUS
<1>2. Bad \subseteq Nat
  OBVIOUS
<1>3. PICK m \in Bad : \A y \in Bad : m <= y
  BY <1>1, <1>2, LeastElement
<1>4. m \in 1..n /\ m - 1 \in 0..n
  BY <1>3
<1>5. m - 1 \notin Bad
  BY <1>3, <1>4
<1>6. QED
  BY <1>3, <1>4, <1>5

\* A set of positions that has all below a member is a front of them.
LEMMA FrontIsInterval ==
  ASSUME NEW n \in Nat, NEW T, T \subseteq 1..n,
         \A i \in T : \A j \in 1..n : j <= i => j \in T
  PROVE  /\ Cardinality(T) \in 0..n
         /\ T = 1..Cardinality(T)
<1> DEFINE Out == {i \in 1..n + 1 : i \notin T}
<1>1. n + 1 \in Out /\ Out \subseteq Nat
  OBVIOUS
<1>2. PICK m \in Out : \A y \in Out : m <= y
  BY <1>1, LeastElement
<1>3. m \in 1..n + 1 /\ m \notin T
  BY <1>2
<1>4. \A i \in 1..m - 1 : i \in T
  BY <1>2, <1>3
<1>5. \A i \in T : i < m
  BY <1>3
<1>6. T = 1..m - 1
  <2>1. T \subseteq 1..m - 1
    BY <1>3, <1>5
  <2>2. 1..m - 1 \subseteq T
    BY <1>4
  <2>3. QED
    BY <2>1, <2>2
<1>7. m - 1 \in Int /\ 1 \in Int /\ m - 1 \in 0..n
  BY <1>3
<1>8. Cardinality(1..m - 1) = IF 1 > m - 1 THEN 0 ELSE (m - 1) - 1 + 1
  BY <1>7, FS_Interval
<1>9. Cardinality(T) = m - 1
  BY <1>6, <1>7, <1>8
<1>10. QED
  BY <1>6, <1>7, <1>9

Record == [ts : Nat, algs : SUBSET Nat]

\* A store a lookup can work with.
StoreOK ==
    /\ store.algs \in Seq(Range(store.algs))
    /\ \A i \in DOMAIN store.algs :
           IsFiniteSet(DOMAIN store.algs[i].tables) /\ DOMAIN store.algs[i].tables \subseteq Nat
    /\ \A s \in DOMAIN store.records :
           store.records[s] \in Seq(Record) /\ AscendingTimes(store.records[s])
    /\ query.ts \in Nat /\ depth \in Nat

LEMMA RecordsOK ==
  ASSUME StoreOK, NEW s
  PROVE  Records(s) \in Seq(Record) /\ AscendingTimes(Records(s)) /\ Len(Records(s)) \in Nat
<1>1. CASE s \in DOMAIN store.records
  BY <1>1 DEF StoreOK, Records
<1>2. CASE s \notin DOMAIN store.records
  <2>1. Records(s) = <<>>
    BY <1>2 DEF Records
  <2>2. <<>> \in Seq(Record) /\ AscendingTimes(<<>>)
    BY DEF AscendingTimes
  <2>3. QED
    BY <2>1, <2>2
<1>3. QED
  BY <1>1, <1>2

\* searchsorted splits the records into those at or before ts and the rest.
LEMMA SearchSplits ==
  ASSUME StoreOK, NEW s
  PROVE  /\ SearchSorted(s) \in 0..Len(Records(s))
         /\ \A i \in 1..Len(Records(s)) : Records(s)[i].ts <= query.ts <=> i <= SearchSorted(s)
<1>1. PICK r : r = Records(s)
  OBVIOUS
<1>2. r \in Seq(Record) /\ AscendingTimes(r) /\ Len(r) \in Nat
  BY <1>1, RecordsOK
<1>3. PICK n \in Nat : n = Len(r)
  BY <1>2
<1>4. DOMAIN r = 1..n /\ \A i \in 1..n : r[i].ts \in Nat
  <2>1. DOMAIN r = 1..n /\ \A i \in 1..n : r[i] \in Record
    BY <1>2, <1>3
  <2>2. QED
    BY <2>1 DEF Record
<1>5. \A i, j \in 1..n : i <= j => r[i].ts <= r[j].ts
  BY <1>2, <1>4 DEF AscendingTimes
<1> DEFINE T == {i \in DOMAIN r : r[i].ts <= query.ts}
<1>6. query.ts \in Nat
  BY DEF StoreOK
<1>7. T \subseteq 1..n
  BY <1>4
<1>8. ASSUME NEW i \in T, NEW j \in 1..n, j <= i
      PROVE  j \in T
  <2>1. i \in 1..n /\ r[i].ts <= query.ts
    BY <1>4
  <2>2. r[j].ts <= r[i].ts /\ r[j].ts \in Nat /\ r[i].ts \in Nat
    BY <1>4, <1>5, <1>8, <2>1
  <2>3. QED
    BY <1>4, <1>6, <2>1, <2>2
<1>9. SearchSorted(s) = Cardinality(T)
  BY <1>1 DEF SearchSorted
<1>10. Cardinality(T) \in 0..n /\ T = 1..Cardinality(T)
  BY <1>7, <1>8, FrontIsInterval
<1>11. \A i \in 1..n : i \in T <=> r[i].ts <= query.ts
  BY <1>4
<1> HIDE DEF T
<1>12. \A i \in 1..n : i \in T <=> i <= Cardinality(T)
  BY <1>10
<1>13. QED
  BY <1>1, <1>3, <1>9, <1>10, <1>11, <1>12

\* Record i of stream s holds the container of the variable asked for.
Holds(s, i) == AlgOf(query.var) \in Records(s)[i].algs

\* What the walk in order does with record i.
Step(s, f, i) ==
    CASE i = 0 -> [last |-> 0, age |-> 0]
      [] i > 0 /\ Records(s)[i].ts > query.ts -> f[i - 1]
      [] i > 0 /\ Records(s)[i].ts <= query.ts /\ AlgOf(query.var) \in Records(s)[i].algs ->
             [last |-> i, age |-> 0]
      [] OTHER -> [f[i - 1] EXCEPT !.age = @ + 1]

LEMMA ReplayUnfolds ==
  ASSUME StoreOK, NEW s
  PROVE  \E f : f = [i \in 0..Len(Records(s)) |-> Step(s, f, i)] /\ Replay(s) = f[Len(Records(s))]
<1> DEFINE Defines(f, m) == f = [i \in 0..m |-> Step(s, f, i)]
           T == {m \in 0..Len(Records(s)) : \E f : Defines(f, m)}
<1>1. PICK n \in Nat : n = Len(Records(s))
  BY RecordsOK
<1>2. 0 \in T
  <2> DEFINE f == [i \in 0..0 |-> [last |-> 0, age |-> 0]]
  <2>1. \A i \in 0..0 : Step(s, f, i) = [last |-> 0, age |-> 0]
    BY DEF Step
  <2>2. Defines(f, 0)
    BY <2>1
  <2>3. 0 \in 0..Len(Records(s))
    BY <1>1
  <2> HIDE DEF f
  <2>4. QED
    BY <2>2, <2>3
<1>3. ASSUME NEW m \in 1..n, m - 1 \in T
      PROVE  m \in T
  <2>1. PICK f : Defines(f, m - 1)
    BY <1>3
  <2> DEFINE g == [i \in 0..m |-> IF i = m THEN Step(s, f, m) ELSE f[i]]
  <2>2. ASSUME NEW i \in 0..m
        PROVE  g[i] = Step(s, g, i)
    <3>1. CASE i = 0
      <4>1. g[i] = f[0] /\ 0 \in 0..m - 1
        BY <3>1
      <4>2. f[0] = Step(s, f, 0)
        BY <2>1, <4>1
      <4>3. QED
        BY <3>1, <4>1, <4>2 DEF Step
    <3>2. CASE i # 0 /\ i # m
      <4>1. i \in 0..m - 1 /\ g[i] = f[i] /\ g[i - 1] = f[i - 1]
        BY <3>2
      <4>2. f[i] = Step(s, f, i)
        BY <2>1, <4>1
      <4>3. Step(s, f, i) = Step(s, g, i)
        BY <4>1, <3>2 DEF Step
      <4>4. QED
        BY <4>1, <4>2, <4>3
    <3>3. CASE i = m
      <4>1. i - 1 \in 0..m /\ i - 1 # m /\ i # 0
        BY <3>3
      <4>2. g[i] = Step(s, f, i) /\ g[i - 1] = f[i - 1]
        BY <3>3, <4>1
      <4>3. Step(s, f, i) = Step(s, g, i)
        BY <4>1, <4>2 DEF Step
      <4>4. QED
        BY <4>2, <4>3
    <3>4. QED
      BY <3>1, <3>2, <3>3
  <2>3. g = [i \in 0..m |-> g[i]]
    OBVIOUS
  <2> HIDE DEF g
  <2>4. Defines(g, m)
    BY <2>2, <2>3
  <2>5. QED
    BY <1>1, <2>4
<1> HIDE DEF T
<1>4. n \in T
  BY <1>2, <1>3, IntervalInduction
<1>5. PICK g : g = [i \in 0..Len(Records(s)) |-> Step(s, g, i)]
  BY <1>1, <1>4 DEF T
<1> DEFINE seen == CHOOSE f : f = [i \in 0..Len(Records(s)) |-> Step(s, f, i)]
<1>6. seen = [i \in 0..Len(Records(s)) |-> Step(s, seen, i)]
  BY <1>5
<1>7. Replay(s) = seen[Len(Records(s))]
  BY DEF Replay, Step
<1>8. QED
  BY <1>6, <1>7

\* What the walk in order remembers of stream s: the last record at or before
\* ts that holds the variable, and how many came after it.
LEMMA ReplayRemembers ==
  ASSUME StoreOK, NEW s
  PROVE  /\ Replay(s).last \in 0..SearchSorted(s)
         /\ Replay(s).last > 0 => Holds(s, Replay(s).last)
         /\ \A i \in 1..SearchSorted(s) : i > Replay(s).last => ~Holds(s, i)
         /\ Replay(s).age = SearchSorted(s) - Replay(s).last
<1>1. PICK n \in Nat : n = Len(Records(s))
  BY RecordsOK
<1>2. PICK h : h = SearchSorted(s)
  OBVIOUS
<1>3. h \in 0..n /\ \A i \in 1..n : Records(s)[i].ts <= query.ts <=> i <= h
  BY <1>1, <1>2, SearchSplits
<1>4. \A i \in 1..n : Records(s)[i].ts > query.ts <=> ~ (i <= h)
  <2>1. \A i \in 1..n : Records(s)[i] \in Record
    BY <1>1, RecordsOK
  <2>2. \A i \in 1..n : Records(s)[i].ts \in Nat
    BY <2>1 DEF Record
  <2>3. query.ts \in Nat
    BY DEF StoreOK
  <2>4. QED
    BY <1>3, <2>2, <2>3
<1>5. PICK f : f = [i \in 0..n |-> Step(s, f, i)] /\ Replay(s) = f[n]
  BY <1>1, ReplayUnfolds
<1> DEFINE Upto(m) == IF m <= h THEN m ELSE h
           Remembered(v, m) ==
             \E l \in 0..Upto(m) :
               /\ v = [last |-> l, age |-> Upto(m) - l]
               /\ l > 0 => Holds(s, l)
               /\ \A i \in 1..Upto(m) : i > l => ~Holds(s, i)
           T == {m \in 0..n : Remembered(f[m], m)}
<1>6. 0 \in T
  <2>1. f[0] = Step(s, f, 0) /\ 0 \in 0..n
    BY <1>5
  <2>2. f[0] = [last |-> 0, age |-> 0]
    BY <2>1 DEF Step
  <2>3. Upto(0) = 0
    BY <1>3
  <2>4. Remembered(f[0], 0)
    BY <2>2, <2>3
  <2>5. QED
    BY <2>1, <2>4
<1>7. ASSUME NEW m \in 1..n, m - 1 \in T
      PROVE  m \in T
  <2>1. PICK l \in 0..Upto(m - 1) :
          /\ f[m - 1] = [last |-> l, age |-> Upto(m - 1) - l]
          /\ l > 0 => Holds(s, l)
          /\ \A i \in 1..Upto(m - 1) : i > l => ~Holds(s, i)
    BY <1>7
  <2>2. f[m] = Step(s, f, m)
    <3>1. m \in 0..n
      OBVIOUS
    <3>2. QED
      BY <1>5, <3>1
  <2>3. Upto(m - 1) \in Nat /\ Upto(m) \in Nat /\ l \in Nat /\ l <= Upto(m - 1)
    BY <1>3, <2>1
  <2>4. CASE ~ (m <= h)
    <3>0. /\ Records(s)[m].ts > query.ts /\ m # 0 /\ m > 0
          /\ ~ (Records(s)[m].ts <= query.ts)
      BY <1>3, <1>4, <2>4
    <3>1. f[m] = f[m - 1]
      BY <2>2, <3>0 DEF Step
    <3>2. Upto(m) = h /\ Upto(m - 1) = h
      BY <1>3, <2>4
    <3>3. Remembered(f[m], m)
      BY <2>1, <3>1, <3>2
    <3>4. QED
      BY <3>3
  <2>5. CASE m <= h /\ Holds(s, m)
    <3>1. Records(s)[m].ts <= query.ts /\ ~ (Records(s)[m].ts > query.ts)
      BY <1>3, <1>4, <2>5
    <3>2. f[m] = [last |-> m, age |-> 0]
      BY <2>2, <2>5, <3>1 DEF Step, Holds
    <3>3. Upto(m) = m /\ m \in 0..m /\ m - m = 0
      BY <2>5
    <3>4. Remembered(f[m], m)
      <4>1. f[m] = [last |-> m, age |-> Upto(m) - m]
        BY <3>2, <3>3
      <4>2. \A i \in 1..Upto(m) : ~ (i > m)
        BY <3>3
      <4>3. m \in 0..Upto(m)
        BY <3>3
      <4> HIDE DEF Upto
      <4>4. QED
        BY <2>5, <4>1, <4>2, <4>3
    <3>5. QED
      BY <3>4
  <2>6. CASE m <= h /\ ~Holds(s, m)
    <3>1. Records(s)[m].ts <= query.ts /\ ~ (Records(s)[m].ts > query.ts)
      BY <1>3, <1>4, <2>6
    <3>2. f[m] = [f[m - 1] EXCEPT !.age = @ + 1]
      BY <2>2, <2>6, <3>1 DEF Step, Holds
    <3>3. Upto(m) = m /\ Upto(m - 1) = m - 1
      <4>1. h \in Nat /\ m \in Nat /\ m <= h /\ m - 1 <= h
        BY <1>3, <2>6
      <4>2. QED
        BY <4>1
    <3>4. f[m] = [last |-> l, age |-> (Upto(m - 1) - l) + 1]
      <4>1. PICK z : z = Upto(m - 1) - l
        OBVIOUS
      <4>2. PICK x : x = f[m - 1]
        OBVIOUS
      <4>3. x = [last |-> l, age |-> z]
        BY <2>1, <4>1, <4>2
      <4>4. [x EXCEPT !.age = @ + 1] = [last |-> l, age |-> z + 1]
        BY <4>3
      <4>5. QED
        BY <3>2, <4>1, <4>2, <4>4
    <3>5. (Upto(m - 1) - l) + 1 = Upto(m) - l
      BY <2>3, <3>3
    <3>6. l \in 0..Upto(m)
      BY <2>3, <3>3
    <3>7. \A i \in 1..Upto(m) : i > l => ~Holds(s, i)
      <4>1. \A i \in 1..m : i = m \/ i \in 1..m - 1
        OBVIOUS
      <4>2. \A i \in 1..m - 1 : i > l => ~Holds(s, i)
        BY <2>1, <3>3
      <4>3. \A i \in 1..m : i > l => ~Holds(s, i)
        BY <2>6, <4>1, <4>2
      <4>4. QED
        BY <3>3, <4>3
    <3>8. Remembered(f[m], m)
      <4> HIDE DEF Upto
      <4>1. QED
        BY <2>1, <3>4, <3>5, <3>6, <3>7
    <3>9. QED
      BY <3>8
  <2>7. QED
    BY <2>4, <2>5, <2>6
<1> HIDE DEF T
<1>8. n \in T
  BY <1>6, <1>7, IntervalInduction
<1>9. Remembered(f[n], n) /\ Upto(n) = h
  BY <1>3, <1>8 DEF T
<1>10. QED
  BY <1>2, <1>5, <1>9

-----------------------------------------------------------------------------
(* as_of answers what the replay remembers                                 *)

Owners == OwningStreams(query.var)

\* Of each stream, the last record at or before ts, whether its own table has
\* the variable, and the records up to ts that hold the container.
Found == [s \in Nat |-> SearchSorted(s)]
Declarers == {s \in Nat : Declares(s)}
Holders == [s \in Nat |-> {i \in 1..SearchSorted(s) : Holds(s, i)}]

\* No record of the stream within the horizon holds the container.
Silent(s) == \A i \in Holders[s] : i <= Found[s] - depth

\* Record i is the newest one at or before ts that holds the container, and
\* within the horizon.
Newest(s, i) ==
    /\ i \in Holders[s] /\ i > Found[s] - depth
    /\ \A j \in Holders[s] : j <= i

LEMMA RememberedOrSilent ==
  ASSUME StoreOK, NEW s \in Nat
  PROVE  /\ Silent(s) <=> ~Remembers(s)
         /\ \A i : Newest(s, i) => Remembers(s) /\ Replay(s).last = i
<1>1. PICK h : h = SearchSorted(s)
  OBVIOUS
<1>2. PICK l : l = Replay(s).last
  OBVIOUS
<1>3. PICK a : a = Replay(s).age
  OBVIOUS
<1>4. h \in Nat /\ depth \in Nat
  BY <1>1, SearchSplits, RecordsOK DEF StoreOK
<1>5. PICK H : H = {i \in 1..h : Holds(s, i)}
  OBVIOUS
<1>6. Found[s] = h /\ Holders[s] = H
  BY <1>1, <1>5 DEF Found, Holders
<1>7. /\ l \in 0..h /\ a = h - l
      /\ l > 0 => l \in H
      /\ \A i \in H : i <= l
  <2>1. /\ l \in 0..h /\ a = h - l
        /\ l > 0 => Holds(s, l)
        /\ \A i \in 1..h : i > l => ~Holds(s, i)
    BY <1>1, <1>2, <1>3, ReplayRemembers
  <2>2. \A i \in 1..h : Holds(s, i) => i <= l
    BY <1>4, <2>1
  <2>3. QED
    BY <1>4, <1>5, <2>1, <2>2
<1>8. Remembers(s) <=> l # 0 /\ a < depth
  BY <1>2, <1>3 DEF Remembers
<1>9. Silent(s) <=> \A i \in H : i <= h - depth
  BY <1>6 DEF Silent
<1>10. H \subseteq 1..h
  BY <1>5
<1>11. Remembers(s) => ~Silent(s)
  <2>1. l # 0 /\ a < depth => l \in H /\ ~ (l <= h - depth)
    BY <1>4, <1>7
  <2>2. QED
    BY <1>8, <1>9, <2>1
<1>12. ~Remembers(s) => Silent(s)
  <2>1. ASSUME NEW i \in H, ~Remembers(s)
        PROVE  i <= h - depth
    <3>1. i <= l /\ i \in 1..h
      BY <1>7, <1>10
    <3>2. ~ (a < depth)
      BY <1>7, <1>8, <2>1, <3>1
    <3>3. QED
      BY <1>4, <1>7, <3>1, <3>2
  <2>2. QED
    BY <1>9, <2>1
<1>13. ASSUME NEW i, Newest(s, i)
       PROVE  Remembers(s) /\ l = i
  <2>1. i \in H /\ i > h - depth /\ \A j \in H : j <= i
    BY <1>6, <1>13 DEF Newest
  <2>2. i <= l /\ i \in 1..h
    BY <1>7, <1>10, <2>1
  <2>3. l \in H
    BY <1>7, <2>2
  <2>4. l <= i
    BY <2>1, <2>3
  <2>5. l = i
    BY <1>7, <2>2, <2>4
  <2>6. QED
    BY <1>4, <1>7, <1>8, <2>1, <2>2, <2>5
<1>14. QED
  BY <1>2, <1>11, <1>12, <1>13

\* A non-empty set of naturals has a least element, and Min finds it.
LEMMA MinProperties ==
  ASSUME NEW T, T \subseteq Nat, T # {}
  PROVE  Min(T) \in T /\ \A y \in T : Min(T) <= y
  BY LeastElement DEF Min

LEMMA OwnersOK ==
  ASSUME StoreOK
  PROVE  Owners \in Seq(Nat) /\ Len(Owners) \in Nat /\ \A k \in 1..Len(Owners) : Owners[k] \in Nat
<1> DEFINE having == {i \in DOMAIN store.algs : query.var \in Fields(store.algs[i])}
           alg == AlgOf(query.var)
<1>1. CASE alg = None
  <2>1. Owners = <<>>
    BY <1>1 DEF Owners, OwningStreams
  <2>2. QED
    BY <2>1
<1>2. CASE alg # None
  <2>1. having # {} /\ alg = Min(having)
    BY <1>2 DEF AlgOf
  <2>2. having \subseteq Nat
    <3>1. DOMAIN store.algs = 1..Len(store.algs) /\ Len(store.algs) \in Nat
      BY DEF StoreOK
    <3>2. QED
      BY <3>1
  <2>3. alg \in DOMAIN store.algs
    BY <2>1, <2>2, MinProperties
  <2>4. PICK S : S = DOMAIN store.algs[alg].tables
    OBVIOUS
  <2>5. S \subseteq Nat /\ S \subseteq Int /\ IsFiniteSet(S)
    BY <2>3, <2>4 DEF StoreOK
  <2>6. Owners = Ascending(S)
    BY <1>2, <2>4 DEF Owners, OwningStreams
  <2>7. Ascending(S) \in Seq(S) /\ Len(Ascending(S)) \in Nat
    BY <2>5, AscendingLists
  <2>8. PICK a : a = Ascending(S)
    OBVIOUS
  <2>9. a \in Seq(S)
    BY <2>7, <2>8
  <2>10. a \in Seq(Nat)
    <3>1. DOMAIN a = 1..Len(a) /\ Len(a) \in Nat /\ a = [k \in 1..Len(a) |-> a[k]]
      BY <2>9
    <3>0. \A k \in 1..Len(a) : a[k] \in S
      BY <2>9
    <3>2. \A k \in 1..Len(a) : a[k] \in Nat
      BY <2>5, <3>0
    <3>3. a \in [1..Len(a) -> Nat]
      BY <3>1, <3>2
    <3>4. QED
      BY <3>1, <3>3
  <2>11. QED
    BY <2>6, <2>8, <2>10
<1>3. QED
  BY <1>1, <1>2

\* A search as far as it has got: the owners before the head are silent, and
\* so are the records of the head's stream after p.
Searched ==
    /\ answer = None
    /\ \E d \in 0..Len(Owners) :
         left = SubSeq(Owners, d + 1, Len(Owners)) /\ \A k \in 1..d : Silent(Owners[k])
    /\ p # None =>
         /\ left # <<>> /\ p \in 0..Found[Head(left)]
         /\ p >= Found[Head(left)] - depth
         /\ \A i \in Holders[Head(left)] : i <= p

\* The first owner that is not silent is the k-th, and i its newest record.
FirstHeld(k, i) == (\A j \in 1..k - 1 : Silent(Owners[j])) /\ Newest(Owners[k], i)

Answered ==
    \/ answer = None /\ \A k \in 1..Len(Owners) : Silent(Owners[k])
    \/ \E k \in 1..Len(Owners), i \in Nat :
         /\ FirstHeld(k, i) /\ Owners[k] \in Declarers
         /\ answer = [stream |-> Owners[k], position |-> i]

Raised ==
    /\ answer = None
    /\ \E k \in 1..Len(Owners), i \in Nat : FirstHeld(k, i) /\ Owners[k] \notin Declarers

LookInv ==
    /\ StoreOK
    /\ status \in {"called", "searching", "answered", "raised"}
    /\ status = "called" => left = <<>> /\ p = None /\ answer = None
    /\ status = "searching" => Searched
    /\ status = "answered" => Answered
    /\ status = "raised" => Raised

\* What was asked stays.
LEMMA AskedStays ==
  ASSUME store' = store, query' = query, depth' = depth
  PROVE  /\ Owners' = Owners /\ Found' = Found /\ Holders' = Holders
         /\ Declarers' = Declarers /\ StoreOK' = StoreOK
<1>1. Owners' = Owners
  BY DEF Owners, OwningStreams, AlgOf
<1>2. Found' = Found
  BY DEF Found, SearchSorted, Records
<1>3. Holders' = Holders
  BY DEF Holders, SearchSorted, Records, Holds, AlgOf
<1>4. StoreOK' = StoreOK
  BY DEF StoreOK
<1>5. Declarers' = Declarers
  BY DEF Declarers, Declares, AlgOf
<1>6. QED
  BY <1>1, <1>2, <1>3, <1>4, <1>5

\* The head of the owners that are left.
LEMMA HeadOfLeft ==
  ASSUME StoreOK, NEW d \in 0..Len(Owners), left = SubSeq(Owners, d + 1, Len(Owners)), left # <<>>
  PROVE  /\ d + 1 \in 1..Len(Owners) /\ Head(left) = Owners[d + 1] /\ Head(left) \in Nat
         /\ Tail(left) = SubSeq(Owners, d + 2, Len(Owners))
         /\ Found[Head(left)] = SearchSorted(Head(left)) /\ Found[Head(left)] \in Nat
         /\ Holders[Head(left)] = {i \in 1..Found[Head(left)] : Holds(Head(left), i)}
<1>1. PICK o : o = Owners
  OBVIOUS
<1>2. o \in Seq(Nat) /\ Len(o) \in Nat
  BY <1>1, OwnersOK
<1>3. left = SubSeq(o, d + 1, Len(o)) /\ d \in 0..Len(o)
  BY <1>1
<1>4. d + 1 \in 1..Len(o) /\ Head(left) = o[d + 1] /\ Tail(left) = SubSeq(o, d + 2, Len(o))
  BY <1>2, <1>3
<1>5. o[d + 1] \in Nat
  BY <1>2, <1>4
<1>6. PICK s \in Nat : s = Head(left)
  BY <1>4, <1>5
<1>7. Found[s] = SearchSorted(s)
  BY <1>6 DEF Found
<1>8. Holders[s] = {i \in 1..SearchSorted(s) : Holds(s, i)}
  BY <1>6 DEF Holders
<1>9. Found[s] \in Nat
  BY <1>7, SearchSplits, RecordsOK
<1>10. QED
  BY <1>1, <1>4, <1>6, <1>7, <1>8, <1>9

\* What an action of the lookup finds and leaves.
LEMMA LookNext ==
  ASSUME LookInv, AsOfNext
  PROVE  LookInv'
<1>0. store' = store /\ query' = query /\ depth' = depth
  BY DEF AsOfNext, AsOf, EnterStream, ReadValue, LacksField, SkipBack, LeaveStream, NoValue
<1>1. /\ Owners' = Owners /\ Found' = Found /\ Holders' = Holders
      /\ Declarers' = Declarers /\ StoreOK' = StoreOK
  BY <1>0, AskedStays
<1>2. StoreOK /\ StoreOK'
  BY <1>1 DEF LookInv
<1>3. PICK o : o = Owners
  OBVIOUS
<1>4. Len(o) \in Nat /\ o \in Seq(Nat) /\ \A k \in 1..Len(o) : o[k] \in Nat
  BY <1>2, <1>3, OwnersOK
<1>5. depth \in Nat /\ None \notin Int
  BY <1>2, NoneAssumption DEF StoreOK
<1>a. ASSUME AsOf
      PROVE  LookInv'
  <2>1. status' = "searching" /\ answer' = None /\ p' = None /\ left' = Owners
    BY <1>a DEF LookInv, AsOf, Owners
  <2>2. 0 \in 0..Len(o) /\ SubSeq(o, 0 + 1, Len(o)) = o /\ \A k \in 1..0 : FALSE
    BY <1>4
  <2>3. Searched'
    BY <1>1, <1>3, <2>1, <2>2 DEF Searched
  <2>4. QED
    BY <1>2, <2>1, <2>3 DEF LookInv
<1>6. ASSUME status = "searching"
      PROVE  /\ answer = None
             /\ \E d \in 0..Len(o) :
                  left = SubSeq(o, d + 1, Len(o)) /\ \A k \in 1..d : Silent(o[k])
             /\ p # None =>
                  /\ left # <<>> /\ p \in 0..Found[Head(left)]
                  /\ p >= Found[Head(left)] - depth
                  /\ \A i \in Holders[Head(left)] : i <= p
  BY <1>3, <1>6 DEF LookInv, Searched
\* The head is silent: the search goes on with the next owner.
<1>7. ASSUME status = "searching", left # <<>>, status' = status, answer' = answer,
             left' = Tail(left), p' = None, Silent(Head(left))
      PROVE  LookInv'
  <2>1. PICK d \in 0..Len(o) : left = SubSeq(o, d + 1, Len(o)) /\ \A k \in 1..d : Silent(o[k])
    BY <1>6, <1>7
  <2>2. /\ d + 1 \in 1..Len(o) /\ Head(left) = o[d + 1]
        /\ Tail(left) = SubSeq(o, d + 2, Len(o))
    BY <1>2, <1>3, <1>7, <2>1, HeadOfLeft
  <2>3. (d + 1) + 1 = d + 2 /\ d + 1 \in 0..Len(o)
    BY <2>2
  <2>4. \A k \in 1..d + 1 : Silent(o[k])
    <3>1. \A k \in 1..d + 1 : k \in 1..d \/ k = d + 1
      OBVIOUS
    <3>2. QED
      BY <1>7, <2>1, <2>2, <3>1
  <2>5. \A k \in 1..d + 1 : \A i \in Holders'[o[k]] : i <= Found'[o[k]] - depth'
    BY <1>0, <1>1, <2>4 DEF Silent
  <2>6. left' = SubSeq(o, (d + 1) + 1, Len(o)) /\ o = Owners' /\ answer' = None
    BY <1>1, <1>3, <1>6, <1>7, <2>2, <2>3
  <2>7. Searched'
    BY <1>7, <2>3, <2>5, <2>6 DEF Searched, Silent
  <2>8. QED
    BY <1>2, <1>7, <2>7 DEF LookInv
\* The head is searched down to q.
<1>8. ASSUME status = "searching", left # <<>>, status' = status, answer' = answer,
             left' = left, p' # None, p' \in 0..Found[Head(left)],
             p' >= Found[Head(left)] - depth, \A i \in Holders[Head(left)] : i <= p'
      PROVE  LookInv'
  <2>1. PICK d \in 0..Len(o) : left = SubSeq(o, d + 1, Len(o)) /\ \A k \in 1..d : Silent(o[k])
    BY <1>6, <1>8
  <2>2. \A k \in 1..d : \A i \in Holders'[o[k]] : i <= Found'[o[k]] - depth'
    BY <1>0, <1>1, <2>1 DEF Silent
  <2>3. left' = SubSeq(o, d + 1, Len(o)) /\ o = Owners' /\ answer' = None
    BY <1>1, <1>3, <1>6, <1>8, <2>1
  <2>4. Searched'
    BY <1>0, <1>1, <1>8, <2>1, <2>2, <2>3 DEF Searched, Silent
  <2>5. QED
    BY <1>2, <1>8, <2>4 DEF LookInv
<1>9. ASSUME status = "searching", left # <<>>
      PROVE  /\ Head(left) \in Nat
             /\ Found[Head(left)] = SearchSorted(Head(left)) /\ Found[Head(left)] \in Nat
             /\ Holders[Head(left)] = {i \in 1..Found[Head(left)] : Holds(Head(left), i)}
  BY <1>2, <1>3, <1>6, <1>9, HeadOfLeft
<1>b. ASSUME EnterStream
      PROVE  LookInv'
  <2>1. /\ status = "searching" /\ left # <<>> /\ p = None
        /\ status' = status /\ answer' = answer
    BY <1>b DEF EnterStream
  <2>2. CASE SearchSorted(Head(left)) = 0
    <3>1. left' = Tail(left) /\ p' = None
      BY <1>b, <2>1, <2>2 DEF EnterStream
    <3>2. Silent(Head(left))
      BY <1>9, <2>1, <2>2 DEF Silent
    <3>3. QED
      BY <1>7, <2>1, <3>1, <3>2
  <2>3. CASE SearchSorted(Head(left)) # 0
    <3>1. p' = Found[Head(left)] /\ left' = left
      BY <1>9, <1>b, <2>1, <2>3 DEF EnterStream
    <3>2. /\ p' # None /\ p' \in 0..Found[Head(left)] /\ p' >= Found[Head(left)] - depth
          /\ \A i \in Holders[Head(left)] : i <= p'
      BY <1>5, <1>9, <2>1, <3>1
    <3>3. QED
      BY <1>8, <2>1, <3>1, <3>2
  <2>4. QED
    BY <2>2, <2>3
<1>10. ASSUME status = "searching", p # None
       PROVE  /\ left # <<>> /\ p \in 0..Found[Head(left)] /\ Found[Head(left)] \in Nat
              /\ p >= Found[Head(left)] - depth
              /\ \A i \in Holders[Head(left)] : i <= p
              /\ InRange <=> p > Found[Head(left)] - depth /\ p >= 1
              /\ p >= 1 => (Carries <=> p \in Holders[Head(left)])
  <2>1. /\ left # <<>> /\ p \in 0..Found[Head(left)]
        /\ p >= Found[Head(left)] - depth
        /\ \A i \in Holders[Head(left)] : i <= p
    BY <1>6, <1>10
  <2>2. Found[Head(left)] \in Nat
    BY <1>9, <1>10, <2>1
  <2>3. InRange <=> p > Found[Head(left)] - depth /\ p >= 1
    BY <1>9, <1>10, <2>1 DEF InRange
  <2>4. Carries <=> Holds(Head(left), p)
    BY DEF Carries, Holds
  <2>5. p >= 1 => (Holds(Head(left), p) <=> p \in Holders[Head(left)])
    BY <1>9, <1>10, <2>1, <2>2
  <2>6. QED
    BY <2>1, <2>2, <2>3, <2>4, <2>5
\* A record of the head's stream is found: the first within the horizon.
<1>12. ASSUME status = "searching", p # None, InRange, Carries
       PROVE  \E k \in 1..Len(o), q \in Nat :
                /\ p = q /\ Head(left) = o[k]
                /\ \A j \in 1..k - 1 : \A i \in Holders'[o[j]] : i <= Found'[o[j]] - depth'
                /\ q \in Holders'[o[k]] /\ q > Found'[o[k]] - depth'
                /\ \A i \in Holders'[o[k]] : i <= q
  <2>1. /\ left # <<>> /\ p \in Nat /\ p \in Holders[Head(left)] /\ p > Found[Head(left)] - depth
        /\ \A i \in Holders[Head(left)] : i <= p
    BY <1>10, <1>12
  <2>2. PICK d \in 0..Len(o) : left = SubSeq(o, d + 1, Len(o)) /\ \A k \in 1..d : Silent(o[k])
    BY <1>6, <1>12
  <2>3. PICK k : k = d + 1
    OBVIOUS
  <2>4. k \in 1..Len(o) /\ Head(left) = o[k] /\ k - 1 = d
    BY <1>2, <1>3, <2>1, <2>2, <2>3, HeadOfLeft
  <2>5. \A j \in 1..k - 1 : \A i \in Holders'[o[j]] : i <= Found'[o[j]] - depth'
    BY <1>0, <1>1, <2>2, <2>4 DEF Silent
  <2>6. PICK q \in Nat : q = p
    BY <2>1
  <2>7. /\ q \in Holders'[o[k]] /\ q > Found'[o[k]] - depth'
        /\ \A i \in Holders'[o[k]] : i <= q
    BY <1>0, <1>1, <2>1, <2>4, <2>6
  <2>8. QED
    BY <2>4, <2>5, <2>6, <2>7
<1>13. \A s \in Nat : s \in Declarers' <=> Declares(s)
  BY <1>1 DEF Declarers
<1>c. ASSUME ReadValue
      PROVE  LookInv'
  <2>1. /\ status = "searching" /\ p # None /\ InRange /\ Carries /\ Declares(Head(left))
        /\ answer' = [stream |-> Head(left), position |-> p] /\ status' = "answered"
    BY <1>c DEF ReadValue
  <2>2. PICK k \in 1..Len(o), q \in Nat :
                /\ p = q /\ Head(left) = o[k]
                /\ \A j \in 1..k - 1 : \A i \in Holders'[o[j]] : i <= Found'[o[j]] - depth'
                /\ q \in Holders'[o[k]] /\ q > Found'[o[k]] - depth'
                /\ \A i \in Holders'[o[k]] : i <= q
    BY <1>12, <2>1
  <2>3. answer' = [stream |-> o[k], position |-> q] /\ o = Owners' /\ o[k] \in Declarers'
    BY <1>1, <1>3, <1>4, <1>13, <2>1, <2>2
  <2>4. Answered'
    BY <2>2, <2>3 DEF Answered, FirstHeld, Silent, Newest
  <2>5. QED
    BY <1>2, <2>1, <2>4 DEF LookInv
<1>g. ASSUME LacksField
      PROVE  LookInv'
  <2>1. /\ status = "searching" /\ p # None /\ InRange /\ Carries /\ ~Declares(Head(left))
        /\ answer' = answer /\ status' = "raised"
    BY <1>g DEF LacksField
  <2>2. PICK k \in 1..Len(o), q \in Nat :
                /\ p = q /\ Head(left) = o[k]
                /\ \A j \in 1..k - 1 : \A i \in Holders'[o[j]] : i <= Found'[o[j]] - depth'
                /\ q \in Holders'[o[k]] /\ q > Found'[o[k]] - depth'
                /\ \A i \in Holders'[o[k]] : i <= q
    BY <1>12, <2>1
  <2>3. answer' = None /\ o = Owners' /\ o[k] \notin Declarers'
    BY <1>1, <1>3, <1>4, <1>6, <1>13, <2>1, <2>2
  <2>4. Raised'
    BY <2>2, <2>3 DEF Raised, FirstHeld, Silent, Newest
  <2>5. QED
    BY <1>2, <2>1, <2>4 DEF LookInv
<1>d. ASSUME SkipBack
      PROVE  LookInv'
  <2>1. /\ status = "searching" /\ p # None /\ InRange /\ ~Carries /\ p' = p - 1
        /\ status' = status /\ answer' = answer /\ left' = left
    BY <1>d DEF SkipBack
  <2>2. PICK h : h = Found[Head(left)]
    OBVIOUS
  <2>3. /\ left # <<>> /\ h \in Nat /\ p \in 1..h /\ p > h - depth
        /\ \A i \in Holders[Head(left)] : i <= p /\ i # p
    BY <1>10, <2>1, <2>2
  <2>4. Holders[Head(left)] \subseteq Int
    BY <1>9, <2>1, <2>3
  <2>5. p' # None /\ p' \in 0..h /\ p' >= h - depth
    BY <1>5, <2>1, <2>3
  <2>6. \A i \in Holders[Head(left)] : i <= p'
    BY <2>1, <2>3, <2>4
  <2>7. QED
    BY <1>8, <2>1, <2>2, <2>3, <2>5, <2>6
<1>e. ASSUME LeaveStream
      PROVE  LookInv'
  <2>1. /\ status = "searching" /\ p # None /\ ~InRange
        /\ left' = Tail(left) /\ p' = None /\ status' = status /\ answer' = answer
    BY <1>e DEF LeaveStream
  <2>2. PICK h : h = Found[Head(left)]
    OBVIOUS
  <2>3. /\ left # <<>> /\ h \in Nat /\ p \in 0..h /\ (p = 0 \/ p <= h - depth)
        /\ \A i \in Holders[Head(left)] : i <= p
    BY <1>5, <1>10, <2>1, <2>2
  <2>4. Holders[Head(left)] \subseteq 1..h
    BY <1>9, <2>1, <2>2, <2>3
  <2>5. \A i \in Holders[Head(left)] : i <= h - depth
    BY <1>5, <2>3, <2>4
  <2>6. Silent(Head(left))
    BY <2>2, <2>5 DEF Silent
  <2>7. QED
    BY <1>7, <2>1, <2>3, <2>6
<1>f. ASSUME NoValue
      PROVE  LookInv'
  <2>1. status = "searching" /\ left = <<>> /\ status' = "answered" /\ answer' = answer
    BY <1>f DEF NoValue
  <2>2. PICK d \in 0..Len(o) : left = SubSeq(o, d + 1, Len(o)) /\ \A k \in 1..d : Silent(o[k])
    BY <1>6, <2>1
  <2>3. d = Len(o)
    <3>1. ASSUME d # Len(o)
          PROVE  FALSE
      <4>1. d + 1 <= Len(o) /\ d + 1 \in 1..Len(o)
        BY <1>4, <3>1
      <4>2. Len(SubSeq(o, d + 1, Len(o))) = Len(o) - d
        BY <1>4, <4>1
      <4>3. Len(<<>>) = 0
        OBVIOUS
      <4>4. SubSeq(o, d + 1, Len(o)) = <<>>
        BY <2>1, <2>2
      <4>5. Len(o) - d = 0
        BY <4>2, <4>3, <4>4
      <4>6. d \in Nat
        OBVIOUS
      <4>7. QED
        BY <1>4, <3>1, <4>5, <4>6
    <3>2. QED
      BY <3>1
  <2>4. \A k \in 1..Len(o) : \A i \in Holders'[o[k]] : i <= Found'[o[k]] - depth'
    BY <1>0, <1>1, <2>2, <2>3 DEF Silent
  <2>5. answer' = None /\ o = Owners'
    BY <1>1, <1>3, <1>6, <2>1
  <2>6. Answered'
    BY <2>4, <2>5 DEF Answered, Silent
  <2>7. QED
    BY <1>2, <2>1, <2>6 DEF LookInv
<1>11. QED
  BY <1>a, <1>b, <1>c, <1>g, <1>d, <1>e, <1>f DEF AsOfNext

LEMMA LookStutters ==
  ASSUME LookInv, UNCHANGED asOfVars
  PROVE  LookInv'
<1>0. /\ store' = store /\ query' = query /\ depth' = depth /\ left' = left /\ p' = p
      /\ status' = status /\ answer' = answer
  BY DEF asOfVars
<1>1. /\ Owners' = Owners /\ Found' = Found /\ Holders' = Holders
      /\ Declarers' = Declarers /\ StoreOK' = StoreOK
  BY <1>0, AskedStays
<1>2. Searched' = Searched
  BY <1>0, <1>1 DEF Searched, Silent
<1>3. Answered' = Answered /\ Raised' = Raised
  BY <1>0, <1>1 DEF Answered, Raised, FirstHeld, Silent, Newest
<1>4. QED
  BY <1>0, <1>1, <1>2, <1>3 DEF LookInv

\* The answer is what the replay gives.
LEMMA AnsweredIsReplay == LookInv => AsOfIsReplay
<1>1. SUFFICES ASSUME LookInv, status \in {"answered", "raised"}
               PROVE  AsOfIsReplay
  BY DEF AsOfIsReplay
<1>2. PICK o : o = Owners
  OBVIOUS
<1>3. StoreOK /\ (status = "answered" => Answered) /\ (status = "raised" => Raised)
  BY <1>1 DEF LookInv
<1>4. o \in Seq(Nat) /\ Len(o) \in Nat /\ \A k \in 1..Len(o) : o[k] \in Nat
  BY <1>2, <1>3, OwnersOK
<1> DEFINE R == {i \in DOMAIN o : Remembers(o[i])}
<1>5. R \subseteq Nat /\ R \subseteq 1..Len(o)
  BY <1>4
<1>6. \A k \in 1..Len(o) : k \in R <=> ~Silent(o[k])
  BY <1>3, <1>4, RememberedOrSilent
<1>7. SUFFICES IF R = {}
               THEN status = "answered" /\ answer = None
               ELSE IF Declares(o[Min(R)])
               THEN /\ status = "answered"
                    /\ answer = [stream |-> o[Min(R)], position |-> Replay(o[Min(R)]).last]
               ELSE status = "raised" /\ answer = None
  BY <1>2 DEF AsOfIsReplay, Owners
<1> HIDE DEF R
<1>8. ASSUME NEW k \in 1..Len(o), NEW i \in Nat, FirstHeld(k, i)
      PROVE  R # {} /\ Min(R) = k /\ Replay(o[k]).last = i
  <2>0. Newest(o[k], i) /\ \A j \in 1..k - 1 : Silent(o[j])
    BY <1>2, <1>8 DEF FirstHeld
  <2>1. Remembers(o[k]) /\ Replay(o[k]).last = i
    BY <1>3, <1>4, <2>0, RememberedOrSilent
  <2>2. k \in R
    BY <1>3, <1>4, <1>6, <2>1, RememberedOrSilent
  <2>3. \A j \in R : k <= j
    <3>1. ASSUME NEW j \in R, j < k
          PROVE  FALSE
      <4>1. j \in 1..k - 1 /\ j \in 1..Len(o)
        BY <1>5, <3>1
      <4>2. QED
        BY <1>6, <2>0, <3>1, <4>1
    <3>2. QED
      BY <1>5, <3>1
  <2>4. Min(R) \in R /\ \A y \in R : Min(R) <= y
    BY <1>5, <2>2, MinProperties
  <2>5. Min(R) = k
    <3>1. PICK m : m = Min(R)
      OBVIOUS
    <3>2. m \in Nat /\ k \in Nat /\ k <= m /\ m <= k
      BY <1>5, <2>2, <2>3, <2>4, <3>1
    <3>3. QED
      BY <3>1, <3>2
  <2>6. QED
    BY <2>1, <2>2, <2>5
<1>9. \A k \in 1..Len(o) : o[k] \in Declarers <=> Declares(o[k])
  BY <1>4 DEF Declarers
<1>10. CASE status = "answered"
  <2>1. CASE answer = None /\ \A k \in 1..Len(o) : Silent(o[k])
    BY <1>5, <1>6, <1>10, <2>1
  <2>2. ASSUME NEW k \in 1..Len(o), NEW i \in Nat, FirstHeld(k, i), o[k] \in Declarers,
               answer = [stream |-> o[k], position |-> i]
        PROVE  IF R = {}
               THEN status = "answered" /\ answer = None
               ELSE IF Declares(o[Min(R)])
               THEN /\ status = "answered"
                    /\ answer = [stream |-> o[Min(R)], position |-> Replay(o[Min(R)]).last]
               ELSE status = "raised" /\ answer = None
    BY <1>8, <1>9, <1>10, <2>2
  <2>3. QED
    BY <1>2, <1>3, <1>10, <2>1, <2>2 DEF Answered
<1>11. CASE status = "raised"
  <2>1. PICK k \in 1..Len(o), i \in Nat : FirstHeld(k, i) /\ o[k] \notin Declarers
    BY <1>2, <1>3, <1>11 DEF Raised
  <2>2. answer = None
    BY <1>3, <1>11 DEF Raised
  <2>3. QED
    BY <1>8, <1>9, <1>11, <2>1, <2>2
<1>12. QED
  BY <1>1, <1>10, <1>11

-----------------------------------------------------------------------------
(* The scan store of a run                                                 *)

LEMMA RunDgrams ==
  ASSUME NEW r \in Runs, NEW s \in DOMAIN r.dgrams
  PROVE  /\ Len(r.dgrams[s]) \in Nat /\ DOMAIN r.dgrams[s] = 1..Len(r.dgrams[s])
         /\ r.front[s] \in 1..Len(r.dgrams[s])
         /\ \A i \in 1..Len(r.dgrams[s]) :
              /\ r.dgrams[s][i].ts \in Nat /\ r.dgrams[s][i].segs \subseteq r.segs[s]
              /\ r.dgrams[s][i].service = "Configure" <=> i = 1
         /\ \A i, j \in 1..Len(r.dgrams[s]) : i < j =>
              /\ r.dgrams[s][i].ts <= r.dgrams[s][j].ts
              /\ r.dgrams[s][i].ts = r.dgrams[s][j].ts =>
                   r.dgrams[s][i].service = "L1Accept" /\ r.dgrams[s][j].service = "L1Accept"
<1> DEFINE D == [service : STRING, ts : Nat, segs : SUBSET r.segs[s]]
<1>1. PICK g : g = r.dgrams[s]
  OBVIOUS
<1>0. /\ r.dgrams[s] \in Seq(D)
      /\ r.front[s] \in 1..Len(r.dgrams[s])
      /\ \A i \in DOMAIN r.dgrams[s] : r.dgrams[s][i].service = "Configure" <=> i = 1
      /\ \A i, j \in DOMAIN r.dgrams[s] : i < j =>
           \/ r.dgrams[s][i].ts < r.dgrams[s][j].ts
           \/ /\ r.dgrams[s][i].service = "L1Accept" /\ r.dgrams[s][j].service = "L1Accept"
              /\ r.dgrams[s][i].ts = r.dgrams[s][j].ts
  BY StepRunsAssumption, Zenon
<1> HIDE DEF D
<1>2. /\ g \in Seq(D) /\ r.front[s] \in 1..Len(g)
      /\ \A i \in DOMAIN g : g[i].service = "Configure" <=> i = 1
      /\ \A i, j \in DOMAIN g : i < j =>
           \/ g[i].ts < g[j].ts
           \/ /\ g[i].service = "L1Accept" /\ g[j].service = "L1Accept"
              /\ g[i].ts = g[j].ts
  BY <1>0, <1>1
<1>3. DOMAIN g = 1..Len(g) /\ Len(g) \in Nat /\ \A i \in 1..Len(g) : g[i] \in D
  BY <1>2
<1>4. \A i \in 1..Len(g) : g[i].ts \in Nat /\ g[i].segs \subseteq r.segs[s]
  BY <1>3 DEF D
<1>5. ASSUME NEW i \in 1..Len(g), NEW j \in 1..Len(g), i < j
      PROVE  /\ g[i].ts <= g[j].ts
             /\ g[i].ts = g[j].ts => g[i].service = "L1Accept" /\ g[j].service = "L1Accept"
  <2>1. g[i].ts \in Nat /\ g[j].ts \in Nat
    BY <1>4
  <2>2. \/ g[i].ts < g[j].ts
        \/ g[i].service = "L1Accept" /\ g[j].service = "L1Accept" /\ g[i].ts = g[j].ts
    BY <1>2, <1>3, <1>5
  <2>3. QED
    BY <2>1, <2>2
<1>6. QED
  BY <1>1, <1>2, <1>3, <1>4, <1>5

\* The positions of the records that the scan store keeps of a stream.
ScanAt(r, s) == {i \in DOMAIN r.dgrams[s] : r.dgrams[s][i].service \in {"BeginRun", "BeginStep"}}

LEMMA ScanRecordsList ==
  ASSUME NEW r \in Runs, NEW s \in DOMAIN r.dgrams
  PROVE  \E m \in Nat : \E a \in [1..m -> ScanAt(r, s)] :
           /\ ScanRecords(r, s) = [k \in 1..m |-> r.dgrams[s][a[k]]]
           /\ \A i, j \in 1..m : i < j => a[i] < a[j]
           /\ \A x \in ScanAt(r, s) : \E k \in 1..m : a[k] = x
<1>1. PICK S : S = ScanAt(r, s)
  OBVIOUS
<1>2. S \subseteq 1..Len(r.dgrams[s]) /\ Len(r.dgrams[s]) \in Nat
  BY <1>1, RunDgrams DEF ScanAt
<1>3. IsFiniteSet(S) /\ S \subseteq Int
  <2>1. IsFiniteSet(1..Len(r.dgrams[s]))
    BY <1>2, FS_Interval, 1 \in Int, Len(r.dgrams[s]) \in Int
  <2>2. QED
    <3>1. S \in SUBSET (1..Len(r.dgrams[s]))
      BY <1>2
    <3>2. IsFiniteSet(S)
      BY <2>1, <3>1, FS_Subset
    <3>3. 1..Len(r.dgrams[s]) \subseteq Int
      BY <1>2
    <3>4. QED
      BY <1>2, <3>2, <3>3
<1>4. PICK a : a = Ascending(S)
  OBVIOUS
<1>5. PICK m : m = Cardinality(S)
  OBVIOUS
<1>6. /\ m \in Nat /\ DOMAIN a = 1..m /\ a \in Seq(S)
      /\ \A k \in 1..m : a[k] \in S
      /\ \A i, j \in 1..m : i < j => a[i] < a[j]
      /\ \A x \in S : \E k \in 1..m : a[k] = x
  BY <1>3, <1>4, <1>5, AscendingLists
<1>7. a \in [1..m -> S]
  <2>1. a = [k \in 1..m |-> a[k]]
    BY <1>6
  <2>2. QED
    BY <1>6, <2>1
<1>8. ScanRecords(r, s) = [k \in 1..m |-> r.dgrams[s][a[k]]]
  BY <1>1, <1>4, <1>6 DEF ScanRecords, ScanAt
<1>9. QED
  BY <1>1, <1>6, <1>7, <1>8

\* What the scan store has of a stream.
LEMMA ScanStoreRecords ==
  ASSUME NEW r \in Runs, NEW s \in DOMAIN r.dgrams
  PROVE  LET rec == ScanStore(r).records[s] IN
         /\ rec \in Seq(Record) /\ AscendingTimes(rec)
         /\ Len(rec) \in Nat /\ Len(ScanRecords(r, s)) = Len(rec)
         /\ DOMAIN ScanRecords(r, s) = 1..Len(rec)
         /\ \A k \in 1..Len(rec) :
              /\ rec[k].ts = ScanRecords(r, s)[k].ts
              /\ 1 \in rec[k].algs <=> s = 0 /\ ScanRecords(r, s)[k].service = "BeginStep"
<1>0. PICK m \in Nat : \E a \in [1..m -> ScanAt(r, s)] :
           /\ ScanRecords(r, s) = [k \in 1..m |-> r.dgrams[s][a[k]]]
           /\ \A i, j \in 1..m : i < j => a[i] < a[j]
  BY ScanRecordsList
<1>1. PICK a \in [1..m -> ScanAt(r, s)] :
           /\ ScanRecords(r, s) = [k \in 1..m |-> r.dgrams[s][a[k]]]
           /\ \A i, j \in 1..m : i < j => a[i] < a[j]
  BY <1>0
<1>2. PICK g : g = r.dgrams[s]
  OBVIOUS
<1>3. PICK n : n = Len(g)
  OBVIOUS
<1>4. /\ n \in Nat /\ DOMAIN g = 1..n /\ \A i \in 1..n : g[i].ts \in Nat
      /\ \A i, j \in 1..n : i < j => g[i].ts <= g[j].ts
  BY <1>2, <1>3, RunDgrams
<1>5. PICK q : q = ScanRecords(r, s)
  OBVIOUS
<1>6. q = [k \in 1..m |-> g[a[k]]] /\ DOMAIN q = 1..m
  BY <1>1, <1>2, <1>5
<1>7. \A k \in 1..m : a[k] \in 1..n
  <2>1. ScanAt(r, s) \subseteq 1..n
    BY <1>2, <1>4 DEF ScanAt
  <2>2. QED
    BY <2>1
<1>8. \A k \in 1..m : q[k] = g[a[k]] /\ q[k].ts \in Nat
  BY <1>4, <1>6, <1>7
<1>9. \A i, j \in 1..m : i <= j => q[i].ts <= q[j].ts
  <2>1. ASSUME NEW i \in 1..m, NEW j \in 1..m, i <= j
        PROVE  g[a[i]].ts <= g[a[j]].ts
    <3>1. CASE i = j
      BY <1>4, <1>7, <3>1
    <3>2. CASE i < j
      <4>1. a[i] < a[j] /\ a[i] \in 1..n /\ a[j] \in 1..n
        BY <1>1, <1>7, <3>2
      <4>2. QED
        BY <1>4, <4>1
    <3>3. QED
      BY <2>1, <3>1, <3>2
  <2>2. QED
    BY <1>8, <2>1
<1>10. PICK rec : rec = ScanStore(r).records[s]
  OBVIOUS
<1> DEFINE has(k) == IF s = 0 /\ q[k].service = "BeginStep" THEN {1} ELSE {}
<1>11. rec = [k \in 1..m |-> [ts |-> q[k].ts, algs |-> has(k)]]
  BY <1>5, <1>6, <1>10 DEF ScanStore
<1>19. ASSUME NEW k \in 1..m
       PROVE  has(k) \in SUBSET Nat /\ (1 \in has(k) <=> s = 0 /\ q[k].service = "BeginStep")
  OBVIOUS
<1> HIDE DEF has
<1>12. \A k \in 1..m : rec[k] = [ts |-> q[k].ts, algs |-> has(k)]
  BY <1>11
<1>13. \A k \in 1..m : rec[k] \in Record
  <2>1. ASSUME NEW k \in 1..m
        PROVE  rec[k] \in Record
    <3>0. q[k].ts \in Nat
      BY <1>8
    <3>1. has(k) \in SUBSET Nat
      BY <1>19
    <3>2. QED
      <4>1. rec[k] = [ts |-> q[k].ts, algs |-> has(k)]
        BY <1>12, Zenon
      <4>2. PICK x \in Nat : x = q[k].ts
        BY <3>0
      <4>3. PICK y \in SUBSET Nat : y = has(k)
        BY <3>1
      <4>4. [ts |-> x, algs |-> y] \in Record
        BY DEF Record
      <4>5. QED
        BY <4>1, <4>2, <4>3, <4>4, Zenon
  <2>2. QED
    BY <2>1
<1>14. rec \in Seq(Record) /\ Len(rec) = m
  <2>1. rec \in [1..m -> Record]
    BY <1>11, <1>13
  <2>2. QED
    BY <2>1
<1>15. AscendingTimes(rec)
  BY <1>9, <1>11, <1>12 DEF AscendingTimes
<1>16. Len(q) = m
  BY <1>6
<1>17. \A k \in 1..m :
         /\ rec[k].ts = q[k].ts
         /\ 1 \in rec[k].algs <=> s = 0 /\ q[k].service = "BeginStep"
  <2>1. ASSUME NEW k \in 1..m
        PROVE  /\ rec[k].ts = q[k].ts
               /\ 1 \in rec[k].algs <=> s = 0 /\ q[k].service = "BeginStep"
    <3>3. rec[k] = [ts |-> q[k].ts, algs |-> has(k)]
      BY <1>12, Zenon
    <3>4. [ts |-> q[k].ts, algs |-> has(k)].ts = q[k].ts
      OBVIOUS
    <3>5. [ts |-> q[k].ts, algs |-> has(k)].algs = has(k)
      OBVIOUS
    <3>1. rec[k].ts = q[k].ts /\ rec[k].algs = has(k)
      BY <3>3, <3>4, <3>5, Zenon
    <3>2. QED
      BY <1>19, <3>1
  <2>2. QED
    BY <2>1
<1>18. QED
  BY <1>5, <1>6, <1>10, <1>14, <1>15, <1>16, <1>17

LEMMA EventTimesAreNumbers ==
  ASSUME NEW r \in Runs
  PROVE  EventTimes(r) \subseteq Nat
<1>1. SUFFICES ASSUME NEW t \in EventTimes(r)
               PROVE  t \in Nat
  OBVIOUS
<1>2. PICK s \in DOMAIN r.dgrams : \E d \in Range(r.dgrams[s]) : t = d.ts
  BY <1>1 DEF EventTimes
<1>3. PICK i \in DOMAIN r.dgrams[s] : t = r.dgrams[s][i].ts
  BY <1>2 DEF Range
<1>4. QED
  BY <1>3, RunDgrams

LEMMA ScanStoreOK ==
  ASSUME NEW r \in Runs, store = ScanStore(r), query.ts \in Nat, depth \in Nat
  PROVE  StoreOK
<1>1. PICK alg : alg = [tables |-> [s \in {0} |-> {"step_value"}]]
  OBVIOUS
<1>2. store.algs = <<alg>> /\ DOMAIN alg.tables = {0}
  BY <1>1 DEF ScanStore
<1>3. store.algs \in Seq(Range(store.algs)) /\ DOMAIN store.algs = {1} /\ store.algs[1] = alg
  BY <1>2 DEF Range
<1>4. IsFiniteSet({0}) /\ {0} \subseteq Nat
  <2>1. IsFiniteSet({0})
    BY FS_Singleton, Zenon
  <2>2. QED
    BY <2>1
<1>5. DOMAIN store.records = DOMAIN r.dgrams
  BY DEF ScanStore
<1>6. ASSUME NEW s \in DOMAIN store.records
      PROVE  store.records[s] \in Seq(Record) /\ AscendingTimes(store.records[s])
  BY <1>5, <1>6, ScanStoreRecords
<1>7. \A i \in DOMAIN store.algs :
           IsFiniteSet(DOMAIN store.algs[i].tables) /\ DOMAIN store.algs[i].tables \subseteq Nat
  BY <1>2, <1>3, <1>4
<1>8. QED
  BY <1>3, <1>6, <1>7 DEF StoreOK

LEMMA GivenStoreOK ==
  ASSUME store \in EnvStores, query.ts \in Nat, depth \in Nat
  PROVE  StoreOK
  BY StoresAssumption DEF StoreOK, Record

LEMMA LookInit ==
  /\ AsOfInit => LookInv
  /\ StepInit => LookInv
<1>1. ASSUME AsOfInit
      PROVE  LookInv
  <2>1. store \in EnvStores /\ query.ts \in Nat /\ depth \in Nat
    BY <1>1, LookupsAssumption DEF AsOfInit
  <2>2. StoreOK
    BY <2>1, GivenStoreOK
  <2>3. QED
    BY <1>1, <2>2 DEF LookInv, AsOfInit
<1>2. ASSUME StepInit
      PROVE  LookInv
  <2>1. CASE AsOfInit
    BY <1>1, <2>1
  <2>2. CASE ~AsOfInit
    <3>1. /\ run \in Runs /\ store = ScanStore(run)
          /\ query \in [var : {"step_value"}, ts : EventTimes(run)] /\ depth \in Depths
          /\ left = <<>> /\ p = None /\ status = "called" /\ answer = None
      BY <1>2, <2>2 DEF StepInit
    <3>2. query.ts \in Nat /\ depth \in Nat
      BY <3>1, EventTimesAreNumbers, LookupsAssumption
    <3>3. StoreOK
      BY <3>1, <3>2, ScanStoreOK
    <3>4. QED
      BY <3>1, <3>3 DEF LookInv
  <2>3. QED
    BY <2>1, <2>2
<1>3. QED
  BY <1>1, <1>2

\* For any stores, tables, queries and search depths, and for the scan store
\* of any run, EnvStore.as_of answers what feeding it the records in order
\* would, or raises where the stream that would answer lacks the variable in
\* its own table.
THEOREM AlwaysAsOfIsReplay == StepSpec => []AsOfIsReplay
<1>1. StepInit => LookInv
  BY LookInit
<1>2. ASSUME LookInv, [StepNext]_<<asOfVars, stepVars>>
      PROVE  LookInv'
  <2>1. AsOfNext \/ UNCHANGED asOfVars
    BY <1>2 DEF StepNext, AskScan, SegConfigs, WalkTransition, LeaveFront, GroupScanRecords,
                LayOver, Resolve
  <2>2. QED
    BY <1>2, <2>1, LookNext, LookStutters
<1>3. LookInv => AsOfIsReplay
  BY AnsweredIsReplay
<1>4. QED
  BY <1>1, <1>2, <1>3, PTL DEF StepSpec

-----------------------------------------------------------------------------
(* The configuration of a segment, as a function of the run                *)

\* The streams that declare a segment.
Declaring(r) == {s \in DOMAIN r.segs : r.segs[s] # {}}

StepsOf(r, s) == {i \in DOMAIN r.dgrams[s] : r.dgrams[s][i].service = "BeginStep"}

\* How many transitions a front has before its first event.
FrontEnd(r, s) ==
    Cardinality({i \in 1..r.front[s] : \A j \in 1..i : r.dgrams[s][j].service # "L1Accept"})

\* A configuration has of a segment what the first n dgrams of its stream
\* wrote last.
AtWrite(r, config, s, seg, n) ==
    \/ /\ seg \notin DOMAIN config
       /\ \A i \in 1..n : seg \notin r.dgrams[s][i].segs
    \/ /\ seg \in DOMAIN config
       /\ \E i \in 1..n : /\ seg \in r.dgrams[s][i].segs
                          /\ config[seg] = r.dgrams[s][i].ts
                          /\ \A j \in 1..n : seg \in r.dgrams[s][j].segs => j <= i

\* A configuration has of a segment what the last step of its stream that
\* began by t and carries it wrote, or else what the front did.
AtStep(r, config, s, seg, t) ==
    \/ /\ seg \in DOMAIN config
       /\ \E i \in StepsOf(r, s) :
            /\ seg \in r.dgrams[s][i].segs /\ r.dgrams[s][i].ts <= t
            /\ config[seg] = r.dgrams[s][i].ts
            /\ \A j \in StepsOf(r, s) :
                 seg \in r.dgrams[s][j].segs /\ r.dgrams[s][j].ts <= t => j <= i
    \/ /\ \A i \in StepsOf(r, s) : seg \in r.dgrams[s][i].segs => r.dgrams[s][i].ts > t
       /\ AtWrite(r, config, s, seg, FrontEnd(r, s))

LEMMA FrontEndIs ==
  ASSUME NEW r \in Runs, NEW s \in DOMAIN r.dgrams
  PROVE  /\ FrontEnd(r, s) \in 1..r.front[s] /\ r.front[s] \in 1..Len(r.dgrams[s])
         /\ \A i \in 1..FrontEnd(r, s) : r.dgrams[s][i].service # "L1Accept"
         /\ FrontEnd(r, s) < r.front[s] =>
              r.dgrams[s][FrontEnd(r, s) + 1].service = "L1Accept"
<1>1. PICK g : g = r.dgrams[s]
  OBVIOUS
<1>2. PICK n : n = r.front[s]
  OBVIOUS
<1>3. n \in 1..Len(g) /\ Len(g) \in Nat /\ n \in Nat /\ g[1].service = "Configure"
  <2>1. n \in 1..Len(g) /\ Len(g) \in Nat
    BY <1>1, <1>2, RunDgrams
  <2>2. 1 \in 1..Len(g)
    BY <2>1
  <2>3. QED
    BY <1>1, <2>1, <2>2, RunDgrams
<1> DEFINE T == {i \in 1..n : \A j \in 1..i : g[j].service # "L1Accept"}
<1>4. ASSUME NEW i \in T, NEW j \in 1..n, j <= i
      PROVE  j \in T
  <2>1. \A k \in 1..j : k \in 1..i
    BY <1>3, <1>4
  <2>2. QED
    BY <2>1
<1>5. T \subseteq 1..n
  OBVIOUS
<1>6. PICK c : c = Cardinality(T)
  OBVIOUS
<1>7. c \in 0..n /\ T = 1..c
  BY <1>3, <1>4, <1>5, <1>6, FrontIsInterval
<1>8. FrontEnd(r, s) = c
  BY <1>1, <1>2, <1>6 DEF FrontEnd
<1>9. 1 \in T
  <2>1. \A j \in 1..1 : j = 1
    OBVIOUS
  <2>2. QED
    BY <1>3, <2>1
<1>10. \A i \in 1..c : g[i].service # "L1Accept"
  <2>1. ASSUME NEW i \in 1..c
        PROVE  g[i].service # "L1Accept"
    <3>1. i \in T /\ i \in 1..i
      BY <1>7
    <3>2. QED
      BY <3>1
  <2>2. QED
    BY <2>1
<1>11. ASSUME c < n
       PROVE  g[c + 1].service = "L1Accept"
  <2>0. c + 1 \in 1..n /\ c + 1 \notin 1..c
    BY <1>3, <1>7, <1>11
  <2>1. c + 1 \notin T
    BY <1>7, <2>0, Zenon
  <2>2. PICK j \in 1..c + 1 : g[j].service = "L1Accept"
    BY <2>0, <2>1
  <2>3. j \in 1..c \/ j = c + 1
    BY <1>7
  <2>4. QED
    BY <1>10, <2>2, <2>3
<1> HIDE DEF T
<1>12. c \in 1..n
  BY <1>7, <1>9
<1>13. QED
  BY <1>1, <1>2, <1>3, <1>8, <1>10, <1>11, <1>12

\* The next dgram of the walk.
LEMMA WriteNext ==
  ASSUME NEW r, NEW config, NEW s, NEW seg, NEW n \in Nat,
         AtWrite(r, config, s, seg, n)
  PROVE  AtWrite(r, Overlaid(config, r.dgrams[s][n + 1].segs, r.dgrams[s][n + 1].ts), s, seg, n + 1)
<1>1. PICK g : g = r.dgrams[s]
  OBVIOUS
<1>2. PICK c : c = Overlaid(config, g[n + 1].segs, g[n + 1].ts)
  OBVIOUS
<1>3. /\ DOMAIN c = g[n + 1].segs \cup DOMAIN config
      /\ \A x \in DOMAIN c : c[x] = IF x \in g[n + 1].segs THEN g[n + 1].ts ELSE config[x]
  BY <1>2 DEF Overlaid
<1>4. n + 1 \in 1..n + 1 /\ \A i \in 1..n + 1 : i = n + 1 \/ i \in 1..n
  OBVIOUS
<1>5. \A i \in 1..n + 1 : i <= n + 1
  OBVIOUS
<1>6. CASE seg \in g[n + 1].segs
  <2>1. seg \in DOMAIN c /\ c[seg] = g[n + 1].ts
    BY <1>3, <1>6
  <2>2. QED
    BY <1>1, <1>2, <1>4, <1>5, <1>6, <2>1 DEF AtWrite
<1>7. CASE seg \notin g[n + 1].segs
  <2>1. (seg \in DOMAIN c <=> seg \in DOMAIN config) /\ (seg \in DOMAIN c => c[seg] = config[seg])
    BY <1>3, <1>7
  <2>2. CASE seg \notin DOMAIN config /\ \A i \in 1..n : seg \notin g[i].segs
    BY <1>1, <1>2, <1>4, <1>7, <2>1, <2>2 DEF AtWrite
  <2>3. ASSUME seg \in DOMAIN config,
               NEW i \in 1..n, seg \in g[i].segs, config[seg] = g[i].ts,
               \A j \in 1..n : seg \in g[j].segs => j <= i
        PROVE  AtWrite(r, c, s, seg, n + 1)
    <3>1. i \in 1..n + 1
      OBVIOUS
    <3>2. \A j \in 1..n + 1 : seg \in g[j].segs => j <= i
      BY <1>4, <1>7, <2>3
    <3>3. QED
      BY <1>1, <2>1, <2>3, <3>1, <3>2 DEF AtWrite
  <2>4. QED
    BY <1>1, <1>2, <2>2, <2>3 DEF AtWrite
<1>8. QED
  BY <1>6, <1>7

\* Dgrams of another stream leave a segment alone.
LEMMA WriteElsewhere ==
  ASSUME NEW r, NEW config, NEW s, NEW seg, NEW n, NEW segs, NEW ts,
         seg \notin segs, AtWrite(r, config, s, seg, n)
  PROVE  AtWrite(r, Overlaid(config, segs, ts), s, seg, n)
<1>1. PICK c : c = Overlaid(config, segs, ts)
  OBVIOUS
<1>2. /\ DOMAIN c = segs \cup DOMAIN config
      /\ \A x \in DOMAIN c : c[x] = IF x \in segs THEN ts ELSE config[x]
  BY <1>1 DEF Overlaid
<1>3. (seg \in DOMAIN c <=> seg \in DOMAIN config) /\ (seg \in DOMAIN c => c[seg] = config[seg])
  BY <1>2
<1>4. QED
  BY <1>1, <1>3 DEF AtWrite

LEMMA StepPositions ==
  ASSUME NEW r \in Runs, NEW s \in DOMAIN r.dgrams
  PROVE  /\ StepsOf(r, s) \subseteq 1..Len(r.dgrams[s]) /\ Len(r.dgrams[s]) \in Nat
         /\ \A i \in StepsOf(r, s) : r.dgrams[s][i].ts \in Nat
         /\ \A i, j \in StepsOf(r, s) : i <= j <=> r.dgrams[s][i].ts <= r.dgrams[s][j].ts
<1>1. PICK g : g = r.dgrams[s]
  OBVIOUS
<1>2. /\ Len(g) \in Nat /\ DOMAIN g = 1..Len(g)
      /\ \A i \in 1..Len(g) : g[i].ts \in Nat
      /\ \A i, j \in 1..Len(g) : i < j =>
           g[i].ts <= g[j].ts /\ (g[i].ts = g[j].ts => g[i].service = "L1Accept")
  BY <1>1, RunDgrams
<1>3. \A i \in StepsOf(r, s) : i \in 1..Len(g) /\ g[i].service = "BeginStep"
  BY <1>1, <1>2 DEF StepsOf
<1>4. \A i, j \in StepsOf(r, s) : i < j => g[i].ts < g[j].ts
  <2>1. ASSUME NEW i \in StepsOf(r, s), NEW j \in StepsOf(r, s), i < j
        PROVE  g[i].ts < g[j].ts
    <3>1. i \in 1..Len(g) /\ j \in 1..Len(g) /\ g[i].service # "L1Accept"
      BY <1>3, <2>1
    <3>2. g[i].ts \in Nat /\ g[j].ts \in Nat /\ g[i].ts <= g[j].ts /\ g[i].ts # g[j].ts
      BY <1>2, <2>1, <3>1
    <3>3. QED
      BY <3>2
  <2>2. QED
    BY <2>1
<1>5. ASSUME NEW i \in StepsOf(r, s), NEW j \in StepsOf(r, s)
      PROVE  i <= j <=> g[i].ts <= g[j].ts
  <2>1. i \in Nat /\ j \in Nat /\ g[i].ts \in Nat /\ g[j].ts \in Nat
    BY <1>2, <1>3
  <2>2. i < j \/ j < i \/ i = j
    BY <2>1
  <2>3. CASE i < j
    BY <1>4, <2>1, <2>3
  <2>4. CASE j < i
    BY <1>4, <2>1, <2>4
  <2>5. CASE i = j
    BY <2>1, <2>5
  <2>6. QED
    BY <2>2, <2>3, <2>4, <2>5
<1>6. QED
  BY <1>1, <1>2, <1>3, <1>5

\* From one time to the next at which some stream tells of a step.
LEMMA StepNoMore ==
  ASSUME NEW r \in Runs, NEW s \in DOMAIN r.dgrams, NEW config, NEW seg, NEW t \in Int, NEW u \in Int,
         t < u, AtStep(r, config, s, seg, t),
         \A i \in StepsOf(r, s) : seg \in r.dgrams[s][i].segs =>
             r.dgrams[s][i].ts <= t \/ r.dgrams[s][i].ts > u
  PROVE  AtStep(r, config, s, seg, u)
<1>1. PICK g : g = r.dgrams[s]
  OBVIOUS
<1>2. \A i \in StepsOf(r, s) : g[i].ts \in Nat
  BY <1>1, StepPositions
<1>3. \A i \in StepsOf(r, s) : seg \in g[i].segs => (g[i].ts <= t <=> g[i].ts <= u)
  BY <1>1, <1>2
<1>4. \A i \in StepsOf(r, s) : seg \in g[i].segs => (g[i].ts > t <=> g[i].ts > u)
  BY <1>1, <1>2
<1>5. CASE /\ seg \in DOMAIN config
           /\ \E i \in StepsOf(r, s) :
                /\ seg \in g[i].segs /\ g[i].ts <= t /\ config[seg] = g[i].ts
                /\ \A j \in StepsOf(r, s) : seg \in g[j].segs /\ g[j].ts <= t => j <= i
  <2>1. PICK i \in StepsOf(r, s) :
                /\ seg \in g[i].segs /\ g[i].ts <= t /\ config[seg] = g[i].ts
                /\ \A j \in StepsOf(r, s) : seg \in g[j].segs /\ g[j].ts <= t => j <= i
    BY <1>5
  <2>2. g[i].ts <= u /\ \A j \in StepsOf(r, s) : seg \in g[j].segs /\ g[j].ts <= u => j <= i
    BY <1>3, <2>1
  <2>3. QED
    BY <1>1, <1>5, <2>1, <2>2 DEF AtStep
<1>6. CASE /\ \A i \in StepsOf(r, s) : seg \in g[i].segs => g[i].ts > t
           /\ AtWrite(r, config, s, seg, FrontEnd(r, s))
  <2>1. \A i \in StepsOf(r, s) : seg \in g[i].segs => g[i].ts > u
    BY <1>4, <1>6
  <2>2. QED
    BY <1>1, <1>6, <2>1 DEF AtStep
<1>7. QED
  BY <1>1, <1>5, <1>6 DEF AtStep

LEMMA StepLaidOver ==
  ASSUME NEW r \in Runs, NEW s \in DOMAIN r.dgrams, NEW config, NEW seg, NEW t \in Int, NEW u \in Int,
         t < u, AtStep(r, config, s, seg, t), NEW written,
         \A i \in StepsOf(r, s) : r.dgrams[s][i].ts <= t \/ r.dgrams[s][i].ts >= u,
         seg \in written <=>
             \E i \in StepsOf(r, s) : seg \in r.dgrams[s][i].segs /\ r.dgrams[s][i].ts = u
  PROVE  AtStep(r, Overlaid(config, written, u), s, seg, u)
<1>1. PICK g : g = r.dgrams[s]
  OBVIOUS
<1>2. /\ \A i \in StepsOf(r, s) : g[i].ts \in Nat
      /\ \A i, j \in StepsOf(r, s) : i <= j <=> g[i].ts <= g[j].ts
  BY <1>1, StepPositions
<1>3. PICK c : c = Overlaid(config, written, u)
  OBVIOUS
<1>4. /\ DOMAIN c = written \cup DOMAIN config
      /\ \A x \in DOMAIN c : c[x] = IF x \in written THEN u ELSE config[x]
  BY <1>3 DEF Overlaid
<1>5. CASE seg \in written
  <2>1. PICK i \in StepsOf(r, s) : seg \in g[i].segs /\ g[i].ts = u
    BY <1>1, <1>5
  <2>2. seg \in DOMAIN c /\ c[seg] = u
    BY <1>4, <1>5
  <2>3. \A j \in StepsOf(r, s) : g[j].ts <= u => j <= i
    BY <1>2, <2>1
  <2>4. g[i].ts <= u
    BY <2>1
  <2>5. QED
    BY <1>1, <1>3, <2>1, <2>2, <2>3, <2>4 DEF AtStep
<1>6. CASE seg \notin written
  <2>1. (seg \in DOMAIN c <=> seg \in DOMAIN config) /\ (seg \in DOMAIN c => c[seg] = config[seg])
    BY <1>4, <1>6
  <2>2. AtStep(r, c, s, seg, t)
    BY <2>1 DEF AtStep, AtWrite
  <2>3. \A i \in StepsOf(r, s) : seg \in g[i].segs => g[i].ts <= t \/ g[i].ts > u
    BY <1>1, <1>2, <1>6
  <2>4. QED
    BY <1>1, <1>3, <2>2, <2>3, StepNoMore
<1>7. QED
  BY <1>5, <1>6

\* The segments whose configuration the BeginSteps at one time carry.
WrittenAt(r, t) ==
    {x \in UNION {r.segs[s] : s \in Declaring(r)} :
        \E s \in Declaring(r) : \E i \in StepsOf(r, s) :
            x \in r.dgrams[s][i].segs /\ r.dgrams[s][i].ts = t}

LEMMA WrittenByItsStream ==
  ASSUME NEW r \in Runs, NEW s \in Declaring(r), NEW seg \in r.segs[s], NEW t
  PROVE  seg \in WrittenAt(r, t) <=>
             \E i \in StepsOf(r, s) : seg \in r.dgrams[s][i].segs /\ r.dgrams[s][i].ts = t
<1>1. s \in DOMAIN r.dgrams /\ s \in DOMAIN r.segs /\ DOMAIN r.segs = DOMAIN r.dgrams
  BY StepRunsAssumption DEF Declaring
<1>2. ASSUME NEW z \in Declaring(r), NEW i \in StepsOf(r, z), seg \in r.dgrams[z][i].segs
      PROVE  z = s
  <2>1. z \in DOMAIN r.dgrams /\ z \in DOMAIN r.segs
    BY StepRunsAssumption DEF Declaring
  <2>2. i \in 1..Len(r.dgrams[z])
    BY <2>1, StepPositions
  <2>3. r.dgrams[z][i].segs \subseteq r.segs[z]
    BY <2>1, <2>2, RunDgrams
  <2>4. seg \in r.segs[s] \cap r.segs[z]
    BY <1>2, <2>3
  <2>5. QED
    BY <1>1, <2>1, <2>4, StepRunsAssumption
<1>3. seg \in UNION {r.segs[z] : z \in Declaring(r)}
  OBVIOUS
<1>4. QED
  BY <1>2, <1>3 DEF WrittenAt

LEMMA MaxIs ==
  ASSUME NEW T, T \subseteq Int, NEW x \in T, \A y \in T : y <= x
  PROVE  Max(T) = x
<1>1. \A z \in T : (\A y \in T : z >= y) => z = x
  OBVIOUS
<1>2. \A y \in T : x >= y
  OBVIOUS
<1>3. QED
  BY <1>1, <1>2 DEF Max

\* What is carried before an event, in a regular run.
LEMMA CarriedBefore ==
  ASSUME run \in Runs, Regular, NEW s \in DOMAIN run.dgrams, NEW seg,
         NEW e \in Transitions(s, "L1Accept")
  PROVE  LET g == run.dgrams[s]
             q == g[e].ts
         IN /\ Writes(s, seg, q) = {i \in 1..Len(g) : seg \in g[i].segs /\ g[i].ts <= q}
            /\ \A i \in 1..Len(g) : seg \in g[i].segs => i = 1 \/ i \in StepsOf(run, s)
            /\ e \in 1..Len(g) /\ q \in Nat
            /\ \A i \in 1..Len(g) : i < e => g[i].ts <= q
            /\ \A i \in StepsOf(run, s) : \E j \in StepsOf(run, s) : j <= i /\ g[j].ts <= q
            /\ \A i \in 1..FrontEnd(run, s) : i < e
<1>1. PICK g : g = run.dgrams[s]
  OBVIOUS
<1>2. PICK n \in Nat : n = Len(g)
  BY <1>1, RunDgrams
<1>3. /\ DOMAIN g = 1..n
      /\ \A i \in 1..n : g[i].ts \in Nat /\ (g[i].service = "Configure" <=> i = 1)
      /\ \A i, j \in 1..n : i < j =>
           /\ g[i].ts <= g[j].ts
           /\ g[i].ts = g[j].ts => g[i].service = "L1Accept" /\ g[j].service = "L1Accept"
  BY <1>1, <1>2, RunDgrams
<1>4. e \in 1..n /\ g[e].service = "L1Accept" /\ g[e].ts \in Nat
  BY <1>1, <1>3 DEF Transitions
<1>5. PICK q \in Nat : q = g[e].ts
  BY <1>4
<1>6. \A i \in 1..n : g[i].segs # {} => g[i].service \in {"Configure", "BeginStep"}
  <2>1. \A d \in Range(g) : d.segs # {} => d.service \in {"Configure", "BeginStep"}
    BY <1>1 DEF Regular
  <2>2. \A i \in 1..n : g[i] \in Range(g)
    BY <1>3 DEF Range
  <2>3. QED
    BY <2>1, <2>2
<1>7. ASSUME NEW i \in 1..n, seg \in g[i].segs
      PROVE  (i = 1 \/ i \in StepsOf(run, s)) /\ g[i].service # "L1Accept"
  <2>1. g[i].service \in {"Configure", "BeginStep"}
    BY <1>6, <1>7
  <2>2. QED
    BY <1>1, <1>3, <2>1 DEF StepsOf
<1>8. \A i \in 1..n : i < e => g[i].ts <= q
  BY <1>3, <1>4, <1>5
<1>9. ASSUME NEW i \in 1..n, seg \in g[i].segs, g[i].ts <= q
      PROVE  i < e
  <2>1. i # e
    BY <1>4, <1>7, <1>9
  <2>2. ASSUME e < i
        PROVE  FALSE
    <3>1. g[e].ts <= g[i].ts /\ g[e].ts # g[i].ts
      BY <1>3, <1>4, <1>7, <1>9, <2>2
    <3>2. QED
      BY <1>3, <1>4, <1>5, <1>9, <3>1
  <2>3. QED
    BY <1>4, <2>1, <2>2
<1>10. ASSUME NEW i \in 1..n, seg \in g[i].segs, NEW j \in 1..n, j > i, g[j].ts = q
       PROVE  g[i].ts <= q
  BY <1>3, <1>10
<1>11. Writes(s, seg, q) = {i \in 1..n : seg \in g[i].segs /\ g[i].ts <= q}
  <2>1. Writes(s, seg, q) =
          {i \in 1..n : seg \in g[i].segs /\
                        \E j \in Transitions(s, "L1Accept") : j > i /\ g[j].ts = q}
    BY <1>1, <1>3 DEF Writes
  <2>2. \A j \in Transitions(s, "L1Accept") : j \in 1..n
    BY <1>1, <1>3 DEF Transitions
  <2>3. ASSUME NEW i \in 1..n, seg \in g[i].segs
        PROVE  (\E j \in Transitions(s, "L1Accept") : j > i /\ g[j].ts = q) <=> g[i].ts <= q
    <3>1. ASSUME g[i].ts <= q
          PROVE  e > i /\ g[e].ts = q
      <4>1. i < e
        BY <1>9, <2>3, <3>1
      <4>2. QED
        BY <1>5, <4>1
    <3>2. ASSUME NEW j \in Transitions(s, "L1Accept"), j > i, g[j].ts = q
          PROVE  g[i].ts <= q
      BY <1>10, <2>2, <2>3, <3>2
    <3>3. QED
      BY <3>1, <3>2
  <2>4. QED
    BY <2>1, <2>3
<1>12. \A i \in StepsOf(run, s) : \E j \in StepsOf(run, s) : j <= i /\ g[j].ts <= q
  <2>1. Transitions(s, "BeginStep") = StepsOf(run, s)
    BY DEF Transitions, StepsOf
  <2>2. \A i \in StepsOf(run, s) : \E j \in StepsOf(run, s) :
          j <= i /\ \A x \in Transitions(s, "L1Accept") : j < x
    BY <2>1 DEF Regular
  <2>3. StepsOf(run, s) \subseteq 1..n
    BY <1>1, <1>2, StepPositions
  <2>4. QED
    BY <1>8, <2>2, <2>3
<1>13. ASSUME NEW i \in 1..FrontEnd(run, s)
       PROVE  i < e
  <2>1. /\ FrontEnd(run, s) \in 1..run.front[s] /\ run.front[s] \in 1..n
        /\ \A k \in 1..FrontEnd(run, s) : g[k].service # "L1Accept"
    BY <1>1, <1>2, FrontEndIs
  <2>2. ASSUME e <= i
        PROVE  FALSE
    <3>1. e \in 1..FrontEnd(run, s)
      BY <1>4, <2>1, <2>2
    <3>2. QED
      BY <1>4, <2>1, <3>1
  <2>3. QED
    BY <1>4, <2>1, <2>2
<1>14. QED
  BY <1>1, <1>2, <1>4, <1>5, <1>7, <1>8, <1>11, <1>12, <1>13

\* A configuration has of a segment what was last written before an event at q.
ActiveIn(config, s, seg, q) ==
    IF Writes(s, seg, q) = {}
    THEN seg \notin DOMAIN config
    ELSE seg \in DOMAIN config /\ config[seg] = run.dgrams[s][Max(Writes(s, seg, q))].ts

\* The same steps of the stream have begun at q and at t.
SameSteps(s, q, t) ==
    \A i \in StepsOf(run, s) : run.dgrams[s][i].ts <= q <=> run.dgrams[s][i].ts <= t

\* What a configuration has of a segment after the last step before an event
\* is what was last written before the event.
LEMMA StepIsWritten ==
  ASSUME run \in Runs, Regular, NEW s \in DOMAIN run.dgrams, NEW seg,
         NEW e \in Transitions(s, "L1Accept"), NEW config, NEW t \in Int,
         AtStep(run, config, s, seg, t), SameSteps(s, run.dgrams[s][e].ts, t)
  PROVE  ActiveIn(config, s, seg, run.dgrams[s][e].ts)
<1>1. PICK g : g = run.dgrams[s]
  OBVIOUS
<1>2. PICK n \in Nat : n = Len(g)
  BY <1>1, RunDgrams
<1>3. PICK q : q = g[e].ts
  OBVIOUS
<1>4. PICK B : B = StepsOf(run, s)
  OBVIOUS
<1>5. PICK W : W = Writes(s, seg, q)
  OBVIOUS
<1>6. PICK f : f = FrontEnd(run, s)
  OBVIOUS
<1>0. /\ Writes(s, seg, run.dgrams[s][e].ts) =
           {i \in 1..Len(run.dgrams[s]) :
               seg \in run.dgrams[s][i].segs /\ run.dgrams[s][i].ts <= run.dgrams[s][e].ts}
      /\ \A i \in 1..Len(run.dgrams[s]) :
           seg \in run.dgrams[s][i].segs => i = 1 \/ i \in StepsOf(run, s)
      /\ e \in 1..Len(run.dgrams[s]) /\ run.dgrams[s][e].ts \in Nat
      /\ \A i \in 1..Len(run.dgrams[s]) : i < e => run.dgrams[s][i].ts <= run.dgrams[s][e].ts
      /\ \A i \in 1..FrontEnd(run, s) : i < e
  BY CarriedBefore, Zenon
<1>7. /\ W = {i \in 1..n : seg \in g[i].segs /\ g[i].ts <= q}
      /\ \A i \in 1..n : seg \in g[i].segs => i = 1 \/ i \in B
      /\ e \in 1..n /\ q \in Nat
      /\ \A i \in 1..n : i < e => g[i].ts <= q
      /\ \A i \in 1..f : i < e
  BY <1>0, <1>1, <1>2, <1>3, <1>4, <1>5, <1>6
<1>8. /\ B \subseteq 1..n /\ \A i \in B : g[i].ts \in Nat
      /\ \A i \in B : g[i].ts <= q <=> g[i].ts <= t
  <2>1. B \subseteq 1..n /\ \A i \in B : g[i].ts \in Nat
    BY <1>1, <1>2, <1>4, StepPositions
  <2>2. \A i \in B : g[i].ts <= q <=> g[i].ts <= t
    BY <1>1, <1>3, <1>4 DEF SameSteps
  <2>3. QED
    BY <2>1, <2>2
<1>9. f \in 1..n
  <2>1. f \in 1..run.front[s] /\ run.front[s] \in 1..n
    BY <1>1, <1>2, <1>6, FrontEndIs
  <2>2. QED
    BY <2>1
<1>10. ASSUME NEW i \in W, \A j \in W : j <= i, seg \in DOMAIN config, config[seg] = g[i].ts
       PROVE  /\ W # {} /\ seg \in DOMAIN config /\ config[seg] = g[Max(W)].ts
  <2>1. Max(W) = i
    BY <1>7, <1>10, MaxIs, W \subseteq Int
  <2>2. QED
    BY <1>10, <2>1
<1>11. ASSUME seg \in DOMAIN config,
              NEW i \in B, seg \in g[i].segs, g[i].ts <= t, config[seg] = g[i].ts,
              \A j \in B : seg \in g[j].segs /\ g[j].ts <= t => j <= i
       PROVE  i \in W /\ \A j \in W : j <= i
  <2>1. i \in W
    BY <1>7, <1>8, <1>11
  <2>2. ASSUME NEW j \in W
        PROVE  j <= i
    <3>1. j \in 1..n /\ seg \in g[j].segs /\ g[j].ts <= q /\ (j = 1 \/ j \in B)
      BY <1>7
    <3>2. CASE j = 1
      BY <1>8, <3>2
    <3>3. CASE j \in B
      BY <1>8, <1>11, <3>1, <3>3
    <3>4. QED
      BY <3>1, <3>2, <3>3
  <2>3. QED
    BY <2>1, <2>2
<1>12. ASSUME \A i \in B : seg \in g[i].segs => g[i].ts > t
       PROVE  /\ \A i \in W : i = 1
              /\ \A i \in 1..f : seg \in g[i].segs => i \in W
  <2>1. \A i \in B : seg \in g[i].segs => ~ (g[i].ts <= q)
    BY <1>8, <1>12
  <2>2. \A i \in W : i = 1
    BY <1>7, <2>1
  <2>3. \A i \in 1..f : i \in 1..n
    BY <1>9
  <2>4. \A i \in 1..f : g[i].ts <= q
    BY <1>7, <2>3
  <2>5. QED
    BY <1>7, <2>2, <2>3, <2>4
<1>13. CASE /\ seg \in DOMAIN config
            /\ \E i \in B :
                 /\ seg \in g[i].segs /\ g[i].ts <= t /\ config[seg] = g[i].ts
                 /\ \A j \in B : seg \in g[j].segs /\ g[j].ts <= t => j <= i
  <2>1. \E i \in W : (\A j \in W : j <= i) /\ config[seg] = g[i].ts
    BY <1>11, <1>13
  <2>2. W # {} /\ seg \in DOMAIN config /\ config[seg] = g[Max(W)].ts
    BY <1>10, <1>13, <2>1
  <2>3. QED
    BY <1>1, <1>3, <1>5, <2>2 DEF ActiveIn
<1>14. CASE /\ \A i \in B : seg \in g[i].segs => g[i].ts > t
            /\ AtWrite(run, config, s, seg, f)
  <2>1. /\ \A i \in W : i = 1
        /\ \A i \in 1..f : seg \in g[i].segs => i \in W
    BY <1>12, <1>14
  <2>2. CASE seg \notin DOMAIN config /\ \A i \in 1..f : seg \notin g[i].segs
    <3>1. W = {}
      <4>1. 1 \in 1..f
        BY <1>9
      <4>2. \A i \in W : seg \in g[i].segs /\ i = 1
        BY <1>7, <2>1
      <4>3. QED
        BY <2>2, <4>1, <4>2
    <3>2. QED
      BY <1>3, <1>1, <1>5, <2>2, <3>1 DEF ActiveIn
  <2>3. CASE /\ seg \in DOMAIN config
             /\ \E i \in 1..f : seg \in g[i].segs /\ config[seg] = g[i].ts
    <3>1. PICK i \in 1..f : seg \in g[i].segs /\ config[seg] = g[i].ts
      BY <2>3
    <3>2. i \in W /\ \A j \in W : j = i
      BY <2>1, <3>1
    <3>3. \A j \in W : j <= i
      BY <1>7, <3>2
    <3>4. W # {} /\ seg \in DOMAIN config /\ config[seg] = g[Max(W)].ts
      BY <1>10, <2>3, <3>1, <3>2, <3>3
    <3>5. QED
      BY <1>1, <1>3, <1>5, <3>4 DEF ActiveIn
  <2>4. QED
    BY <1>1, <1>14, <2>2, <2>3 DEF AtWrite
<1>15. QED
  BY <1>1, <1>4, <1>6, <1>13, <1>14 DEF AtStep

-----------------------------------------------------------------------------
(* The walk of the fronts                                                  *)

\* The streams of the detector, and their segments, are apart.
LEMMA DeclaringIs ==
  ASSUME NEW r \in Runs
  PROVE  /\ DOMAIN r.segs = DOMAIN r.dgrams /\ 0 \in DOMAIN r.dgrams
         /\ Declaring(r) \subseteq DOMAIN r.dgrams /\ Declaring(r) \subseteq Nat
         /\ IsFiniteSet(Declaring(r)) /\ Declaring(r) # {}
         /\ \A s, z \in Declaring(r) : s # z => r.segs[s] \cap r.segs[z] = {}
<1>1. /\ DOMAIN r.segs = DOMAIN r.dgrams /\ 0 \in DOMAIN r.dgrams
      /\ DOMAIN r.dgrams \subseteq Nat /\ IsFiniteSet(DOMAIN r.dgrams)
      /\ \E s \in DOMAIN r.segs : r.segs[s] # {}
      /\ \A s, z \in DOMAIN r.segs : s # z => r.segs[s] \cap r.segs[z] = {}
  BY StepRunsAssumption, Zenon
<1>2. Declaring(r) \in SUBSET (DOMAIN r.dgrams)
  BY <1>1 DEF Declaring
<1>3. IsFiniteSet(Declaring(r))
  BY <1>1, <1>2, FS_Subset
<1>4. Declaring(r) \subseteq Nat /\ Declaring(r) # {}
  BY <1>1, <1>2 DEF Declaring
<1>5. QED
  BY <1>1, <1>2, <1>3, <1>4

\* They are walked once each.
LEMMA DeclaringList ==
  ASSUME NEW r \in Runs, NEW o, o = Ascending(Declaring(r))
  PROVE  /\ Len(o) \in Nat /\ o \in Seq(Nat) /\ DOMAIN o = 1..Len(o)
         /\ \A k \in 1..Len(o) : o[k] \in Declaring(r) /\ o[k] \in DOMAIN r.dgrams
         /\ \A j, k \in 1..Len(o) : j # k => o[j] # o[k]
         /\ \A s \in Declaring(r) : \E k \in 1..Len(o) : o[k] = s
<1>1. PICK S : S = Declaring(r)
  OBVIOUS
<1>2. S \subseteq Int /\ S \subseteq Nat /\ S \subseteq DOMAIN r.dgrams /\ IsFiniteSet(S)
  BY <1>1, DeclaringIs
<1>3. PICK n : n = Cardinality(S)
  OBVIOUS
<1>4. /\ Len(o) = n /\ n \in Nat /\ DOMAIN o = 1..n
      /\ \A k \in 1..n : o[k] \in S
      /\ \A i, j \in 1..n : i < j => o[i] < o[j]
      /\ \A x \in S : \E k \in 1..n : o[k] = x
      /\ o \in Seq(S)
  BY <1>1, <1>2, <1>3, AscendingLists
<1>5. \A k \in 1..n : o[k] \in Nat
  BY <1>2, <1>4
<1>6. \A j, k \in 1..n : j # k => o[j] # o[k]
  <2>1. ASSUME NEW j \in 1..n, NEW k \in 1..n, j # k
        PROVE  o[j] # o[k]
    <3>1. j < k \/ k < j
      BY <2>1
    <3>2. o[j] < o[k] \/ o[k] < o[j]
      BY <1>4, <3>1
    <3>3. o[j] \in Nat /\ o[k] \in Nat
      BY <1>5
    <3>4. QED
      BY <3>2, <3>3
  <2>2. QED
    BY <2>1
<1>7. o \in Seq(Nat)
  <2>1. o = [k \in 1..n |-> o[k]]
    BY <1>4
  <2>2. o \in [1..n -> Nat]
    BY <1>5, <2>1
  <2>3. QED
    BY <1>4, <2>2
<1>8. QED
  BY <1>1, <1>2, <1>4, <1>6, <1>7

\* The first j of the streams o are walked, and `of' dgrams of the next.
FrontsAt(r, o, config, st, of, j) ==
    /\ j \in 0..Len(o) /\ st = SubSeq(o, j + 1, Len(o)) /\ of \in Nat
    /\ j < Len(o) => of <= FrontEnd(r, o[j + 1])
    /\ \A k \in 1..Len(o) : \A seg \in r.segs[o[k]] :
         AtWrite(r, config, o[k], seg,
                 IF k <= j THEN FrontEnd(r, o[k]) ELSE IF k = j + 1 THEN of ELSE 0)

\* No front is walked yet.
LEMMA FrontsStart ==
  ASSUME NEW r \in Runs, NEW o, o = Ascending(Declaring(r))
  PROVE  FrontsAt(r, o, <<>>, o, 0, 0)
<1>1. Len(o) \in Nat /\ o \in Seq(Nat)
  BY DeclaringList
<1>2. 0 \in 0..Len(o) /\ o = SubSeq(o, 0 + 1, Len(o))
  BY <1>1
<1>3. ASSUME 0 < Len(o)
      PROVE  0 <= FrontEnd(r, o[0 + 1])
  <2>1. o[1] \in DOMAIN r.dgrams
    BY <1>1, <1>3, DeclaringList
  <2>2. FrontEnd(r, o[1]) \in 1..r.front[o[1]]
    BY <2>1, FrontEndIs
  <2>3. QED
    BY <2>2
<1>4. \A s, seg : AtWrite(r, <<>>, s, seg, 0)
  BY DEF AtWrite
<1>5. \A k \in 1..Len(o) :
         (IF k <= 0 THEN FrontEnd(r, o[k]) ELSE IF k = 0 + 1 THEN 0 ELSE 0) = 0
  BY <1>1
<1>6. QED
  BY <1>2, <1>3, <1>4, <1>5 DEF FrontsAt

\* The head of the streams not walked.
LEMMA FrontsHead ==
  ASSUME NEW r \in Runs, NEW o, o = Ascending(Declaring(r)), NEW config, NEW st, NEW of, NEW j,
         FrontsAt(r, o, config, st, of, j)
  PROVE  /\ j \in 0..Len(o) /\ of \in Nat /\ Len(o) \in Nat
         /\ st = <<>> => j = Len(o)
         /\ st # <<>> => /\ j + 1 \in 1..Len(o) /\ Head(st) = o[j + 1] /\ o[j + 1] \in DOMAIN r.dgrams
                         /\ o[j + 1] \in Declaring(r) /\ of <= FrontEnd(r, o[j + 1])
                         /\ Tail(st) = SubSeq(o, j + 2, Len(o))
<1>1. /\ Len(o) \in Nat /\ o \in Seq(Nat)
      /\ \A k \in 1..Len(o) : o[k] \in Declaring(r) /\ o[k] \in DOMAIN r.dgrams
  BY DeclaringList
<1>2. /\ j \in 0..Len(o) /\ st = SubSeq(o, j + 1, Len(o)) /\ of \in Nat
      /\ j < Len(o) => of <= FrontEnd(r, o[j + 1])
  BY DEF FrontsAt
<1>3. CASE j = Len(o)
  <2>1. st = <<>>
    BY <1>1, <1>2, <1>3
  <2>2. QED
    BY <1>1, <1>2, <1>3, <2>1
<1>4. CASE j # Len(o)
  <2>1. j + 1 \in 1..Len(o) /\ j < Len(o)
    BY <1>1, <1>2, <1>4
  <2>2. Len(st) = Len(o) - j /\ Len(o) - j >= 1
    BY <1>1, <1>2, <2>1
  <2>3. st # <<>> /\ Head(st) = o[j + 1] /\ Tail(st) = SubSeq(o, j + 2, Len(o))
    <3>1. st # <<>>
      <4>1. ASSUME st = <<>>
            PROVE  FALSE
        <5>1. Len(st) = 0
          BY <4>1
        <5>2. QED
          BY <1>1, <1>2, <2>2, <5>1
      <4>2. QED
        BY <4>1
    <3>2. Head(st) = o[j + 1]
      BY <1>1, <1>2, <2>1, <3>1
    <3>3. Tail(st) = SubSeq(o, j + 2, Len(o))
      BY <1>1, <1>2, <2>1, <3>1
    <3>4. QED
      BY <3>1, <3>2, <3>3
  <2>4. QED
    BY <1>1, <1>2, <2>1, <2>3
<1>5. QED
  BY <1>3, <1>4

\* One more transition of the head's front is folded in.
LEMMA FrontsWalk ==
  ASSUME NEW r \in Runs, NEW o, o = Ascending(Declaring(r)), NEW config, NEW st, NEW of, NEW j,
         FrontsAt(r, o, config, st, of, j), st # <<>>,
         of < r.front[Head(st)], r.dgrams[Head(st)][of + 1].service # "L1Accept",
         NEW d, d = r.dgrams[Head(st)][of + 1]
  PROVE  FrontsAt(r, o, Overlaid(config, d.segs, d.ts), st, of + 1, j)
<1>1. /\ j \in 0..Len(o) /\ of \in Nat /\ Len(o) \in Nat
      /\ j + 1 \in 1..Len(o) /\ Head(st) = o[j + 1] /\ o[j + 1] \in DOMAIN r.dgrams
      /\ o[j + 1] \in Declaring(r) /\ of <= FrontEnd(r, o[j + 1])
  BY FrontsHead
<1>2. PICK s \in DOMAIN r.dgrams : s = o[j + 1]
  BY <1>1
<1>3. /\ FrontEnd(r, s) \in 1..r.front[s] /\ r.front[s] \in 1..Len(r.dgrams[s])
      /\ FrontEnd(r, s) < r.front[s] => r.dgrams[s][FrontEnd(r, s) + 1].service = "L1Accept"
  BY FrontEndIs
<1>4. of + 1 <= FrontEnd(r, s) /\ of + 1 \in 1..Len(r.dgrams[s])
  <2>1. FrontEnd(r, s) \in Nat /\ r.front[s] \in Nat /\ of < r.front[s]
    BY <1>1, <1>2, <1>3
  <2>2. of # FrontEnd(r, s)
    BY <1>1, <1>2, <1>3, <2>1
  <2>3. QED
    BY <1>1, <1>2, <1>3, <2>1, <2>2
<1>5. d.segs \subseteq r.segs[s]
  <2>1. r.dgrams[s][of + 1].segs \subseteq r.segs[s]
    BY <1>4, RunDgrams
  <2>2. QED
    BY <1>1, <1>2, <2>1
<1>6. PICK c : c = Overlaid(config, d.segs, d.ts)
  OBVIOUS
<1> DEFINE W(k, x) == IF k <= j THEN FrontEnd(r, o[k]) ELSE IF k = j + 1 THEN x ELSE 0
<1>7. ASSUME NEW k \in 1..Len(o), NEW seg \in r.segs[o[k]]
      PROVE  AtWrite(r, c, o[k], seg, W(k, of + 1))
  <2>1. AtWrite(r, config, o[k], seg, W(k, of))
    BY DEF FrontsAt
  <2>2. CASE k = j + 1
    <3>1. W(k, of) = of /\ W(k, of + 1) = of + 1 /\ o[k] = s
      BY <1>1, <1>2, <2>2
    <3>2. AtWrite(r, Overlaid(config, r.dgrams[s][of + 1].segs, r.dgrams[s][of + 1].ts), s, seg, of + 1)
      BY <1>1, <2>1, <3>1, WriteNext
    <3>3. QED
      BY <1>1, <1>2, <1>6, <3>1, <3>2
  <2>3. CASE k # j + 1
    <3>1. W(k, of) = W(k, of + 1)
      BY <2>3
    <3>2. o[k] # s /\ o[k] \in Declaring(r) /\ s \in Declaring(r)
      BY <1>1, <1>2, <2>3, DeclaringList
    <3>3. r.segs[o[k]] \cap r.segs[s] = {}
      BY <3>2, DeclaringIs
    <3>4. seg \notin d.segs
      BY <1>5, <3>3
    <3>5. AtWrite(r, c, o[k], seg, W(k, of))
      BY <1>6, <2>1, <3>4, WriteElsewhere
    <3>6. QED
      BY <3>1, <3>5
  <2>4. QED
    BY <2>2, <2>3
<1>8. j < Len(o) => of + 1 <= FrontEnd(r, o[j + 1])
  BY <1>2, <1>4
<1>9. of + 1 \in Nat /\ st = SubSeq(o, j + 1, Len(o))
  BY <1>1 DEF FrontsAt
<1>10. QED
  BY <1>1, <1>6, <1>7, <1>8, <1>9 DEF FrontsAt

\* The front of the head is walked: its first event, or its chunk's end.
LEMMA FrontsLeave ==
  ASSUME NEW r \in Runs, NEW o, o = Ascending(Declaring(r)), NEW config, NEW st, NEW of, NEW j,
         FrontsAt(r, o, config, st, of, j), st # <<>>,
         ~ (of < r.front[Head(st)] /\ r.dgrams[Head(st)][of + 1].service # "L1Accept")
  PROVE  FrontsAt(r, o, config, Tail(st), 0, j + 1)
<1>1. /\ j \in 0..Len(o) /\ of \in Nat /\ Len(o) \in Nat
      /\ j + 1 \in 1..Len(o) /\ Head(st) = o[j + 1] /\ o[j + 1] \in DOMAIN r.dgrams
      /\ of <= FrontEnd(r, o[j + 1]) /\ Tail(st) = SubSeq(o, j + 2, Len(o))
  BY FrontsHead
<1>2. PICK s \in DOMAIN r.dgrams : s = o[j + 1]
  BY <1>1
<1>3. /\ FrontEnd(r, s) \in 1..r.front[s] /\ r.front[s] \in 1..Len(r.dgrams[s])
      /\ \A i \in 1..FrontEnd(r, s) : r.dgrams[s][i].service # "L1Accept"
  BY FrontEndIs
<1>4. of = FrontEnd(r, s)
  <2>1. FrontEnd(r, s) \in Nat /\ r.front[s] \in Nat /\ FrontEnd(r, s) <= r.front[s]
    BY <1>3
  <2>2. ASSUME of # FrontEnd(r, s)
        PROVE  FALSE
    <3>1. of + 1 \in 1..FrontEnd(r, s) /\ of < r.front[s]
      BY <1>1, <1>2, <2>1, <2>2
    <3>2. QED
      BY <1>1, <1>2, <1>3, <3>1
  <2>3. QED
    BY <2>2
<1> DEFINE W(k) == IF k <= j THEN FrontEnd(r, o[k]) ELSE IF k = j + 1 THEN of ELSE 0
           V(k) == IF k <= j + 1 THEN FrontEnd(r, o[k]) ELSE IF k = (j + 1) + 1 THEN 0 ELSE 0
<1>5. ASSUME NEW k \in 1..Len(o), NEW seg \in r.segs[o[k]]
      PROVE  AtWrite(r, config, o[k], seg, V(k))
  <2>1. AtWrite(r, config, o[k], seg, W(k))
    BY DEF FrontsAt
  <2>2. W(k) = V(k)
    <3>1. CASE k <= j
      BY <1>1, <3>1
    <3>2. CASE k = j + 1
      BY <1>1, <1>2, <1>4, <3>2
    <3>3. CASE k > j + 1
      BY <1>1, <3>3
    <3>4. QED
      BY <1>1, <3>1, <3>2, <3>3
  <2>3. QED
    BY <2>1, <2>2
<1>6. ASSUME j + 1 < Len(o)
      PROVE  0 <= FrontEnd(r, o[(j + 1) + 1])
  <2>1. (j + 1) + 1 \in 1..Len(o)
    BY <1>1, <1>6
  <2>2. o[(j + 1) + 1] \in DOMAIN r.dgrams
    BY <2>1, DeclaringList
  <2>3. FrontEnd(r, o[(j + 1) + 1]) \in 1..r.front[o[(j + 1) + 1]]
    BY <2>2, FrontEndIs
  <2>4. QED
    BY <2>3
<1>7. j + 1 \in 0..Len(o) /\ (j + 1) + 1 = j + 2 /\ 0 \in Nat
  BY <1>1
<1>8. QED
  BY <1>1, <1>5, <1>6, <1>7 DEF FrontsAt

\* All fronts are walked: each segment has what its own front wrote last.
LEMMA FrontsDone ==
  ASSUME NEW r \in Runs, NEW o, o = Ascending(Declaring(r)), NEW config, NEW of, NEW j,
         FrontsAt(r, o, config, <<>>, of, j)
  PROVE  \A s \in Declaring(r) : \A seg \in r.segs[s] :
            AtWrite(r, config, s, seg, FrontEnd(r, s))
<1>1. j = Len(o) /\ Len(o) \in Nat
  BY FrontsHead
<1>2. ASSUME NEW k \in 1..Len(o), NEW seg \in r.segs[o[k]]
      PROVE  AtWrite(r, config, o[k], seg, FrontEnd(r, o[k]))
  <2>1. k <= j
    BY <1>1
  <2>2. QED
    BY <2>1 DEF FrontsAt
<1>3. \A s \in Declaring(r) : \E k \in 1..Len(o) : o[k] = s
  BY DeclaringList
<1>4. QED
  BY <1>2, <1>3

-----------------------------------------------------------------------------
(* The steps                                                               *)

\* Every time in Nat at which some declaring stream tells of a step.
ToldAt(r, t) == \E s \in Declaring(r) : \E i \in StepsOf(r, s) : r.dgrams[s][i].ts = t

\* The steps laid over so far, up to time t.
StepsListed(r, list, t) ==
    /\ Len(list) \in Nat /\ \E S : list \in Seq(S)
    /\ \A k \in 1..Len(list) :
         /\ list[k].ts \in Nat /\ list[k].ts <= t /\ ToldAt(r, list[k].ts)
         /\ \A s \in Declaring(r) : \A seg \in r.segs[s] :
              AtStep(r, list[k].config, s, seg, list[k].ts)
    /\ \A j, k \in 1..Len(list) : j < k => list[j].ts < list[k].ts
    /\ \A u \in Nat : ToldAt(r, u) /\ u <= t => \E k \in 1..Len(list) : list[k].ts = u

OverlaysAt(r, config, pend, list, t) ==
    /\ t \in Int /\ pend \in Seq(Nat) /\ Len(pend) \in Nat
    /\ \A i \in 1..Len(pend) : pend[i] > t
    /\ \A i, j \in 1..Len(pend) : i < j => pend[i] < pend[j]
    /\ \A u \in Nat : ToldAt(r, u) => u <= t \/ \E k \in 1..Len(pend) : pend[k] = u
    /\ \A s \in Declaring(r) : \A seg \in r.segs[s] : AtStep(r, config, s, seg, t)
    /\ StepsListed(r, list, t)

\* Of the times left after t the first is v, then come those of e.
LeftAfter(r, t, v, e) ==
    /\ t \in Int /\ v \in Nat /\ t < v
    /\ e \in Seq(Nat) /\ Len(e) \in Nat
    /\ \A i \in 1..Len(e) : e[i] > v
    /\ \A i, j \in 1..Len(e) : i < j => e[i] < e[j]
    /\ \A u \in Nat : ToldAt(r, u) => u <= t \/ u = v \/ \E k \in 1..Len(e) : e[k] = u

\* The next time pending, and what is left after it.
LEMMA PendingHead ==
  ASSUME NEW r \in Runs, NEW config, NEW pend, NEW list, NEW t,
         OverlaysAt(r, config, pend, list, t), pend # <<>>
  PROVE  LeftAfter(r, t, Head(pend), Tail(pend))
<1>1. /\ t \in Int /\ pend \in Seq(Nat) /\ Len(pend) \in Nat
      /\ \A i \in 1..Len(pend) : pend[i] > t
      /\ \A i, j \in 1..Len(pend) : i < j => pend[i] < pend[j]
      /\ \A u \in Nat : ToldAt(r, u) => u <= t \/ \E k \in 1..Len(pend) : pend[k] = u
  BY DEF OverlaysAt
<1>2. PICK n \in Nat : n = Len(pend)
  BY <1>1
<1>3. PICK e : e = Tail(pend)
  OBVIOUS
<1>4. /\ n >= 1 /\ Head(pend) = pend[1] /\ 1 \in 1..n /\ pend[1] \in Nat
      /\ e \in Seq(Nat) /\ Len(e) = n - 1 /\ n - 1 \in Nat
      /\ \A i \in 1..n - 1 : e[i] = pend[i + 1]
  <2>1. n >= 1
    BY <1>1, <1>2
  <2>2. e \in Seq(Nat) /\ Len(e) = n - 1 /\ \A i \in 1..n - 1 : e[i] = pend[i + 1]
    BY <1>1, <1>2, <1>3, <2>1
  <2>3. QED
    BY <1>1, <1>2, <2>1, <2>2
<1>5. \A i \in 1..n - 1 : i + 1 \in 1..n /\ 1 < i + 1
  BY <1>4
<1>6. \A i \in 1..n - 1 : e[i] > pend[1]
  <2>1. ASSUME NEW i \in 1..n - 1
        PROVE  e[i] > pend[1]
    <3>1. pend[1] < pend[i + 1] /\ pend[i + 1] \in Nat
      BY <1>1, <1>2, <1>4, <1>5
    <3>2. QED
      BY <1>4, <3>1
  <2>2. QED
    BY <2>1
<1>7. \A i, j \in 1..n - 1 : i < j => e[i] < e[j]
  <2>1. ASSUME NEW i \in 1..n - 1, NEW j \in 1..n - 1, i < j
        PROVE  e[i] < e[j]
    <3>1. i + 1 < j + 1 /\ i + 1 \in 1..n /\ j + 1 \in 1..n
      BY <1>4, <2>1
    <3>2. QED
      BY <1>1, <1>2, <1>4, <3>1
  <2>2. QED
    BY <2>1
<1>8. ASSUME NEW k \in 1..n
      PROVE  pend[k] = pend[1] \/ \E i \in 1..n - 1 : e[i] = pend[k]
  <2>1. CASE k = 1
    BY <2>1
  <2>2. CASE k # 1
    <3>1. k - 1 \in 1..n - 1 /\ (k - 1) + 1 = k
      BY <1>2, <2>2
    <3>2. e[k - 1] = pend[k]
      BY <1>4, <3>1
    <3>3. QED
      BY <3>1, <3>2
  <2>3. QED
    BY <2>1, <2>2
<1>9. \A u \in Nat : ToldAt(r, u) => u <= t \/ u = pend[1] \/ \E k \in 1..n - 1 : e[k] = u
  BY <1>1, <1>2, <1>8
<1>10. t < pend[1]
  BY <1>1, <1>2, <1>4
<1>11. QED
  BY <1>1, <1>3, <1>4, <1>6, <1>7, <1>9, <1>10 DEF LeftAfter

\* A step of a declaring stream is told of.
LEMMA ToldIs ==
  ASSUME NEW r \in Runs, NEW s \in Declaring(r), NEW i \in StepsOf(r, s)
  PROVE  r.dgrams[s][i].ts \in Nat /\ ToldAt(r, r.dgrams[s][i].ts)
<1>1. s \in DOMAIN r.dgrams
  BY DeclaringIs
<1>2. QED
  BY <1>1, StepPositions DEF ToldAt

\* Nobody told of a step then: the BeginRuns.
LEMMA OverlaysSkip ==
  ASSUME NEW r \in Runs, NEW config, NEW pend, NEW list, NEW t,
         OverlaysAt(r, config, pend, list, t), pend # <<>>, ~ToldAt(r, Head(pend))
  PROVE  OverlaysAt(r, config, Tail(pend), list, Head(pend))
<1>1. PICK v : v = Head(pend)
  OBVIOUS
<1>2. PICK e : e = Tail(pend)
  OBVIOUS
<1>0. LeftAfter(r, t, Head(pend), Tail(pend))
  BY PendingHead
<1>3. /\ t \in Int /\ v \in Nat /\ t < v
      /\ e \in Seq(Nat) /\ Len(e) \in Nat
      /\ \A i \in 1..Len(e) : e[i] > v
      /\ \A i, j \in 1..Len(e) : i < j => e[i] < e[j]
      /\ \A u \in Nat : ToldAt(r, u) => u <= t \/ u = v \/ \E k \in 1..Len(e) : e[k] = u
  BY <1>0, <1>1, <1>2 DEF LeftAfter
<1>4. \A u \in Nat : ToldAt(r, u) => u <= t \/ u > v
  <2>1. ASSUME NEW u \in Nat, ToldAt(r, u), NEW k \in 1..Len(e), e[k] = u
        PROVE  u > v
    BY <1>3, <2>1
  <2>2. QED
    BY <1>1, <1>3, <2>1
<1>5. \A s \in Declaring(r) : \A seg \in r.segs[s] : AtStep(r, config, s, seg, v)
  <2>1. ASSUME NEW s \in Declaring(r), NEW seg \in r.segs[s]
        PROVE  AtStep(r, config, s, seg, v)
    <3>1. AtStep(r, config, s, seg, t)
      BY DEF OverlaysAt
    <3>2. \A i \in StepsOf(r, s) : r.dgrams[s][i].ts <= t \/ r.dgrams[s][i].ts > v
      BY <1>4, ToldIs
    <3>3. s \in DOMAIN r.dgrams /\ v \in Int
      BY <1>3, DeclaringIs
    <3>4. QED
      BY <1>3, <3>1, <3>2, <3>3, StepNoMore
  <2>2. QED
    BY <2>1
<1>6. StepsListed(r, list, v)
  <2>1. StepsListed(r, list, t)
    BY DEF OverlaysAt
  <2>2. \A u \in Nat : ToldAt(r, u) /\ u <= v => u <= t
    BY <1>3, <1>4
  <2>3. \A k \in 1..Len(list) : list[k].ts \in Nat /\ list[k].ts <= v
    BY <1>3, <2>1 DEF StepsListed
  <2>4. QED
    BY <2>1, <2>2, <2>3 DEF StepsListed
<1>7. \A u \in Nat : ToldAt(r, u) => u <= v \/ \E k \in 1..Len(e) : e[k] = u
  BY <1>3
<1>8. v \in Int
  BY <1>3
<1>9. QED
  BY <1>1, <1>2, <1>3, <1>5, <1>6, <1>7, <1>8 DEF OverlaysAt

\* A step told of is laid over, and the configuration is the one after it.
LEMMA OverlaysLay ==
  ASSUME NEW r \in Runs, NEW config, NEW pend, NEW list, NEW t,
         OverlaysAt(r, config, pend, list, t), pend # <<>>, ToldAt(r, Head(pend)),
         NEW c, c = Overlaid(config, WrittenAt(r, Head(pend)), Head(pend))
  PROVE  OverlaysAt(r, c, Tail(pend), Append(list, [ts |-> Head(pend), config |-> c]), Head(pend))
<1>1. PICK v : v = Head(pend)
  OBVIOUS
<1>2. PICK e : e = Tail(pend)
  OBVIOUS
<1>0. LeftAfter(r, t, Head(pend), Tail(pend))
  BY PendingHead
<1>3. /\ t \in Int /\ v \in Nat /\ t < v
      /\ e \in Seq(Nat) /\ Len(e) \in Nat
      /\ \A i \in 1..Len(e) : e[i] > v
      /\ \A i, j \in 1..Len(e) : i < j => e[i] < e[j]
      /\ \A u \in Nat : ToldAt(r, u) => u <= t \/ u = v \/ \E k \in 1..Len(e) : e[k] = u
  BY <1>0, <1>1, <1>2 DEF LeftAfter
<1>4. \A u \in Nat : ToldAt(r, u) => u <= t \/ u >= v
  <2>1. ASSUME NEW u \in Nat, ToldAt(r, u), NEW k \in 1..Len(e), e[k] = u
        PROVE  u >= v
    BY <1>3, <2>1
  <2>2. QED
    BY <1>1, <1>3, <2>1
<1>5. \A s \in Declaring(r) : \A seg \in r.segs[s] : AtStep(r, c, s, seg, v)
  <2>1. ASSUME NEW s \in Declaring(r), NEW seg \in r.segs[s]
        PROVE  AtStep(r, c, s, seg, v)
    <3>1. AtStep(r, config, s, seg, t)
      BY DEF OverlaysAt
    <3>2. \A i \in StepsOf(r, s) : r.dgrams[s][i].ts <= t \/ r.dgrams[s][i].ts >= v
      BY <1>4, ToldIs
    <3>3. s \in DOMAIN r.dgrams /\ v \in Int
      BY <1>3, DeclaringIs
    <3>4. PICK w : w = WrittenAt(r, v)
      OBVIOUS
    <3>5. seg \in w <=> \E i \in StepsOf(r, s) : seg \in r.dgrams[s][i].segs /\ r.dgrams[s][i].ts = v
      BY <3>4, WrittenByItsStream
    <3>6. AtStep(r, Overlaid(config, w, v), s, seg, v)
      BY <1>3, <3>1, <3>2, <3>3, <3>5, StepLaidOver
    <3>7. QED
      BY <1>1, <3>4, <3>6
  <2>2. QED
    BY <2>1
<1> DEFINE new == [ts |-> v, config |-> c]
           more == Append(list, new)
<1>6. StepsListed(r, list, t)
  BY DEF OverlaysAt
<1>7. PICK S : list \in Seq(S)
  BY <1>6 DEF StepsListed
<1>8. PICK n \in Nat : n = Len(list)
  BY <1>6 DEF StepsListed
<1>9. list \in Seq(S \cup {new}) /\ new \in S \cup {new}
  <2>1. \A k \in 1..n : list[k] \in S
    BY <1>7, <1>8
  <2>2. list = [k \in 1..n |-> list[k]]
    BY <1>7, <1>8
  <2> HIDE DEF new
  <2>3. \A k \in 1..n : list[k] \in S \cup {new}
    BY <2>1
  <2>4. list \in [1..n -> S \cup {new}]
    BY <2>2, <2>3
  <2>5. QED
    BY <2>4
<1>10. /\ more \in Seq(S \cup {new}) /\ Len(more) = n + 1
       /\ \A k \in 1..n : more[k] = list[k]
       /\ more[n + 1] = new
  <2> HIDE DEF new
  <2>1. QED
    BY <1>8, <1>9
<1>11. new.ts = v /\ new.config = c
  OBVIOUS
<1> HIDE DEF new, more
<1>12. \A k \in 1..n + 1 : k \in 1..n \/ k = n + 1
  BY <1>8
<1>13. \A k \in 1..n : list[k].ts \in Nat /\ list[k].ts <= t /\ list[k].ts < v
  <2>1. \A k \in 1..n : list[k].ts \in Nat /\ list[k].ts <= t
    BY <1>6, <1>8 DEF StepsListed
  <2>2. QED
    BY <1>3, <2>1
<1>14. \A k \in 1..n + 1 :
         /\ more[k].ts \in Nat /\ more[k].ts <= v /\ ToldAt(r, more[k].ts)
         /\ \A s \in Declaring(r) : \A seg \in r.segs[s] :
              AtStep(r, more[k].config, s, seg, more[k].ts)
  <2>1. ASSUME NEW k \in 1..n
        PROVE  /\ more[k].ts \in Nat /\ more[k].ts <= v /\ ToldAt(r, more[k].ts)
               /\ \A s \in Declaring(r) : \A seg \in r.segs[s] :
                    AtStep(r, more[k].config, s, seg, more[k].ts)
    <3>1. /\ ToldAt(r, list[k].ts)
          /\ \A s \in Declaring(r) : \A seg \in r.segs[s] :
               AtStep(r, list[k].config, s, seg, list[k].ts)
      BY <1>6, <1>8 DEF StepsListed
    <3>2. list[k].ts \in Nat /\ list[k].ts <= v
      BY <1>3, <1>13
    <3>3. more[k] = list[k]
      BY <1>10
    <3>4. QED
      BY <3>1, <3>2, <3>3
  <2>2. /\ more[n + 1].ts \in Nat /\ more[n + 1].ts <= v /\ ToldAt(r, more[n + 1].ts)
        /\ \A s \in Declaring(r) : \A seg \in r.segs[s] :
             AtStep(r, more[n + 1].config, s, seg, more[n + 1].ts)
    BY <1>1, <1>3, <1>5, <1>10, <1>11
  <2>3. QED
    BY <1>12, <2>1, <2>2
<1>15. \A j, k \in 1..n + 1 : j < k => more[j].ts < more[k].ts
  <2>1. ASSUME NEW j \in 1..n + 1, NEW k \in 1..n + 1, j < k
        PROVE  more[j].ts < more[k].ts
    <3>1. j \in 1..n
      BY <1>8, <2>1
    <3>2. CASE k = n + 1
      BY <1>10, <1>11, <1>13, <3>1, <3>2
    <3>3. CASE k \in 1..n
      <4>1. list[j].ts < list[k].ts
        BY <1>6, <1>8, <2>1, <3>1, <3>3 DEF StepsListed
      <4>2. QED
        BY <1>10, <3>1, <3>3, <4>1
    <3>4. QED
      BY <1>12, <3>2, <3>3
  <2>2. QED
    BY <2>1
<1>16. \A u \in Nat : ToldAt(r, u) /\ u <= v => \E k \in 1..n + 1 : more[k].ts = u
  <2>1. ASSUME NEW u \in Nat, ToldAt(r, u), u <= v
        PROVE  \E k \in 1..n + 1 : more[k].ts = u
    <3>1. CASE u <= t
      <4>1. PICK k \in 1..n : list[k].ts = u
        BY <1>6, <1>8, <2>1, <3>1 DEF StepsListed
      <4>2. k \in 1..n + 1 /\ more[k].ts = u
        BY <1>8, <1>10, <4>1
      <4>3. QED
        BY <4>2
    <3>2. CASE ~ (u <= t)
      <4>1. u = v
        BY <1>3, <1>4, <2>1, <3>2
      <4>2. n + 1 \in 1..n + 1 /\ more[n + 1].ts = u
        BY <1>8, <1>10, <1>11, <4>1
      <4>3. QED
        BY <4>2
    <3>3. QED
      BY <3>1, <3>2
  <2>2. QED
    BY <2>1
<1>17. StepsListed(r, more, v)
  <2>1. Len(more) \in Nat /\ Len(more) = n + 1
    BY <1>8, <1>10
  <2>2. \E Q : more \in Seq(Q)
    BY <1>10
  <2>3. QED
    BY <1>14, <1>15, <1>16, <2>1, <2>2 DEF StepsListed
<1>18. \A u \in Nat : ToldAt(r, u) => u <= v \/ \E k \in 1..Len(e) : e[k] = u
  BY <1>3
<1>19. v \in Int
  BY <1>3
<1>20. more = Append(list, [ts |-> Head(pend), config |-> c])
  BY <1>1 DEF more, new
<1>21. QED
  BY <1>1, <1>2, <1>3, <1>5, <1>17, <1>18, <1>19, <1>20 DEF OverlaysAt

\* The records that the scan store keeps of a stream.
LEMMA ScanRange ==
  ASSUME NEW r \in Runs, NEW s \in DOMAIN r.dgrams
  PROVE  Range(ScanRecords(r, s)) = {r.dgrams[s][i] : i \in ScanAt(r, s)}
<1>0. PICK m \in Nat : \E a \in [1..m -> ScanAt(r, s)] :
           /\ ScanRecords(r, s) = [k \in 1..m |-> r.dgrams[s][a[k]]]
           /\ \A x \in ScanAt(r, s) : \E k \in 1..m : a[k] = x
  BY ScanRecordsList
<1>1. PICK a \in [1..m -> ScanAt(r, s)] :
           /\ ScanRecords(r, s) = [k \in 1..m |-> r.dgrams[s][a[k]]]
           /\ \A x \in ScanAt(r, s) : \E k \in 1..m : a[k] = x
  BY <1>0
<1>2. PICK q : q = ScanRecords(r, s)
  OBVIOUS
<1>3. PICK g : g = r.dgrams[s]
  OBVIOUS
<1>4. DOMAIN q = 1..m /\ \A k \in 1..m : q[k] = g[a[k]]
  BY <1>1, <1>2, <1>3
<1>5. PICK T : T = ScanAt(r, s)
  OBVIOUS
<1>6. \A k \in 1..m : a[k] \in T
  BY <1>5
<1>7. \A x \in T : \E k \in 1..m : a[k] = x
  BY <1>1, <1>5
<1>8. Range(q) = {g[i] : i \in T}
  BY <1>4, <1>6, <1>7 DEF Range
<1>9. QED
  BY <1>2, <1>3, <1>5, <1>8

TimesOf(r, s) == {d.ts : d \in Range(ScanRecords(r, s))}

ScanTimes(r) == UNION {TimesOf(r, s) : s \in Declaring(r)}

\* The times of a stream's scan records, its steps among them.
LEMMA TimesOfFinite ==
  ASSUME NEW r \in Runs, NEW s \in DOMAIN r.dgrams
  PROVE  /\ IsFiniteSet(TimesOf(r, s)) /\ TimesOf(r, s) \subseteq Nat
         /\ \A i \in StepsOf(r, s) : r.dgrams[s][i].ts \in TimesOf(r, s)
<1>1. PICK g : g = r.dgrams[s]
  OBVIOUS
<1>2. PICK n \in Nat : n = Len(g)
  BY <1>1, RunDgrams
<1>3. DOMAIN g = 1..n /\ \A i \in 1..n : g[i].ts \in Nat
  BY <1>1, <1>2, RunDgrams
<1>4. PICK A : A = ScanAt(r, s)
  OBVIOUS
<1>5. A \in SUBSET (1..n) /\ StepsOf(r, s) \subseteq A
  BY <1>1, <1>3, <1>4 DEF ScanAt, StepsOf
<1>6. IsFiniteSet(A)
  <2>1. IsFiniteSet(1..n)
    BY FS_Interval, 1 \in Int, n \in Int
  <2>2. QED
    BY <1>5, <2>1, FS_Subset
<1>7. PICK T : T = TimesOf(r, s)
  OBVIOUS
<1>8. T = {g[i].ts : i \in A}
  <2>1. Range(ScanRecords(r, s)) = {g[i] : i \in A}
    BY <1>1, <1>4, ScanRange
  <2>2. T = {d.ts : d \in {g[i] : i \in A}}
    BY <1>7, <2>1 DEF TimesOf
  <2>3. QED
    BY <2>2
<1> DEFINE f == [i \in A |-> g[i].ts]
<1>9. f \in Surjection(A, T)
  BY <1>8 DEF Surjection
<1>10. IsFiniteSet(T)
  BY <1>6, <1>9, FS_Surjection
<1>11. \A i \in A : g[i].ts \in Nat
  BY <1>3, <1>5
<1>12. T \subseteq Nat
  BY <1>8, <1>11
<1>13. \A i \in StepsOf(r, s) : g[i].ts \in T
  BY <1>5, <1>8
<1>14. QED
  BY <1>1, <1>7, <1>10, <1>12, <1>13

\* The times pending when the overlay starts: every step is among them.
LEMMA ScanTimesFinite ==
  ASSUME NEW r \in Runs
  PROVE  /\ IsFiniteSet(ScanTimes(r)) /\ ScanTimes(r) \subseteq Nat
         /\ \A u : ToldAt(r, u) => u \in ScanTimes(r)
<1>1. IsFiniteSet(Declaring(r)) /\ Declaring(r) \subseteq DOMAIN r.dgrams
  BY DeclaringIs
<1>2. PICK D : D = Declaring(r)
  OBVIOUS
<1> DEFINE F == {TimesOf(r, s) : s \in D}
           f == [s \in D |-> TimesOf(r, s)]
<1>3. f \in Surjection(D, F)
  BY DEF Surjection
<1>4. IsFiniteSet(F)
  BY <1>1, <1>2, <1>3, FS_Surjection
<1>5. \A T \in F : IsFiniteSet(T) /\ T \subseteq Nat
  BY <1>1, <1>2, TimesOfFinite
<1>6. ScanTimes(r) = UNION F
  BY <1>2 DEF ScanTimes
<1>7. IsFiniteSet(UNION F)
  <2> HIDE DEF F
  <2>1. QED
    BY <1>4, <1>5, FS_UNION
<1>8. UNION F \subseteq Nat
  <2> HIDE DEF F
  <2>1. QED
    BY <1>5
<1>9. ASSUME NEW u, ToldAt(r, u)
      PROVE  u \in UNION F
  <2>1. PICK s \in D : \E i \in StepsOf(r, s) : r.dgrams[s][i].ts = u
    BY <1>2, <1>9 DEF ToldAt
  <2>2. u \in TimesOf(r, s)
    BY <1>1, <1>2, <2>1, TimesOfFinite
  <2>3. QED
    BY <2>2
<1>10. QED
  BY <1>6, <1>7, <1>8, <1>9

\* The front as it was walked is the configuration before every step.
LEMMA OverlaysStart ==
  ASSUME NEW r \in Runs, NEW config,
         \A s \in Declaring(r) : \A seg \in r.segs[s] : AtWrite(r, config, s, seg, FrontEnd(r, s))
  PROVE  OverlaysAt(r, config, Ascending(ScanTimes(r)), <<>>, -1)
<1>1. PICK T : T = ScanTimes(r)
  OBVIOUS
<1>2. T \subseteq Nat /\ T \subseteq Int /\ IsFiniteSet(T) /\ \A u : ToldAt(r, u) => u \in T
  BY <1>1, ScanTimesFinite
<1>3. PICK n : n = Cardinality(T)
  OBVIOUS
<1>4. PICK a : a = Ascending(T)
  OBVIOUS
<1>5. /\ Len(a) = n /\ n \in Nat /\ DOMAIN a = 1..n /\ a \in Seq(T)
      /\ \A k \in 1..n : a[k] \in T
      /\ \A i, j \in 1..n : i < j => a[i] < a[j]
      /\ \A x \in T : \E k \in 1..n : a[k] = x
  BY <1>2, <1>3, <1>4, AscendingLists
<1>6. \A k \in 1..n : a[k] \in Nat /\ a[k] > -1
  <2>1. \A x \in T : x \in Nat /\ x > -1
    BY <1>2
  <2>2. QED
    BY <1>5, <2>1
<1>7. a \in Seq(Nat)
  <2>1. a = [k \in 1..n |-> a[k]]
    BY <1>5
  <2>2. a \in [1..n -> Nat]
    BY <1>6, <2>1
  <2>3. QED
    BY <1>5, <2>2
<1>8. \A s \in Declaring(r) : \A seg \in r.segs[s] : AtStep(r, config, s, seg, -1)
  <2>1. ASSUME NEW s \in Declaring(r), NEW seg \in r.segs[s]
        PROVE  AtStep(r, config, s, seg, -1)
    <3>1. \A i \in StepsOf(r, s) : r.dgrams[s][i].ts \in Nat
      BY ToldIs
    <3>2. \A i \in StepsOf(r, s) : r.dgrams[s][i].ts > -1
      BY <3>1
    <3>3. QED
      BY <3>2 DEF AtStep
  <2>2. QED
    BY <2>1
<1>9. StepsListed(r, <<>>, -1)
  <2>1. Len(<<>>) = 0 /\ <<>> \in Seq({})
    OBVIOUS
  <2>2. \A k \in 1..0 : FALSE
    OBVIOUS
  <2>3. \A u \in Nat : ~ (u <= -1)
    OBVIOUS
  <2>4. QED
    BY <2>1, <2>2, <2>3 DEF StepsListed
<1>10. -1 \in Int /\ Len(a) \in Nat
  BY <1>5
<1>11. \A u \in Nat : ToldAt(r, u) => u <= -1 \/ \E k \in 1..Len(a) : a[k] = u
  BY <1>2, <1>5
<1>12. QED
  BY <1>1, <1>4, <1>5, <1>6, <1>7, <1>8, <1>9, <1>10, <1>11 DEF OverlaysAt

-----------------------------------------------------------------------------
(* The inductive invariant of the configurations                           *)

ResolvedAt(r, list) ==
    \/ \E t \in Int :
         StepsListed(r, list, t) /\ Len(list) > 0 /\ \A u \in Nat : ToldAt(r, u) => u <= t
    \/ \E config :
         /\ list = <<[ts |-> None, config |-> config]>>
         /\ \A u \in Nat : ~ToldAt(r, u)
         /\ \A s \in Declaring(r) : \A seg \in r.segs[s] : AtStep(r, config, s, seg, -1)

StepInv ==
    /\ LookInv
    /\ stage \in {None, "scan", "front", "overlay", "resolved"}
    /\ stage # None =>
         /\ run \in Runs /\ store = ScanStore(run)
         /\ query.var = "step_value" /\ query.ts \in EventTimes(run)
    /\ stage = "scan" => active = <<>> /\ off = 0 /\ steps = <<>>
    /\ stage \in {"front", "overlay", "resolved"} => status = "answered"
    /\ stage = "front" => steps = <<>> /\ \E j : FrontsAt(run, StreamsFor, active, streams, off, j)
    /\ stage = "overlay" => \E t : OverlaysAt(run, active, pending, steps, t)
    /\ stage = "resolved" => ResolvedAt(run, steps)

\* The fronts are walked in the order of the streams that declare a segment.
LEMMA StreamsForIs ==
  ASSUME run \in Runs
  PROVE  StreamsFor = Ascending(Declaring(run)) /\ Range(StreamsFor) = Declaring(run)
<1>1. PICK o : o = StreamsFor
  OBVIOUS
<1>2. o = Ascending(Declaring(run))
  BY <1>1 DEF StreamsFor, Declaring
<1>3. /\ DOMAIN o = 1..Len(o)
      /\ \A k \in 1..Len(o) : o[k] \in Declaring(run)
      /\ \A s \in Declaring(run) : \E k \in 1..Len(o) : o[k] = s
  BY <1>2, DeclaringList
<1>4. Range(o) = Declaring(run)
  BY <1>3 DEF Range
<1>5. QED
  BY <1>1, <1>2, <1>4

\* The records laid over at u are what the declaring streams were told then.
LEMMA BeginStepsTold ==
  ASSUME run \in Runs, NEW u
  PROVE  /\ BeginStepsAt(u) = {} <=> ~ToldAt(run, u)
         /\ UNION {d.segs : d \in BeginStepsAt(u)} = WrittenAt(run, u)
<1>1. PICK r : r = run
  OBVIOUS
<1>2. PICK D : D = Declaring(r)
  OBVIOUS
<1>3. D \subseteq DOMAIN r.dgrams
  BY <1>1, <1>2, DeclaringIs
<1>4. PICK B : B = BeginStepsAt(u)
  OBVIOUS
<1>5. \A s \in D : Range(ScanRecords(r, s)) = {r.dgrams[s][i] : i \in ScanAt(r, s)}
  BY <1>1, <1>3, ScanRange
<1>6. \A s \in D : {d \in Range(ScanRecords(r, s)) : d.ts = u /\ d.service = "BeginStep"}
                     = {r.dgrams[s][i] : i \in {x \in StepsOf(r, s) : r.dgrams[s][x].ts = u}}
  <2>1. ASSUME NEW s \in D
        PROVE  {d \in Range(ScanRecords(r, s)) : d.ts = u /\ d.service = "BeginStep"}
                     = {r.dgrams[s][i] : i \in {x \in StepsOf(r, s) : r.dgrams[s][x].ts = u}}
    <3>1. PICK g : g = r.dgrams[s]
      OBVIOUS
    <3>2. StepsOf(r, s) = {i \in ScanAt(r, s) : g[i].service = "BeginStep"}
      BY <3>1 DEF StepsOf, ScanAt
    <3>3. Range(ScanRecords(r, s)) = {g[i] : i \in ScanAt(r, s)}
      BY <1>5, <3>1
    <3>4. {d \in {g[i] : i \in ScanAt(r, s)} : d.ts = u /\ d.service = "BeginStep"}
            = {g[i] : i \in {x \in StepsOf(r, s) : g[x].ts = u}}
      BY <3>2
    <3>5. QED
      BY <3>1, <3>3, <3>4
  <2>2. QED
    BY <2>1
<1>7. Range(StreamsFor) = D
  BY <1>1, <1>2, StreamsForIs
<1>8. \A d : d \in B <=> \E s \in D : \E i \in StepsOf(r, s) : r.dgrams[s][i].ts = u /\ d = r.dgrams[s][i]
  <2>1. B = UNION {{d \in Range(ScanRecords(r, s)) : d.ts = u /\ d.service = "BeginStep"} : s \in D}
    BY <1>1, <1>4, <1>7 DEF BeginStepsAt
  <2>2. \A d : d \in B <=>
          \E s \in D : d \in {x \in Range(ScanRecords(r, s)) : x.ts = u /\ x.service = "BeginStep"}
    BY <2>1
  <2>3. \A s \in D : \A d :
          d \in {x \in Range(ScanRecords(r, s)) : x.ts = u /\ x.service = "BeginStep"} <=>
            \E i \in StepsOf(r, s) : r.dgrams[s][i].ts = u /\ d = r.dgrams[s][i]
    <3>1. ASSUME NEW s \in D, NEW d
          PROVE  d \in {x \in Range(ScanRecords(r, s)) : x.ts = u /\ x.service = "BeginStep"} <=>
                   \E i \in StepsOf(r, s) : r.dgrams[s][i].ts = u /\ d = r.dgrams[s][i]
      <4>1. {x \in Range(ScanRecords(r, s)) : x.ts = u /\ x.service = "BeginStep"}
              = {r.dgrams[s][i] : i \in {x \in StepsOf(r, s) : r.dgrams[s][x].ts = u}}
        BY <1>6
      <4>2. d \in {r.dgrams[s][i] : i \in {x \in StepsOf(r, s) : r.dgrams[s][x].ts = u}} <=>
              \E i \in StepsOf(r, s) : r.dgrams[s][i].ts = u /\ d = r.dgrams[s][i]
        OBVIOUS
      <4>3. QED
        BY <4>1, <4>2, Zenon
    <3>2. QED
      BY <3>1
  <2>4. QED
    BY <2>2, <2>3
<1>9. B = {} <=> ~ToldAt(r, u)
  <2>1. B # {} => ToldAt(r, u)
    BY <1>2, <1>8 DEF ToldAt
  <2>2. ToldAt(r, u) => B # {}
    <3>1. ASSUME ToldAt(r, u)
          PROVE  B # {}
      <4>1. PICK s \in D : \E i \in StepsOf(r, s) : r.dgrams[s][i].ts = u
        BY <1>2, <3>1 DEF ToldAt
      <4>2. PICK i \in StepsOf(r, s) : r.dgrams[s][i].ts = u
        BY <4>1
      <4>3. r.dgrams[s][i] \in B
        BY <1>8, <4>2
      <4>4. QED
        BY <4>3
    <3>2. QED
      BY <3>1
  <2>3. QED
    BY <2>1, <2>2
<1>10. \A x : x \in UNION {d.segs : d \in B} <=>
           \E s \in D : \E i \in StepsOf(r, s) : r.dgrams[s][i].ts = u /\ x \in r.dgrams[s][i].segs
  <2>1. \A x : x \in UNION {d.segs : d \in B} <=> \E d \in B : x \in d.segs
    OBVIOUS
  <2>2. QED
    BY <1>8, <2>1
<1>11. \A x : x \in WrittenAt(r, u) <=>
           \E s \in D : \E i \in StepsOf(r, s) : r.dgrams[s][i].ts = u /\ x \in r.dgrams[s][i].segs
  <2>1. ASSUME NEW s \in D, NEW i \in StepsOf(r, s), NEW x \in r.dgrams[s][i].segs
        PROVE  x \in UNION {r.segs[z] : z \in D}
    <3>1. i \in 1..Len(r.dgrams[s]) /\ s \in DOMAIN r.dgrams
      BY <1>1, <1>3, StepPositions
    <3>2. r.dgrams[s][i].segs \subseteq r.segs[s]
      BY <1>1, <3>1, RunDgrams
    <3>3. QED
      BY <2>1, <3>2
  <2>2. QED
    BY <1>2, <2>1 DEF WrittenAt
<1>12. UNION {d.segs : d \in B} = WrittenAt(r, u)
  BY <1>10, <1>11
<1>13. QED
  BY <1>1, <1>4, <1>9, <1>12

\* Nothing is walked at first.
LEMMA StepInvInit == StepInit => StepInv
<1>1. SUFFICES ASSUME StepInit
               PROVE  StepInv
  OBVIOUS
<1>2. LookInv
  BY <1>1, LookInit
<1>3. \/ stage = None
      \/ /\ stage = "scan" /\ run \in Runs /\ store = ScanStore(run)
         /\ query.var = "step_value" /\ query.ts \in EventTimes(run)
         /\ active = <<>> /\ off = 0 /\ steps = <<>>
  BY <1>1 DEF StepInit
<1>4. QED
  BY <1>2, <1>3, StagesAssumption DEF StepInv

LEMMA StepInvNext ==
  ASSUME StepInv, StepNext
  PROVE  StepInv'
<1>1. AsOfNext \/ UNCHANGED asOfVars
  BY DEF StepNext, AskScan, SegConfigs, WalkTransition, LeaveFront, GroupScanRecords,
         LayOver, Resolve
<1>2. LookInv'
  BY <1>1, LookNext, LookStutters DEF StepInv
<1>3. run' = run /\ store' = store /\ query' = query
  BY DEF StepNext, AskScan, SegConfigs, WalkTransition, LeaveFront, GroupScanRecords,
         LayOver, Resolve, asOfVars, stepVars,
         AsOfNext, AsOf, EnterStream, ReadValue, LacksField, SkipBack, LeaveStream, NoValue
<1>4. StreamsFor' = StreamsFor
  BY <1>3 DEF StreamsFor
<1>5. /\ stage \in {None, "scan", "front", "overlay", "resolved"}
      /\ stage # None =>
           /\ run \in Runs /\ store = ScanStore(run)
           /\ query.var = "step_value" /\ query.ts \in EventTimes(run)
  BY DEF StepInv
<1>6. stage # None => /\ run' \in Runs /\ store' = ScanStore(run')
                      /\ query'.var = "step_value" /\ query'.ts \in EventTimes(run')
  BY <1>3, <1>5
<1>a. ASSUME AskScan
      PROVE  StepInv'
  <2>1. /\ run' = run /\ stage' = stage /\ streams' = streams /\ off' = off /\ active' = active
        /\ pending' = pending /\ steps' = steps
    BY <1>a DEF AskScan, stepVars
  <2>2. status # "answered"
    BY <1>a DEF AskScan, AsOfNext, AsOf, EnterStream, ReadValue, LacksField, SkipBack, LeaveStream, NoValue
  <2>3. stage \in {None, "scan"}
    BY <1>5, <2>2 DEF StepInv
  <2>4. stage = "scan" => active = <<>> /\ off = 0 /\ steps = <<>>
    BY DEF StepInv
  <2>5. QED
    BY <1>2, <1>6, <2>1, <2>3, <2>4, StagesAssumption DEF StepInv
<1>b. ASSUME SegConfigs
      PROVE  StepInv'
  <2>1. /\ stage = "scan" /\ status = "answered" /\ stage' = "front" /\ streams' = StreamsFor
        /\ status' = status /\ off' = off /\ active' = active /\ steps' = steps
    BY <1>b DEF SegConfigs, asOfVars
  <2>2. active = <<>> /\ off = 0 /\ steps = <<>> /\ run \in Runs
    BY <1>5, <2>1, StagesAssumption DEF StepInv
  <2>3. PICK o : o = StreamsFor
    OBVIOUS
  <2>4. o = Ascending(Declaring(run))
    BY <2>2, <2>3, StreamsForIs
  <2>5. FrontsAt(run, o, <<>>, o, 0, 0)
    BY <2>2, <2>4, FrontsStart
  <2>6. \E j : FrontsAt(run', StreamsFor', active', streams', off', j)
    BY <1>3, <1>4, <2>1, <2>2, <2>3, <2>5
  <2>7. QED
    BY <1>2, <1>6, <2>1, <2>2, <2>6, StagesAssumption DEF StepInv
\* The front stage.
<1>7. ASSUME stage = "front"
      PROVE  /\ run \in Runs /\ StreamsFor = Ascending(Declaring(run)) /\ steps = <<>>
             /\ status = "answered" /\ stage # None
             /\ \E j : FrontsAt(run, StreamsFor, active, streams, off, j)
  BY <1>5, <1>7, StagesAssumption, StreamsForIs DEF StepInv
<1>c. ASSUME WalkTransition
      PROVE  StepInv'
  <2>1. /\ stage = "front" /\ streams # <<>> /\ off < run.front[Head(streams)]
        /\ run.dgrams[Head(streams)][off + 1].service # "L1Accept"
        /\ stage' = stage /\ status' = status /\ streams' = streams /\ steps' = steps /\ off' = off + 1
    BY <1>c DEF WalkTransition, InFront, L1Accepts, asOfVars
  <2>2. PICK d : d = run.dgrams[Head(streams)][off + 1]
    OBVIOUS
  <2>3. active' = Overlaid(active, d.segs, d.ts)
    BY <1>c, <2>2 DEF WalkTransition
  <2>4. PICK j : FrontsAt(run, StreamsFor, active, streams, off, j)
    BY <1>7, <2>1
  <2>5. PICK o : o = StreamsFor
    OBVIOUS
  <2>6. FrontsAt(run, o, Overlaid(active, d.segs, d.ts), streams, off + 1, j)
    BY <1>7, <2>1, <2>2, <2>4, <2>5, FrontsWalk
  <2>7. \E k : FrontsAt(run', StreamsFor', active', streams', off', k)
    BY <1>3, <1>4, <2>1, <2>3, <2>5, <2>6
  <2>8. QED
    BY <1>2, <1>6, <1>7, <2>1, <2>7, StagesAssumption DEF StepInv
<1>d. ASSUME LeaveFront
      PROVE  StepInv'
  <2>1. /\ stage = "front" /\ streams # <<>>
        /\ ~ (off < run.front[Head(streams)] /\ run.dgrams[Head(streams)][off + 1].service # "L1Accept")
        /\ stage' = stage /\ status' = status /\ streams' = Tail(streams) /\ steps' = steps
        /\ off' = 0 /\ active' = active
    BY <1>d DEF LeaveFront, InFront, L1Accepts, asOfVars
  <2>2. PICK j : FrontsAt(run, StreamsFor, active, streams, off, j)
    BY <1>7, <2>1
  <2>3. PICK o : o = StreamsFor
    OBVIOUS
  <2>4. FrontsAt(run, o, active, Tail(streams), 0, j + 1)
    BY <1>7, <2>1, <2>2, <2>3, FrontsLeave
  <2>5. \E k : FrontsAt(run', StreamsFor', active', streams', off', k)
    BY <1>3, <1>4, <2>1, <2>3, <2>4
  <2>6. QED
    BY <1>2, <1>6, <1>7, <2>1, <2>5, StagesAssumption DEF StepInv
<1>e. ASSUME GroupScanRecords
      PROVE  StepInv'
  <2>1. /\ stage = "front" /\ streams = <<>> /\ stage' = "overlay" /\ status' = status
        /\ steps' = steps /\ active' = active
    BY <1>e DEF GroupScanRecords, asOfVars
  <2>2. run \in Runs /\ Range(StreamsFor) = Declaring(run)
    BY <1>7, <2>1, StreamsForIs
  <2>3. pending' = Ascending(ScanTimes(run))
    BY <1>e, <2>2 DEF GroupScanRecords, ScanTimes, TimesOf
  <2>4. PICK j : FrontsAt(run, StreamsFor, active, <<>>, off, j)
    BY <1>7, <2>1
  <2>5. \A s \in Declaring(run) : \A seg \in run.segs[s] :
            AtWrite(run, active, s, seg, FrontEnd(run, s))
    BY <1>7, <2>1, <2>4, FrontsDone
  <2>6. OverlaysAt(run, active, Ascending(ScanTimes(run)), <<>>, -1)
    BY <2>2, <2>5, OverlaysStart
  <2>7. \E t : OverlaysAt(run', active', pending', steps', t)
    BY <1>3, <1>7, <2>1, <2>3, <2>6
  <2>8. QED
    BY <1>2, <1>6, <1>7, <2>1, <2>7, StagesAssumption DEF StepInv
<1>8. ASSUME stage = "overlay"
      PROVE  /\ run \in Runs /\ status = "answered" /\ stage # None
             /\ \E t : OverlaysAt(run, active, pending, steps, t)
  BY <1>5, <1>8, StagesAssumption DEF StepInv
<1>f. ASSUME LayOver
      PROVE  StepInv'
  <2>1. /\ stage = "overlay" /\ pending # <<>> /\ stage' = stage /\ status' = status
        /\ pending' = Tail(pending)
    BY <1>f DEF LayOver, asOfVars
  <2>2. PICK u : u = Head(pending)
    OBVIOUS
  <2>3. PICK t : OverlaysAt(run, active, pending, steps, t)
    BY <1>8, <2>1
  <2>4. run \in Runs
    BY <1>8, <2>1
  <2>5. \E v : OverlaysAt(run', active', pending', steps', v)
    <3>1. CASE ToldAt(run, u)
      <4>1. BeginStepsAt(u) # {}
        BY <2>4, <3>1, BeginStepsTold
      <4>2. PICK c : c = Overlaid(active, UNION {d.segs : d \in BeginStepsAt(u)}, u)
        OBVIOUS
      <4>3. active' = c /\ steps' = Append(steps, [ts |-> u, config |-> c])
        BY <1>f, <2>2, <4>1, <4>2 DEF LayOver
      <4>4. c = Overlaid(active, WrittenAt(run, u), u)
        BY <2>4, <4>2, BeginStepsTold
      <4>5. OverlaysAt(run, c, Tail(pending), Append(steps, [ts |-> u, config |-> c]), u)
        BY <2>1, <2>2, <2>3, <2>4, <3>1, <4>4, OverlaysLay
      <4>6. QED
        BY <1>3, <2>1, <4>3, <4>5
    <3>2. CASE ~ToldAt(run, u)
      <4>1. BeginStepsAt(u) = {}
        BY <2>4, <3>2, BeginStepsTold
      <4>2. active' = active /\ steps' = steps
        BY <1>f, <2>2, <4>1 DEF LayOver
      <4>3. OverlaysAt(run, active, Tail(pending), steps, u)
        BY <2>1, <2>2, <2>3, <2>4, <3>2, OverlaysSkip
      <4>4. QED
        BY <1>3, <2>1, <4>2, <4>3
    <3>3. QED
      BY <3>1, <3>2
  <2>6. QED
    BY <1>2, <1>6, <1>8, <2>1, <2>5, StagesAssumption DEF StepInv
<1>g. ASSUME Resolve
      PROVE  StepInv'
  <2>1. /\ stage = "overlay" /\ pending = <<>> /\ stage' = "resolved" /\ status' = status
        /\ steps' = IF steps = <<>> THEN <<[ts |-> None, config |-> active]>> ELSE steps
    BY <1>g DEF Resolve, asOfVars
  <2>2. PICK t : OverlaysAt(run, active, <<>>, steps, t)
    BY <1>8, <2>1
  <2>3. /\ t \in Int /\ StepsListed(run, steps, t)
        /\ \A u \in Nat : ToldAt(run, u) => u <= t
    BY <2>2 DEF OverlaysAt
  <2>4. CASE steps # <<>>
    <3>1. Len(steps) > 0
      BY <2>3, <2>4 DEF StepsListed
    <3>2. ResolvedAt(run', steps')
      BY <1>3, <2>1, <2>3, <2>4, <3>1 DEF ResolvedAt
    <3>3. QED
      BY <1>2, <1>6, <1>8, <2>1, <3>2, StagesAssumption DEF StepInv
  <2>5. CASE steps = <<>>
    <3>1. \A u \in Nat : ~ToldAt(run, u)
      <4>1. Len(steps) = 0
        BY <2>5
      <4>2. \A k \in 1..Len(steps) : FALSE
        BY <4>1
      <4>3. QED
        BY <2>3, <4>2 DEF StepsListed
    <3>2. \A s \in Declaring(run) : \A seg \in run.segs[s] : AtStep(run, active, s, seg, -1)
      <4>1. ASSUME NEW s \in Declaring(run), NEW seg \in run.segs[s]
            PROVE  AtStep(run, active, s, seg, -1)
        <5>1. AtStep(run, active, s, seg, t)
          BY <2>2 DEF OverlaysAt
        <5>2. \A i \in StepsOf(run, s) : FALSE
          BY <1>8, <2>1, <3>1, ToldIs
        <5>3. QED
          BY <5>1, <5>2 DEF AtStep
      <4>2. QED
        BY <4>1
    <3>3. ResolvedAt(run', steps')
      BY <1>3, <2>1, <2>5, <3>1, <3>2 DEF ResolvedAt
    <3>4. QED
      BY <1>2, <1>6, <1>8, <2>1, <3>3, StagesAssumption DEF StepInv
  <2>6. QED
    BY <2>4, <2>5
<1>9. QED
  BY <1>a, <1>b, <1>c, <1>d, <1>e, <1>f, <1>g DEF StepNext

\* The invariant reads the variables of the specification only.
LEMMA StepInvStutters ==
  ASSUME StepInv, UNCHANGED <<asOfVars, stepVars>>
  PROVE  StepInv'
<1>1. LookInv'
  BY LookStutters DEF StepInv
<1>2. /\ run' = run /\ stage' = stage /\ streams' = streams /\ off' = off /\ active' = active
      /\ pending' = pending /\ steps' = steps /\ store' = store /\ query' = query /\ status' = status
  BY DEF asOfVars, stepVars
<1>3. StreamsFor' = StreamsFor
  BY <1>2 DEF StreamsFor
<1>4. QED
  BY <1>1, <1>2, <1>3 DEF StepInv

\* The invariant of the configurations holds always.
LEMMA StepInductive == StepSpec => []StepInv
<1>1. StepInv /\ [StepNext]_<<asOfVars, stepVars>> => StepInv'
  BY StepInvNext, StepInvStutters
<1>2. QED
  BY <1>1, StepInvInit, PTL DEF StepSpec

LEMMA GreatestElement ==
  ASSUME NEW n \in Nat, NEW T, T \subseteq 1..n, T # {}
  PROVE  Max(T) \in T /\ \A y \in T : y <= Max(T)
<1> DEFINE U == {n - y : y \in T}
<1>1. \A y \in T : y \in 1..n /\ n - y \in Nat
  OBVIOUS
<1>2. U \subseteq Nat /\ U # {}
  BY <1>1
<1>3. PICK u \in U : \A w \in U : u <= w
  <2> HIDE DEF U
  <2>1. QED
    BY <1>2, LeastElement
<1>4. PICK x \in T : u = n - x
  OBVIOUS
<1>5. ASSUME NEW y \in T
      PROVE  y <= x
  <2>1. n - x <= n - y
    BY <1>3, <1>4
  <2>2. QED
    BY <1>1, <2>1
<1>6. T \subseteq Int
  BY <1>1
<1>7. Max(T) = x
  BY <1>5, <1>6, MaxIs
<1>8. QED
  BY <1>5, <1>7

\* Step k is the one that an event at q belongs to.
BegunAt(k, q) ==
    /\ k \in DOMAIN steps /\ steps[k].ts \in Nat /\ steps[k].ts <= q
    /\ ToldAt(run, steps[k].ts)
    /\ \A u \in Nat : ToldAt(run, u) => (u <= q <=> u <= steps[k].ts)
    /\ \A s \in Declaring(run) : \A seg \in run.segs[s] :
         AtStep(run, steps[k].config, s, seg, steps[k].ts)

\* No step has begun at q.
NoneBegun(q) ==
    /\ \A u \in Nat : ToldAt(run, u) => u > q
    /\ \A i \in DOMAIN steps : steps[i].ts = None \/ steps[i].ts > q
    /\ \E t \in Int : \A s \in Declaring(run) : \A seg \in run.segs[s] :
         AtStep(run, steps[1].config, s, seg, t)

Begun(q) == {i \in DOMAIN steps : steps[i].ts # None /\ steps[i].ts <= q}

\* Pos, said of the steps begun.
LEMMA PosIs ==
  ASSUME NEW q \in Nat
  PROVE  Pos(q) = IF Begun(q) = {} THEN 1 ELSE Max(Begun(q))
BY DEF Pos, Begun

\* Pos finds the step an event belongs to, or the first where none has begun.
LEMMA StepAtEvent ==
  ASSUME run \in Runs, ResolvedAt(run, steps), NEW q \in Nat
  PROVE  BegunAt(Pos(q), q) \/ (Pos(q) = 1 /\ NoneBegun(q))
<1>1. CASE \E t \in Int : /\ StepsListed(run, steps, t) /\ Len(steps) > 0
                          /\ \A u \in Nat : ToldAt(run, u) => u <= t
  <2>1. PICK t \in Int : /\ StepsListed(run, steps, t) /\ Len(steps) > 0
                         /\ \A u \in Nat : ToldAt(run, u) => u <= t
    BY <1>1
  <2>2. PICK n \in Nat : n = Len(steps)
    BY <2>1 DEF StepsListed
  <2>3. DOMAIN steps = 1..n /\ n > 0
    <3>1. PICK S : steps \in Seq(S)
      BY <2>1 DEF StepsListed
    <3>2. QED
      BY <2>1, <2>2, <3>1
  <2>4. \A k \in 1..n :
          /\ steps[k].ts \in Nat /\ ToldAt(run, steps[k].ts)
          /\ \A s \in Declaring(run) : \A seg \in run.segs[s] :
               AtStep(run, steps[k].config, s, seg, steps[k].ts)
    BY <2>1, <2>2 DEF StepsListed
  <2>5. \A j, k \in 1..n : j < k => steps[j].ts < steps[k].ts
    BY <2>1, <2>2 DEF StepsListed
  <2>6. \A u \in Nat : ToldAt(run, u) => \E k \in 1..n : steps[k].ts = u
    BY <2>1, <2>2 DEF StepsListed
  <2>7. \A k \in 1..n : steps[k].ts # None
    <3>1. \A k \in 1..n : steps[k].ts \in Int
      BY <2>4
    <3>2. QED
      BY <3>1, NoneAssumption
  <2>8. PICK b : b = Begun(q)
    OBVIOUS
  <2>9. b = {i \in 1..n : steps[i].ts <= q}
    BY <2>3, <2>7, <2>8 DEF Begun
  <2>10. CASE b = {}
    <3>1. Pos(q) = 1 /\ 1 \in 1..n
      <4>1. Pos(q) = 1
        BY <2>8, <2>10, PosIs
      <4>2. QED
        BY <2>3, <4>1
    <3>2. \A k \in 1..n : steps[k].ts > q
      BY <2>4, <2>9, <2>10
    <3>3. \A u \in Nat : ToldAt(run, u) => u > q
      BY <2>6, <3>2
    <3>4. steps[1].ts \in Int
      BY <2>4, <3>1
    <3>5. \E v \in Int : \A s \in Declaring(run) : \A seg \in run.segs[s] :
             AtStep(run, steps[1].config, s, seg, v)
      BY <2>4, <3>1, <3>4
    <3>6. QED
      BY <2>3, <3>1, <3>2, <3>3, <3>5 DEF NoneBegun
  <2>11. CASE b # {}
    <3>1. PICK k : k = Max(b)
      OBVIOUS
    <3>2. b \subseteq 1..n
      BY <2>9
    <3>3. k \in b /\ \A y \in b : y <= k
      BY <2>11, <3>1, <3>2, GreatestElement
    <3>4. Pos(q) = k
      BY <2>8, <2>11, <3>1, PosIs
    <3>5. k \in 1..n /\ steps[k].ts <= q
      BY <2>9, <3>3
    <3>6. PICK v \in Nat : v = steps[k].ts
      BY <2>4, <3>5
    <3>7. ASSUME NEW u \in Nat, ToldAt(run, u)
          PROVE  u <= q <=> u <= v
      <4>1. PICK i \in 1..n : steps[i].ts = u
        BY <2>6, <3>7
      <4>2. u <= q => i <= k
        BY <2>9, <3>3, <4>1
      <4>3. i <= k => u <= v
        <5>1. i < k => u < v
          BY <2>5, <3>5, <3>6, <4>1
        <5>2. i = k => u = v
          BY <3>6, <4>1
        <5>3. QED
          BY <3>5, <5>1, <5>2
      <4>4. u <= v => u <= q
        BY <3>5, <3>6
      <4>5. QED
        BY <4>2, <4>3, <4>4
    <3>8. BegunAt(k, q)
      BY <2>3, <2>4, <3>5, <3>6, <3>7 DEF BegunAt
    <3>9. QED
      BY <3>4, <3>8
  <2>12. QED
    BY <2>10, <2>11
<1>2. CASE \E config :
             /\ steps = <<[ts |-> None, config |-> config]>>
             /\ \A u \in Nat : ~ToldAt(run, u)
             /\ \A s \in Declaring(run) : \A seg \in run.segs[s] : AtStep(run, config, s, seg, -1)
  <2>1. PICK config :
             /\ steps = <<[ts |-> None, config |-> config]>>
             /\ \A u \in Nat : ~ToldAt(run, u)
             /\ \A s \in Declaring(run) : \A seg \in run.segs[s] : AtStep(run, config, s, seg, -1)
    BY <1>2
  <2>2. DOMAIN steps = {1} /\ steps[1].ts = None /\ steps[1].config = config
    BY <2>1
  <2>3. Begun(q) = {}
    BY <2>2 DEF Begun
  <2>4. Pos(q) = 1
    BY <2>3, PosIs
  <2>5. -1 \in Int
    OBVIOUS
  <2>6. \A s \in Declaring(run) : \A seg \in run.segs[s] : AtStep(run, steps[1].config, s, seg, -1)
    BY <2>1, <2>2
  <2>7. QED
    BY <2>1, <2>2, <2>4, <2>5, <2>6 DEF NoneBegun
<1>3. QED
  BY <1>1, <1>2 DEF ResolvedAt

\* A segment of a contributor has steps of its own stream at the event, or none.
LEMMA ResolvedIsActive == StepInv => ConfigActiveAtEvent
<1>1. SUFFICES ASSUME StepInv, stage = "resolved", Regular,
                      NEW s \in Contributors(query.ts), NEW seg \in run.segs[s]
               PROVE  ActiveIn(steps[Pos(query.ts)].config, s, seg, query.ts)
  BY DEF ConfigActiveAtEvent, ActiveIn
<1>2. run \in Runs /\ query.ts \in EventTimes(run) /\ ResolvedAt(run, steps)
  <2>1. stage # None
    BY <1>1, StagesAssumption
  <2>2. QED
    BY <1>1, <2>1 DEF StepInv
<1>3. PICK q \in Nat : q = query.ts
  BY <1>2, EventTimesAreNumbers
<1>4. s \in DOMAIN run.dgrams /\ \E d \in Range(run.dgrams[s]) : d.service \in L1Accepts /\ d.ts = q
  BY <1>1, <1>3 DEF Contributors
<1>5. PICK e \in DOMAIN run.dgrams[s] :
         run.dgrams[s][e].service \in L1Accepts /\ run.dgrams[s][e].ts = q
  BY <1>4 DEF Range
<1>6. e \in Transitions(s, "L1Accept")
  BY <1>5 DEF Transitions, L1Accepts
<1>7. s \in Declaring(run)
  <2>1. DOMAIN run.segs = DOMAIN run.dgrams
    BY <1>2, DeclaringIs
  <2>2. QED
    BY <1>1, <1>4, <2>1 DEF Declaring
<1>8. PICK k : k = Pos(q)
  OBVIOUS
<1>9. \A i \in StepsOf(run, s) : run.dgrams[s][i].ts \in Nat /\ ToldAt(run, run.dgrams[s][i].ts)
  BY <1>2, <1>7, ToldIs
<1>10. \E t \in Int : AtStep(run, steps[k].config, s, seg, t) /\ SameSteps(s, q, t)
  <2>1. CASE BegunAt(k, q)
    <3>1. steps[k].ts \in Int /\ AtStep(run, steps[k].config, s, seg, steps[k].ts)
      BY <1>1, <1>7, <2>1 DEF BegunAt
    <3>2. SameSteps(s, q, steps[k].ts)
      BY <1>9, <2>1 DEF BegunAt, SameSteps
    <3>3. QED
      BY <3>1, <3>2
  <2>2. CASE k = 1 /\ NoneBegun(q)
    <3>1. PICK t \in Int : AtStep(run, steps[k].config, s, seg, t)
      BY <1>1, <1>7, <2>2 DEF NoneBegun
    <3>2. \A i \in StepsOf(run, s) : run.dgrams[s][i].ts > q
      BY <1>9, <2>2 DEF NoneBegun
    <3>3. \A i \in StepsOf(run, s) : \E j \in StepsOf(run, s) : run.dgrams[s][j].ts <= q
      BY <1>1, <1>2, <1>4, <1>5, <1>6, CarriedBefore
    <3>4. StepsOf(run, s) = {}
      BY <1>9, <3>2, <3>3
    <3>5. SameSteps(s, q, t)
      BY <3>4 DEF SameSteps
    <3>6. QED
      BY <3>1, <3>5
  <2>3. QED
    BY <1>2, <1>8, <2>1, <2>2, StepAtEvent
<1>11. PICK t \in Int : AtStep(run, steps[k].config, s, seg, t) /\ SameSteps(s, q, t)
  BY <1>10
<1>12. ActiveIn(steps[k].config, s, seg, q)
  <2>1. run.dgrams[s][e].ts = q
    BY <1>5
  <2>2. AtStep(run, steps[k].config, s, seg, t) /\ SameSteps(s, run.dgrams[s][e].ts, t)
    BY <1>11, <2>1
  <2>3. ActiveIn(steps[k].config, s, seg, run.dgrams[s][e].ts)
    BY <1>1, <1>2, <1>4, <1>6, <2>2, StepIsWritten
  <2>4. QED
    BY <2>1, <2>3
<1>13. QED
  BY <1>3, <1>8, <1>12

\* Run.seg_configs answers, for every run, segment and event, the configuration
\* that psana's stateful reader would have there: the last one written before.
THEOREM AlwaysConfigActive == StepSpec => []ConfigActiveAtEvent
<1>1. StepInv => ConfigActiveAtEvent
  BY ResolvedIsActive
<1>2. QED
  BY <1>1, StepInductive, PTL

-----------------------------------------------------------------------------
(* The two lookups put an event in one step                                *)

\* Only stream 0 answers for the step.
LEMMA StepOwner ==
  ASSUME store = ScanStore(run), query.var = "step_value"
  PROVE  AlgOf(query.var) = 1 /\ Len(Owners) = 1 /\ Owners[1] = 0
<1>1. PICK alg : alg = [tables |-> [s \in {0} |-> {"step_value"}]]
  OBVIOUS
<1>2. store.algs = <<alg>> /\ DOMAIN alg.tables = {0} /\ Fields(alg) = {"step_value"}
  BY <1>1 DEF ScanStore, Fields, Range
<1>3. DOMAIN store.algs = {1} /\ store.algs[1] = alg
  BY <1>2
<1> DEFINE having == {i \in DOMAIN store.algs : query.var \in Fields(store.algs[i])}
<1>4. having = {1}
  BY <1>2, <1>3
<1>5. Min(having) = 1
  <2>1. having \subseteq Nat /\ having # {}
    BY <1>4
  <2> HIDE DEF having
  <2>2. Min(having) \in having
    BY <2>1, MinProperties
  <2>3. QED
    BY <1>4, <2>2
<1>6. AlgOf(query.var) = 1
  BY <1>4, <1>5 DEF AlgOf
<1>7. 1 # None
  BY NoneAssumption
<1>8. Owners = Ascending({0})
  BY <1>2, <1>3, <1>6, <1>7 DEF Owners, OwningStreams
<1>9. IsFiniteSet({0}) /\ Cardinality({0}) = 1
  BY FS_Singleton, Zenon
<1>10. {0} \subseteq Int
  OBVIOUS
<1>11. /\ Len(Ascending({0})) = Cardinality({0})
       /\ \A k \in 1..Cardinality({0}) : Ascending({0})[k] \in {0}
  BY <1>9, <1>10, AscendingLists
<1>12. Len(Owners) = 1 /\ Owners[1] \in {0}
  BY <1>8, <1>9, <1>11
<1>13. QED
  BY <1>6, <1>12

\* The records that answer are the BeginSteps of stream 0 that have begun.
LEMMA HoldersAreSteps ==
  ASSUME run \in Runs, store = ScanStore(run), query.var = "step_value", StoreOK
  PROVE  /\ \A i \in Holders[0] :
              /\ i \in 1..Len(Records(0)) /\ Records(0)[i].ts \in Nat
              /\ Records(0)[i].ts <= query.ts /\ Records(0)[i].ts \in StepTimes(0)
         /\ \A v \in StepTimes(0) : v <= query.ts => \E i \in Holders[0] : Records(0)[i].ts = v
         /\ AscendingTimes(Records(0)) /\ DOMAIN Records(0) = 1..Len(Records(0))
<1>1. 0 \in DOMAIN run.dgrams
  BY DeclaringIs
<1>2. PICK rec : rec = ScanStore(run).records[0]
  OBVIOUS
<1>3. Records(0) = rec
  <2>1. DOMAIN store.records = DOMAIN run.dgrams
    BY DEF ScanStore
  <2>2. QED
    BY <1>1, <1>2, <2>1 DEF Records
<1>4. PICK n \in Nat : n = Len(rec)
  <2>1. Len(rec) \in Nat
    BY <1>3, RecordsOK
  <2>2. QED
    BY <2>1
<1>5. PICK sr : sr = ScanRecords(run, 0)
  OBVIOUS
<1>6. /\ rec \in Seq(Record) /\ AscendingTimes(rec)
      /\ DOMAIN sr = 1..n
      /\ \A k \in 1..n : /\ rec[k].ts = sr[k].ts
                         /\ 1 \in rec[k].algs <=> sr[k].service = "BeginStep"
  <2>1. LET r0 == ScanStore(run).records[0] IN
         /\ r0 \in Seq(Record) /\ AscendingTimes(r0)
         /\ Len(r0) \in Nat /\ Len(ScanRecords(run, 0)) = Len(r0)
         /\ DOMAIN ScanRecords(run, 0) = 1..Len(r0)
         /\ \A k \in 1..Len(r0) :
              /\ r0[k].ts = ScanRecords(run, 0)[k].ts
              /\ 1 \in r0[k].algs <=> 0 = 0 /\ ScanRecords(run, 0)[k].service = "BeginStep"
    BY <1>1, ScanStoreRecords
  <2>2. QED
    BY <1>2, <1>4, <1>5, <2>1
<1>7. \A k \in 1..n : rec[k].ts \in Nat
  <2>1. \A k \in 1..n : rec[k] \in Record
    BY <1>4, <1>6
  <2>2. QED
    BY <2>1 DEF Record
<1>8. PICK h : h = SearchSorted(0)
  OBVIOUS
<1>9. h \in 0..n /\ \A i \in 1..n : rec[i].ts <= query.ts <=> i <= h
  BY <1>3, <1>4, <1>8, SearchSplits
<1>10. Holders[0] = {i \in 1..h : 1 \in rec[i].algs}
  BY <1>3, <1>8, StepOwner DEF Holders, Holds
<1>11. PICK g : g = run.dgrams[0]
  OBVIOUS
<1>12. Range(sr) = {g[i] : i \in ScanAt(run, 0)}
  BY <1>1, <1>5, <1>11, ScanRange
<1>13. StepTimes(0) = {g[i].ts : i \in {j \in DOMAIN g : g[j].service = "BeginStep"}}
  BY <1>11 DEF StepTimes, Transitions
<1>14. \A d : d \in Range(sr) /\ d.service = "BeginStep" => d.ts \in StepTimes(0)
  <2>1. ScanAt(run, 0) \subseteq DOMAIN g
    BY <1>11 DEF ScanAt
  <2>2. QED
    BY <1>12, <1>13, <2>1
<1>15. ASSUME NEW i \in Holders[0]
       PROVE  /\ i \in 1..n /\ rec[i].ts \in Nat
              /\ rec[i].ts <= query.ts /\ rec[i].ts \in StepTimes(0)
  <2>1. i \in 1..h /\ 1 \in rec[i].algs
    BY <1>10
  <2>2. i \in 1..n /\ i <= h
    BY <1>9, <2>1
  <2>3. sr[i] \in Range(sr) /\ sr[i].service = "BeginStep" /\ rec[i].ts = sr[i].ts
    BY <1>6, <2>1, <2>2 DEF Range
  <2>4. QED
    BY <1>7, <1>9, <1>14, <2>2, <2>3
<1>16. ASSUME NEW v \in StepTimes(0), v <= query.ts
       PROVE  \E i \in Holders[0] : rec[i].ts = v
  <2>1. PICK j \in DOMAIN g : g[j].service = "BeginStep" /\ g[j].ts = v
    BY <1>13
  <2>2. j \in ScanAt(run, 0)
    BY <1>11, <2>1 DEF ScanAt
  <2>3. g[j] \in Range(sr)
    BY <1>12, <2>2
  <2>4. PICK i \in 1..n : sr[i] = g[j]
    BY <1>6, <2>3 DEF Range
  <2>5. rec[i].ts = v /\ 1 \in rec[i].algs
    BY <1>6, <2>1, <2>4
  <2>6. i <= h
    BY <1>9, <1>16, <2>5
  <2>7. i \in 1..h
    BY <1>9, <2>6
  <2>8. QED
    BY <1>10, <2>5, <2>7
<1>17. DOMAIN rec = 1..n
  BY <1>4, <1>6
<1>18. QED
  BY <1>3, <1>4, <1>6, <1>15, <1>16, <1>17

\* Where all streams were told of the same steps, those of stream 0 are told.
LEMMA ToldOfTheSame ==
  ASSUME run \in Runs, \A s \in Range(StreamsFor) : StepTimes(s) = StepTimes(0)
  PROVE  \A u : ToldAt(run, u) <=> u \in StepTimes(0)
<1>1. PICK D : D = Declaring(run)
  OBVIOUS
<1>2. D # {} /\ \A s \in D : StepTimes(s) = StepTimes(0)
  BY <1>1, DeclaringIs, StreamsForIs
<1>3. \A s : StepTimes(s) = {run.dgrams[s][i].ts : i \in StepsOf(run, s)}
  BY DEF StepTimes, Transitions, StepsOf
<1>4. \A u : ToldAt(run, u) <=> \E s \in D : u \in StepTimes(s)
  <2>1. \A u : ToldAt(run, u) <=> \E s \in D : \E i \in StepsOf(run, s) : run.dgrams[s][i].ts = u
    BY <1>1 DEF ToldAt
  <2>2. \A s, u : u \in StepTimes(s) <=> \E i \in StepsOf(run, s) : run.dgrams[s][i].ts = u
    BY <1>3
  <2>3. QED
    BY <2>1, <2>2
<1>5. QED
  BY <1>2, <1>4

LEMMA ResolvedAgrees == StepInv => StepAgreesWithScan
<1>1. SUFFICES ASSUME StepInv, stage = "resolved", depth >= Len(Records(0)),
                      \A s \in Range(StreamsFor) : StepTimes(s) = StepTimes(0)
               PROVE  IF answer = None
                      THEN \A i \in DOMAIN steps : steps[i].ts = None \/ steps[i].ts > query.ts
                      ELSE steps[Pos(query.ts)].ts = Records(0)[answer.position].ts
  BY DEF StepAgreesWithScan
<1>2. /\ run \in Runs /\ store = ScanStore(run) /\ query.var = "step_value"
      /\ status = "answered" /\ LookInv /\ ResolvedAt(run, steps)
  <2>1. stage # None
    BY <1>1, StagesAssumption
  <2>2. QED
    BY <1>1, <2>1 DEF StepInv
<1>3. StoreOK /\ Answered /\ query.ts \in Nat /\ depth \in Nat
  BY <1>2 DEF LookInv, StoreOK
<1>4. PICK q \in Nat : q = query.ts
  BY <1>3
<1>5. PICK rec : rec = Records(0)
  OBVIOUS
<1>6. PICK n \in Nat : n = Len(rec)
  BY <1>3, <1>5, RecordsOK
<1>7. PICK H : H = Holders[0]
  OBVIOUS
<1>8. /\ \A i \in Holders[0] :
            /\ i \in 1..Len(Records(0)) /\ Records(0)[i].ts \in Nat
            /\ Records(0)[i].ts <= query.ts /\ Records(0)[i].ts \in StepTimes(0)
      /\ \A v \in StepTimes(0) : v <= query.ts => \E i \in Holders[0] : Records(0)[i].ts = v
      /\ AscendingTimes(Records(0)) /\ DOMAIN Records(0) = 1..Len(Records(0))
  BY <1>2, <1>3, HoldersAreSteps
<1>9. \A u : ToldAt(run, u) <=> u \in StepTimes(0)
  BY <1>1, <1>2, ToldOfTheSame
<1>10. /\ \A i \in H : i \in 1..n /\ rec[i].ts \in Nat /\ rec[i].ts <= q /\ ToldAt(run, rec[i].ts)
       /\ \A v : ToldAt(run, v) /\ v <= q => \E i \in H : rec[i].ts = v
  BY <1>4, <1>5, <1>6, <1>7, <1>8, <1>9
<1>11. \A i, j \in 1..n : i <= j => rec[i].ts <= rec[j].ts
  BY <1>5, <1>6, <1>8 DEF AscendingTimes
<1>12. PICK k : k = Pos(q)
  OBVIOUS
<1>13. BegunAt(k, q) \/ (k = 1 /\ NoneBegun(q))
  BY <1>2, <1>12, StepAtEvent
<1>14. Len(Owners) = 1 /\ Owners[1] = 0
  BY <1>2, StepOwner
<1>15. CASE answer = None /\ \A j \in 1..Len(Owners) : Silent(Owners[j])
  <2>1. Silent(0)
    BY <1>14, <1>15
  <2>2. Found[0] = SearchSorted(0)
    BY DEF Found
  <2>3. Found[0] \in 0..n
    BY <1>3, <1>5, <1>6, <2>2, SearchSplits
  <2>4. \A i \in H : i <= Found[0] - depth
    BY <1>7, <2>1 DEF Silent
  <2>5. H = {}
    BY <1>1, <1>3, <1>5, <1>6, <1>10, <2>3, <2>4
  <2>6. \A u : ToldAt(run, u) => ~ (u <= q)
    BY <1>10, <2>5
  <2>7. ~BegunAt(k, q)
    BY <2>6 DEF BegunAt
  <2>8. NoneBegun(q)
    BY <1>13, <2>7
  <2>9. \A i \in DOMAIN steps : steps[i].ts = None \/ steps[i].ts > q
    BY <2>8 DEF NoneBegun
  <2>10. QED
    BY <1>4, <1>15, <2>9
<1>16. CASE \E j \in 1..Len(Owners), i \in Nat :
               /\ Newest(Owners[j], i)
               /\ answer = [stream |-> Owners[j], position |-> i]
  <2>1. PICK i \in Nat : Newest(0, i) /\ answer = [stream |-> 0, position |-> i]
    BY <1>14, <1>16
  <2>2. answer # None /\ answer.position = i
    <3>1. [stream |-> 0, position |-> i] \in [stream : Int, position : Int]
      OBVIOUS
    <3>2. QED
      BY <2>1, <3>1, NoneAssumption
  <2>3. i \in H /\ \A j \in H : j <= i
    BY <1>7, <2>1 DEF Newest
  <2>4. PICK v \in Nat : v = rec[i].ts
    BY <1>10, <2>3
  <2>5. v <= q /\ ToldAt(run, v) /\ i \in 1..n
    BY <1>10, <2>3, <2>4
  <2>6. ~NoneBegun(q)
    BY <2>5 DEF NoneBegun
  <2>7. BegunAt(k, q)
    BY <1>13, <2>6
  <2>8. PICK w \in Nat : w = steps[k].ts
    BY <2>7 DEF BegunAt
  <2>9. w <= q /\ ToldAt(run, w) /\ \A u \in Nat : ToldAt(run, u) => (u <= q <=> u <= w)
    BY <2>7, <2>8 DEF BegunAt
  <2>10. v <= w
    BY <2>5, <2>9
  <2>11. PICK j \in H : rec[j].ts = w
    BY <1>10, <2>9
  <2>12. w <= v
    BY <1>10, <1>11, <2>3, <2>4, <2>5, <2>11
  <2>13. v = w
    BY <2>10, <2>12
  <2>14. QED
    BY <1>4, <1>5, <1>12, <2>2, <2>4, <2>8, <2>13
<1>17. QED
  BY <1>2, <1>3, <1>15, <1>16 DEF Answered, FirstHeld

\* Run.scan and Run.seg_configs put an event in the same step, where the streams
\* were told of the same ones and the search may go back as far as it takes.
THEOREM AlwaysAgreesWithScan == StepSpec => []StepAgreesWithScan
<1>1. StepInv => StepAgreesWithScan
  BY ResolvedAgrees
<1>2. QED
  BY <1>1, StepInductive, PTL
=============================================================================
