--------------------------- MODULE MCEventAccess ---------------------------
(***************************************************************************)
(* Discovery: Configures of one or two streams, with a nested table, with  *)
(* raw versions validated or not, cut anywhere, larger than the window;    *)
(* two runs in one process.  Events: a camera of two segments on two       *)
(* streams, a timing detector nested beside segment 0; sound dgrams with   *)
(* any segments and damage words, and dgrams in which one extent or shape  *)
(* has any value.                                                          *)
(***************************************************************************)
EXTENDS EventAccess

Header(type, key, body) == <<[type |-> type, n |-> 1 + Len(body), key |-> key]>> \o body

Names(key, table) ==
    <<[type |-> "Names", n |-> 3, key |-> key, table |-> table],
      [type |-> "front", n |-> 0], [type |-> "fields", n |-> 0]>>

Table(det, type, alg, version, seg, fields) ==
    [det |-> det, type |-> type, alg |-> alg, version |-> version, seg |-> seg, fields |-> fields]

Frame == <<[name |-> "raw", rank |-> 1], [name |-> "gain", rank |-> 0]>>
Cam(seg, version) == Table("cam", "epix", "raw", version, seg, Frame)
Ts == Table("ts", "ts", "raw", 1, 0, <<[name |-> "pulseId", rank |-> 0]>>)
Info == Table("scan", "scan", "info", 5, 0, <<[name |-> "step", rank |-> 0]>>)

Bytes(key, field, count) == [i \in 1 .. count |-> [type |-> "bytes", n |-> i, key |-> key, field |-> field]]
Settings == Header("ShapesData", 9, Bytes(9, "setting", 1))
Configure(body) == Header("Configure", 0, body)
Whole(cells) == [cells |-> cells, len |-> Len(cells)]

\* version 1 is validated, 2 and 3 are not.
First(version) ==
    Configure(Names(1, Cam(0, version)) \o Header("Parent", 0, Names(2, Ts)) \o Settings)
Second(version) == Configure(Header("Parent", 0, Names(1, Info)) \o Names(2, Cam(1, version)))

Cut(cells) == {[cells |-> cells, len |-> l] : l \in 0 .. Len(cells)}

Sound == 0 :> Whole(First(1)) @@ 1 :> Whole(Second(1))

MCRuns ==
    {Sound}
    \cup {0 :> f : f \in Cut(First(2))}
    \cup {0 :> Whole(First(2)) @@ 1 :> f : f \in {Whole(Second(2)), Whole(Second(3))} \cup Cut(Second(1))}
    \cup {0 :> Whole(Header("L1Accept", 0, Settings))}

MCValidated == {<<"epix", 1>>, <<"ts", 1>>}
MCAcks == {<<"epix", 2>>, <<"epix", None>>}

-----------------------------------------------------------------------------
Shapes(counts) == Header("Shapes", 0, [i \in DOMAIN counts |-> [type |-> "shape", n |-> counts[i]]])
CamData(key) == Header("Data", key, Bytes(key, "raw", 2) \o Bytes(key, "gain", 1))

CamShapesData(key, dataFirst) ==
    Header("ShapesData", key,
           IF dataFirst THEN CamData(key) \o Shapes(<<2>>) ELSE Shapes(<<2>>) \o CamData(key))

TsShapesData == Header("ShapesData", 2, Header("Data", 2, Bytes(2, "pulseId", 1)))

Dgram0(parts, dataFirst) ==
    Header("L1Accept", 0,
           (IF "cam" \in parts THEN CamShapesData(1, dataFirst) ELSE <<>>)
           \o (IF "ts" \in parts THEN Header("Parent", 0, TsShapesData) ELSE <<>>)
           \o (IF "more" \in parts THEN Settings ELSE <<>>))
Dgram1(parts) ==
    Header("L1Accept", 0, Header("Parent", 0, IF "cam" \in parts THEN CamShapesData(2, FALSE) ELSE <<>>))

Words == {0, 1, 4096, 4097}

SoundEvents ==
    {[dgrams |-> 0 :> Dgram0(a, FALSE) @@ 1 :> Dgram1(b), damage |-> 0 :> w @@ 1 :> v,
      dropped |-> {}, intact |-> TRUE]
       : a \in SUBSET {"cam", "ts", "more"}, b \in SUBSET {"cam"}, w \in Words, v \in Words}
    \cup {[dgrams |-> 0 :> Dgram0(a, TRUE), damage |-> 0 :> w, dropped |-> out, intact |-> TRUE]
            : a \in SUBSET {"cam", "ts"}, w \in Words, out \in SUBSET {1}}
    \cup {[dgrams |-> 1 :> Dgram1(b), damage |-> 1 :> w, dropped |-> out, intact |-> TRUE]
            : b \in SUBSET {"cam"}, w \in Words, out \in SUBSET {0}}

\* Any cell behind the dgram's own header, data excepted, with any value.
Damaged(cells) ==
    UNION {{[cells EXCEPT ![i].n = v] : v \in 0 .. Len(cells) + 1}
             : i \in {j \in 2 .. Len(cells) : cells[j].type # "bytes"}}

DamagedEvents ==
    {[dgrams |-> 0 :> f @@ 1 :> Dgram1({"cam"}), damage |-> 0 :> 0 @@ 1 :> 0, dropped |-> {}, intact |-> FALSE]
       : f \in UNION {Damaged(Dgram0({"cam", "ts", "more"}, o)) : o \in BOOLEAN}}
    \cup
    {[dgrams |-> 0 :> Dgram0({"cam", "ts"}, FALSE) @@ 1 :> f, damage |-> 0 :> 0 @@ 1 :> 0, dropped |-> {}, intact |-> FALSE]
       : f \in Damaged(Dgram1({"cam"}))}

MCEvents == [r \in MCRuns |-> IF r = Sound THEN SoundEvents \cup DamagedEvents ELSE {}]
=============================================================================
