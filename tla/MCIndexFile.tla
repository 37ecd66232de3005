----------------------------- MODULE MCIndexFile -----------------------------
(***************************************************************************)
(* Two files of an env dgram and an event each, rewritten, replaced and    *)
(* copied by others while the index is built, saved, loaded and read.      *)
(***************************************************************************)
EXTENDS IndexFile, TLC

EnvDgram(t, d) == [ts |-> t, data |-> d, env |-> TRUE]
EventDgram(t, d) == [ts |-> t, data |-> d, env |-> FALSE]

Whole == <<EnvDgram(1, 1), EventDgram(2, 1)>>
Patched == <<EnvDgram(1, 2), EventDgram(2, 2)>>     \* same size, same timestamps
OtherRun == <<EnvDgram(3, 3), EventDgram(4, 3)>>     \* same size, of another run
CutShort == <<EnvDgram(1, 1)>>

MCBodies == {Whole, Patched, OtherRun, CutShort}
OnlyRoot == {"root"}
BothUnderRoot == {"root", "beside"}    \* the index was saved below the build root
Interchangeable == Permutations(Files)
=============================================================================
