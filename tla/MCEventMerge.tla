---------------------------- MODULE MCEventMerge ----------------------------
(***************************************************************************)
(* Three streams of up to three dgrams: gaps, repeated timestamps, streams *)
(* that run dry early or never start, an L1Accept that shares its time     *)
(* with a transition of another stream, and every combination of stops.    *)
(***************************************************************************)
EXTENDS EventMerge

\* L1 is an L1Accept, eob its end-of-batch form, tr any transition.
L1(t) == [ts |-> t, svc |-> "L1"]
Eob(t) == [ts |-> t, svc |-> "EOB"]
Tr(t) == [ts |-> t, svc |-> "TR"]

Contents ==
  {<<>>, <<L1(1)>>, <<L1(2), L1(3)>>, <<Tr(1), L1(2)>>, <<L1(1), L1(3)>>,
   <<L1(2), L1(2)>>, <<Tr(1), Eob(2), L1(3)>>, <<L1(1), Tr(2), L1(3)>>, <<L1(2), L1(2), L1(3)>>}

MCInputs ==
  [Streams -> [dgs : Contents, stop : {"ended", "raised"}]]
=============================================================================
