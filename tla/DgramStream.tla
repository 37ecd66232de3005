---------------------------- MODULE DgramStream ----------------------------
(***************************************************************************)
(* What one stream promises to the event merge, whatever files back it:    *)
(* its dgrams come one at a time, in file order, none skipped and none     *)
(* twice; only after the last of them does the stream stop, either at a    *)
(* regular end ("ended") or by refusing to go on ("raised"); the consumer  *)
(* may close it at any moment.                                             *)
(***************************************************************************)
EXTENDS Sequences, Naturals

VARIABLES
  dgs,        \* the dgrams this stream has to deliver, in order
  outcome,    \* how the stream stops once they are delivered
  delivered,  \* the dgrams the consumer took so far
  status      \* "open", then "ended" or "raised", finally "closed"

vars == <<dgs, outcome, delivered, status>>

Init ==
  /\ outcome \in {"ended", "raised"}
  /\ delivered = <<>>
  /\ status = "open"

Deliver ==
  /\ status = "open"
  /\ Len(delivered) < Len(dgs)
  /\ delivered' = Append(delivered, dgs[Len(delivered) + 1])
  /\ UNCHANGED <<dgs, outcome, status>>

Stop ==
  /\ status = "open"
  /\ delivered = dgs
  /\ status' = outcome
  /\ UNCHANGED <<dgs, outcome, delivered>>

Close ==
  /\ status # "closed"
  /\ status' = "closed"
  /\ UNCHANGED <<dgs, outcome, delivered>>

Next == Deliver \/ Stop \/ Close

\* The stream owes progress; its consumer does not owe a Close.
Spec == Init /\ [][Next]_vars /\ WF_vars(Deliver \/ Stop)
=============================================================================
