----------------------------- MODULE MCRunIndex -----------------------------
(***************************************************************************)
(* A RunIndex: saved, loaded and read by the event while its files change  *)
(* (IndexFile), or serving one call by position over an index and files    *)
(* that stay (BatchRead).  The two models have no variable in common, and  *)
(* an initial state belongs to one of them: the other never moves.         *)
(***************************************************************************)
EXTENDS MCIndexFile, MCBatchRead

NoCall ==
    /\ run = None /\ status = "none"
    /\ call = [api |-> "read_events", ks |-> <<>>, limit |-> None, batch |-> 0]
    /\ batch = <<>> /\ pending = {} /\ group = <<>> /\ got = {} /\ out = <<>>

RunIndexInit == FileInit /\ (NoCall \/ Init)

RunIndexNext ==
    \/ FileNext /\ status = "none" /\ UNCHANGED vars
    \/ Next /\ UNCHANGED fileVars

RunIndexSpec == RunIndexInit /\ [][RunIndexNext]_<<fileVars, vars>>
=============================================================================
