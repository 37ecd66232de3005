------------------------------- MODULE MCRun -------------------------------
(***************************************************************************)
(* A Run: its handle and what it caches, in several processes (RunFacade), *)
(* or one lookup of a slow variable or of a segment's configuration over   *)
(* files that stay (EnvAsOf, StepConfig).  The models have no variable in  *)
(* common, and an initial state belongs to the handle or to a lookup: the  *)
(* other never moves.                                                      *)
(***************************************************************************)
EXTENDS RunFacade, MCStepConfig

NoLookup ==
    /\ store = None /\ query = None /\ depth = 0
    /\ left = <<>> /\ p = None /\ status = "none" /\ answer = None
    /\ run = None /\ stage = None /\ streams = <<>> /\ off = 0
    /\ active = <<>> /\ pending = <<>> /\ steps = <<>>

RunInit == Init /\ (NoLookup \/ StepInit)

RunNext ==
    \/ Next /\ status = "none" /\ UNCHANGED <<asOfVars, stepVars>>
    \/ StepNext /\ UNCHANGED vars

RunSpec == RunInit /\ [][RunNext]_<<vars, asOfVars, stepVars>>
=============================================================================
