SPECIFICATION Spec
CONSTANTS
  Streams = {0, 1}
  EventServices = {"L1", "EOB"}
  Services = {"L1", "EOB", "TR"}
  L1Accept = "L1"
  None = None
  Runs <- MCRuns
INVARIANTS
  JoinIsFilter
  RegularYieldsTheIndex
  InLockstep
  ReleasesBoth
PROPERTY
  JoinEnds
CHECK_DEADLOCK FALSE
