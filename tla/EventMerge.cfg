SPECIFICATION Spec
CONSTANTS
  Streams = {0, 1, 2}
  EventServices = {"L1", "EOB"}
  Services = {"L1", "EOB", "TR"}
  Inputs <- MCInputs
INVARIANTS
  TypeOK
  AscendingEvents
  DropOutIsFinal
  CutIsNotDropOut
PROPERTIES
  BuildsEvents
  RunEnds
CHECK_DEADLOCK FALSE
