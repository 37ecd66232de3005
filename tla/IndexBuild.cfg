SPECIFICATION Spec
CONSTANTS
  Streams = {0, 1}
  Runs <- MCRuns
  Tolerate = FALSE
  NoFile = NoFile
  None = None
INVARIANTS
  IndexIsCanonical
  EnvOfEitherSource
  RaisesIffDefective
PROPERTY
  BuildEnds
CHECK_DEADLOCK FALSE
