SPECIFICATION Spec
CONSTANTS
  Hdr = 2
  NoFile = NoFile
  None = None
  ReadChunk = 5
  TrimThreshold = 3
  MaxTotal = 4
  Disks <- MCDisks
INVARIANTS
  TypeOK
  WindowIsFile
  HeadIsOneDgram
  WindowBounded
  RollAscends
PROPERTIES
  ServesTheFiles
  Answers
CHECK_DEADLOCK FALSE
