SPECIFICATION RunIndexSpec
CONSTANTS
    Files = {chunk, sidecar}
    Bodies <- MCBodies
    FirstBody <- Whole
    UnderRoot <- OnlyRoot
    MaxChanges = 2
    MaxBuilds = 2
    Runs <- MCRuns
    Requests <- MCRequests
    MaxGap = 1
    MaxSpan = 5
    None = None
SYMMETRY Interchangeable
INVARIANTS
    TypeOK
    ServesWhatWasScanned
    SameAsSerial
    ReadsEachOnce
    MergeBounded
    HeldBounded
PROPERTIES RefusesOnlyChanges
CHECK_DEADLOCK FALSE
