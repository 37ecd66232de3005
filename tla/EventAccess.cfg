SPECIFICATION Spec
CONSTANTS
    Runs <- MCRuns
    Validated <- MCValidated
    Acks <- MCAcks
    ReadWindow = 3
    MaxOpens = 2
    Events <- MCEvents
    None = None
    Raised = Raised
INVARIANTS
    TablesWholeOrRaise
    VersionsSignalled
    FrameIsTheEvents
    VerdictsAgree
CHECK_DEADLOCK FALSE
