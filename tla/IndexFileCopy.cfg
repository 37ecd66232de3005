SPECIFICATION FileSpec
CONSTANTS
    Files = {chunk, sidecar}
    Bodies <- MCBodies
    FirstBody <- Whole
    UnderRoot <- BothUnderRoot
    MaxChanges = 2
    MaxBuilds = 1
SYMMETRY Interchangeable
PROPERTIES NeverFalselyInvalidated
CHECK_DEADLOCK FALSE
