SPECIFICATION Spec
CONSTANTS
    DataPath = "bigdata"
    EnvPath = "sidecar"
    ShipsReadEnv = FALSE
    MaxGen = 2
    MaxPid = 1
    MaxFds = 3
    MaxObjects = 2
    MaxDatasets = 1
    Nil = Nil
INVARIANT CachesCoverTheIndex
