SPECIFICATION Spec
CONSTANTS
    DataPath = "bigdata"
    EnvPath = "sidecar"
    ShipsReadEnv = TRUE
    MaxGen = 2
    MaxPid = 3
    MaxFds = 4
    MaxObjects = 2
    MaxDatasets = 2
    Nil = Nil
INVARIANT EnvDescriptorsNameTheirFile
