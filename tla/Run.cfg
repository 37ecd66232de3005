SPECIFICATION RunSpec
CONSTANTS
    DataPath = "bigdata"
    EnvPath = "sidecar"
    ShipsReadEnv = FALSE
    MaxGen = 2
    MaxPid = 3
    MaxFds = 4
    MaxObjects = 2
    MaxDatasets = 2
    Nil = Nil
    EnvStores <- MCStores
    Queries <- MCQueries
    Depths = {0, 2, 10}
    Runs <- MCRuns
    None = None
INVARIANTS
    DescriptorsNameTheirFile
    OwnDescriptors
    NothingLost
    AsOfIsReplay
    ConfigActiveAtEvent
    StepAgreesWithScan
CHECK_DEADLOCK FALSE
