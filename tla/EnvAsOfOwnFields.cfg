SPECIFICATION AsOfSpec
CONSTANTS
    EnvStores <- MCStores
    Queries <- MCQueries
    Depths = {10}
    None = None
INVARIANT NeverRaises
CHECK_DEADLOCK FALSE
