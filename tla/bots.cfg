\* Three bots for two keys in a pool of two.
SPECIFICATION Spec
CONSTANTS
    Keys = {k1, k2}
    MaxBots = 3
    MaxContexts = 2
    MaxEvents = 2
INVARIANTS PoolBound SlotsBalance RecordedRuns
PROPERTY StartsComplete
CHECK_DEADLOCK FALSE
