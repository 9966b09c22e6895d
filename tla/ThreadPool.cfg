CONSTANTS
    Size = 2
    Dispatchers = {d1, d2}
    NoOne = NoOne
    MaxJobs = 3
    StartMayFail = TRUE
SPECIFICATION FairSpec
INVARIANTS TypeOK NoJobLost OneThreadPerJob RefusedMeansFull
PROPERTIES PoolProceeds
CHECK_DEADLOCK FALSE
