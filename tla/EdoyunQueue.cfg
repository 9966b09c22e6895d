CONSTANTS
    Threads = {t1, t2}
    Data = {d0, d1}
    NoData = d0
    MaxCalls = 3
    HandleLimit = 3
    Faults = {}
    RacingDtor = FALSE
SPECIFICATION FairSpec
INVARIANTS TypeOK NoParamMisused
PROPERTIES ImplementsFifo CallsReturn
CHECK_DEADLOCK FALSE
