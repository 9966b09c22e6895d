CONSTANTS
    Threads = {t1, t2}
    Data = {d0, d1}
    NoData = d0
    MaxCalls = 4
    HandleLimit = 1
    Faults = {"ctor", "post"}
    RacingDtor = FALSE
SPECIFICATION Spec
SYMMETRY Symmetry
INVARIANTS NoParamForgotten
CHECK_DEADLOCK FALSE
