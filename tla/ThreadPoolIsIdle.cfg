CONSTANTS
    Size = 2
    Dispatchers = {d1, d2}
    NoOne = NoOne
    MaxJobs = 3
    StartMayFail = FALSE
SPECIFICATION Spec
INVARIANTS IsIdleAnswers
CHECK_DEADLOCK FALSE
