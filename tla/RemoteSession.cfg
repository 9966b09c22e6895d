CONSTANTS
    MaxRequests = 3
    Replies = {0, 2}
    Faults = {"connect", "send", "reset", "accept", "die"}
SPECIFICATION FairSpec
INVARIANTS TypeOK InPostedOrder OwnAnswers BacklogSuffices
PROPERTIES EveryRequestEnds
CHECK_DEADLOCK FALSE
