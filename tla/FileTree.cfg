CONSTANTS
    Name <- Letters
    Drives <- OneDrive
    Listing <- TwoDeep
    MaxItems = 10
    MaxRequests = 5
    Faulty = {3}
SPECIFICATION FairSpec
INVARIANTS TypeOK TreeShown FilesShown DeletesShown
PROPERTIES ComesToRest
CHECK_DEADLOCK FALSE
