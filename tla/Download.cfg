CONSTANTS
    Downloads = 3
    Chunk = 2
    Sizes = {0, 2, 5}
    Garbage <- AnyLength
    Short = {0}
    Faults = {"post", "connect", "reset", "change"}
SPECIFICATION FairSpec
INVARIANTS TypeOK WholeFile NoUseAfterClose
PROPERTIES StatusHides
CHECK_DEADLOCK FALSE
