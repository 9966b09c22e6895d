CONSTANTS
    Packets <- ThreePackets
    MaxPackets = 2
    BUFFER_SIZE = 21
    Faults = {"cut", "reset"}
SPECIFICATION FairSpec
INVARIANTS TypeOK InOrder
PROPERTIES StreamEnds
CHECK_DEADLOCK FALSE
