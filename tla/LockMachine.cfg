CONSTANTS
    MaxCommands = 4
    MaxKeys = 1
SPECIFICATION LockFairSpec
INVARIANTS LockTypeOK Restored
PROPERTIES FollowsLast
CHECK_DEADLOCK FALSE
