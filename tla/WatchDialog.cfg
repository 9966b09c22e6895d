CONSTANTS
    PictureWidth = 8
    Widths = {6, 13}
    Points <- TwoPoints
    MaxOpens = 2
    MaxPictures = 1
    MaxEvents = 1
    MaxFaults = 1
SPECIFICATION FairSpec
INVARIANTS TypeOK MouseFollows OneWatcher
PROPERTIES WatcherEnds WidthFollows
CHECK_DEADLOCK FALSE
