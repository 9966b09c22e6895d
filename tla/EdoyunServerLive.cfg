CONSTANTS
    Clients = {1, 2, 3}
    NoClient = 0
    Size = 3
    BufSize = 1
    MaxSent = 2
    Uninit = {"zero", "wild"}
    Fails = FALSE
    Resets = FALSE
    Exits = FALSE
SPECIFICATION FairSpec
PROPERTIES AcceptsOn ServedToTheEnd
CHECK_DEADLOCK FALSE
