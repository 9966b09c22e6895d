CONSTANTS
    Clients = {1, 2, 3}
    NoClient = 0
    Size = 3
    BufSize = 1
    MaxSent = 2
    Uninit = {"zero", "wild"}
    Fails = TRUE
    Resets = TRUE
    Exits = TRUE
SPECIFICATION Spec
INVARIANTS TypeOK AcceptChain OneReader
CHECK_DEADLOCK FALSE
