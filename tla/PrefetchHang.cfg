CONSTANTS
    NumServers = 2
    NumCells = 4
    Gets <- GetsSpan
    Stored <- StoredSpan
    NodeOf <- NodePerServer
SPECIFICATION Spec
CHECK_DEADLOCK FALSE
PROPERTY GetPeersAnswered
