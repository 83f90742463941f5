CONSTANTS
    NumServers = 2
    NumCells = 4
    Gets <- GetsHalves
    Stored <- StoredHalves
    NodeOf <- NodePerServer
SPECIFICATION Spec
INVARIANT TypeOK
PROPERTY GetPeersAnswered
