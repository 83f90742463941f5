\* A prefetch of a box stored whole on another node: does it copy only
\* segments that hold their data?
CONSTANTS
    NumServers = 2
    NumCells = 4
    Gets <- GetsSameBox
    Stored <- StoredRemoteBox
    NodeOf <- NodePerServer
SPECIFICATION Spec
INVARIANT PrefetchCopiesFilled
