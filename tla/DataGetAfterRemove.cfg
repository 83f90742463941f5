CONSTANTS
    NumServers = 2
    NumCells = 4
    Shmem = FALSE
    OOBMatch = FALSE
    NumSyncSlots = 2
    LocationAware = FALSE
    ElemBytes = 1
    ShmemMax = 4
    NodeOf <- OneNode
    Prog <- ProgGetAfterRemove
SPECIFICATION Spec
PROPERTY GetTerminates
CHECK_DEADLOCK FALSE
