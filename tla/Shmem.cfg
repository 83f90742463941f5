CONSTANTS
    NumServers = 2
    NumCells = 4
    Shmem = TRUE
    OOBMatch = FALSE
    NumSyncSlots = 2
    LocationAware = FALSE
    ElemBytes = 1
    ShmemMax = 2
    NodeOf <- NodeSplit
    Prog <- ProgShmem
SPECIFICATION Spec
INVARIANT PartsAccounting GetOkCoversQuery PiecesCountedOnce SegmentsReadFilled SyncedStored
PROPERTY GetTerminates
