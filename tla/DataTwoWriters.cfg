CONSTANTS
    NumServers = 2
    NumCells = 4
    Shmem = FALSE
    OOBMatch = FALSE
    NumSyncSlots = 2
    LocationAware = TRUE
    ElemBytes = 1
    ShmemMax = 4
    NodeOf <- NodeLocal
    Prog <- ProgTwoWritersCQ
SPECIFICATION Spec
INVARIANT TypeOK PartsAccounting GetOkCoversQuery PiecesCountedOnce NoDuplicateNotification
PROPERTY GetTerminates CQEventuallyNotified CQOwnPutNotified
