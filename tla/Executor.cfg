\* The s3d analysis workflow on two ranks: s3d_task on both, one step of
\* its loop (four submissions), analysis tasks of one process each.
CONSTANTS
    r0 = r0
    r1 = r1
    Ranks <- MCRanks
    Registry <- S3DRegistry
    Initial <- S3DInitial
    SubmitApps <- S3DSubmits
    SubmitProcs = 1
    NumTs = 1
SPECIFICATION FairSpec
INVARIANT TypeOK FinishedAfterAllRanks
PROPERTY TasksEventuallyFinished ExecutorsEventuallyExit
