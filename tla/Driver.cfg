SPECIFICATION FairSpec
CONSTANTS
    Jobs <- AllJobs
    MaxFetches = 1
    MaxCrashes = 2
INVARIANTS
    TypeOK
    TrainsEachOnce
    UpdatesAlone
    BoundedStaleness
    OldActorNear
    PromptsOncePerEpoch
    BeginsAtCheckpoint
PROPERTIES
    AllTrained
CHECK_DEADLOCK FALSE
