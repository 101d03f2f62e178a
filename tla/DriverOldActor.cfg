SPECIFICATION Spec
CONSTANTS
    Jobs <- KeepingJobs
    MaxFetches = 1
    MaxCrashes = 0
INVARIANTS
    OldActorIsRolloutModel
CHECK_DEADLOCK FALSE
