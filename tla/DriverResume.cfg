SPECIFICATION Spec
CONSTANTS
    Jobs <- PlainJobs
    MaxFetches = 1
    MaxCrashes = 1
INVARIANTS
    ResumesFromSave
CHECK_DEADLOCK FALSE
