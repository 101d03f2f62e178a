SPECIFICATION FairSpec
CONSTANTS
    Engine = {e1, e2}
    Request = {r1, r2}
    NumStages = 2
    NumBuckets = 2
    MaxUpdates = 2
    Jobs <- BothJobs
INVARIANTS
    TypeOK
    CallsAligned
PROPERTIES
    KeepsAtomicModel
    UpdateEnds
    RequestsAnswered
