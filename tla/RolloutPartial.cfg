SPECIFICATION Spec
CONSTANTS
    Target = 1
    OverSampling = 2
    NumSamples = 1
    Concurrency = 2
    GroupRM = FALSE
    HasFilter = TRUE
    MaxRollouts = 3
    MaxDrops = 2
    MaxGroup = 10
INVARIANTS
    TypeOK
    WaitNeverEmpty
    ExactBatch
    GroupsConserved
    BatchScored
    ResumedScored
    QuiescentWhenIdle
PROPERTIES
    KeepsLedger
