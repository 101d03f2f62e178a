SPECIFICATION FairSpec
CONSTANTS
    Target = 1
    OverSampling = 2
    NumSamples = 2
    Concurrency = 2
    GroupRM = TRUE
    HasFilter = TRUE
    MaxRollouts = 2
    MaxDrops = 1
    MaxGroup = 6
INVARIANTS
    BatchScored
PROPERTIES
    RolloutEnds
