SPECIFICATION FairSpec
CONSTANTS
    NumGroups = 2
    NumEngines = 1
    NodesPerEngine = 2
    NumRanks = 2
    MaxFaults = 2
    Layouts <- AllLayouts
INVARIANTS
    TypeOK
    ServesCurrent
    RanksAgree
    MemoryPhases
    ChecksOnboard
    NumNewMatches
PROPERTIES
    JobSurvives
    FailsOnlyUnseen
    UpdatableRestarted
