SPECIFICATION Spec
CONSTANTS
    NumGroups = 1
    NumEngines = 1
    NodesPerEngine = 1
    NumRanks = 1
    MaxFaults = 1
    Layouts <- Hasty
INVARIANTS
    NumNewMatches
