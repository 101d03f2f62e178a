SPECIFICATION FairSpec
CONSTANTS
    MaxGroup = 4
    Target = 2
    QueueSize = 2
    MaxWaited = 3
    MaxFails = 1
INVARIANTS
    TypeOK
    OneOwner
    ResultsTakenSoon
PROPERTIES
    CallEnds
