SPECIFICATION Spec
CONSTANT
    Jobs <- AllJobs
INVARIANTS
    TypeOK
    AssertionsHold
    Balanced
    ScheduleComplete
CHECK_DEADLOCK FALSE
