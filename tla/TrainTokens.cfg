SPECIFICATION Spec
CONSTANT
    Jobs <- OneRank
INVARIANT
    MicroBatchFits
CHECK_DEADLOCK FALSE
