SPECIFICATION Spec
CONSTANT
    Jobs <- TwoRanks
INVARIANT
    RowsAligned
CHECK_DEADLOCK FALSE
