\* Copy job whose writes may fail: does success still mean every row was copied?
CONSTANTS
    NSplits = 2
    MaxBatch = 2
    Op = "SCAN_COPY"
    RowSize <- RowsTwoByTwo
    CanFail <- FailWrite
    StatSize = FALSE
    TopCount = 0
SPECIFICATION Spec
INVARIANT RowConservation
\* The job ends: once every split has drained no step is possible.
CHECK_DEADLOCK FALSE
