\* Copy job without failures: does split_request_count stay within max_batch_count?
CONSTANTS
    NSplits = 1
    MaxBatch = 2
    Op = "SCAN_COPY"
    RowSize <- RowsSpecExample
    CanFail <- FailNone
    StatSize = FALSE
    TopCount = 0
SPECIFICATION Spec
INVARIANT InFlightWithinBudget
\* The job ends: once every split has drained no step is possible.
CHECK_DEADLOCK FALSE
