\* The spec example: count scan of rows of sizes 10, 20, 30 with top-2.
CONSTANTS
    NSplits = 1
    MaxBatch = 2
    Op = "SCAN_COUNT"
    RowSize <- RowsSpecExample
    CanFail <- FailNone
    StatSize = TRUE
    TopCount = 2
SPECIFICATION Spec
INVARIANT TopKLargest
\* The job ends: once every split has drained no step is possible.
CHECK_DEADLOCK FALSE
