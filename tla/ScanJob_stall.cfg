\* Copy job without failures: can a split drain before its scan completes?
CONSTANTS
    NSplits = 1
    MaxBatch = 2
    Op = "SCAN_COPY"
    RowSize <- RowsSpecExample
    CanFail <- FailNone
    StatSize = FALSE
    TopCount = 0
SPECIFICATION Spec
INVARIANT NoStall
\* The job ends: once every split has drained no step is possible.
CHECK_DEADLOCK FALSE
