\* Count scan with size statistics and top-2, failing scanner.
CONSTANTS
    NSplits = 1
    MaxBatch = 2
    Op = "SCAN_COUNT"
    RowSize <- RowsWithTie
    CanFail <- FailNext
    StatSize = TRUE
    TopCount = 2
SPECIFICATION Spec
INVARIANTS RowConservation StatsComplete
PROPERTY ImplementsScanSplit
\* The job ends: once every split has drained no step is possible.
CHECK_DEADLOCK FALSE
