\* Copy job: two splits, budget 2, failing scanners and writes.
CONSTANTS
    NSplits = 2
    MaxBatch = 2
    Op = "SCAN_COPY"
    RowSize <- RowsTwoByTwo
    CanFail <- FailBoth
    StatSize = FALSE
    TopCount = 0
SPECIFICATION Spec
INVARIANTS TypeOK DrainedMeansIdle AtMostOneReport
PROPERTIES Drains ImplementsScanSplit
\* The job ends: once every split has drained no step is possible.
CHECK_DEADLOCK FALSE
