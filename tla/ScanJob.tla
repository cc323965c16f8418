------------------------------ MODULE ScanJob -------------------------------
(***************************************************************************)
(* The scan-and-apply pipeline of src/src/shell/command_helper.h: one      *)
(* scan_data_context per split, scan_data_next (the refill loop) and the   *)
(* callbacks of async_next, async_set / async_del / geo async_set, all     *)
(* running concurrently on the client's thread pool.  The splits of one    *)
(* job share the flag error_occurred.                                      *)
(*                                                                         *)
(* Threads are anonymous: run[s][pc] counts the callbacks of split s that  *)
(* are at program point pc.  A callback holds one unit of                  *)
(* split_request_count from the moment its request is issued until its    *)
(* final "split_request_count--".  The command's main thread calls        *)
(* scan_data_next on split 1, 2, ... in turn (mainSplit, mainPc).          *)
(***************************************************************************)
EXTENDS Naturals, Sequences, FiniteSets, TopContainer

CONSTANTS
    NSplits,     \* number of splits (scan_data_context objects) of the job
    MaxBatch,    \* scan_data_context::max_batch_count
    Op,          \* scan_data_context::op
    RowSize,     \* RowSize[s][i]: size of the i-th row split s's scanner returns
    CanFail,     \* which asynchronous calls may return an error: "next", "write"
    StatSize,    \* scan_data_context::stat_size
    TopCount     \* scan_data_context::top_count

Splits == 1 .. NSplits

\* enum scan_data_operator
WriteOps == {"SCAN_COPY", "SCAN_CLEAR", "SCAN_GEN_GEO"}
ScanOps == WriteOps \cup {"SCAN_COUNT"}

ASSUME ConstantsAssumption ==
    /\ NSplits \in Nat \ {0}
    /\ MaxBatch \in Nat \ {0}
    /\ Op \in ScanOps
    /\ RowSize \in [Splits -> Seq(Nat)]
    /\ CanFail \subseteq {"next", "write"}
    /\ StatSize \in BOOLEAN
    /\ TopCount \in Nat

\* Program points of a callback thread: the three steps of the refill loop
\* of scan_data_next and the final decrement.
PCs == {"chk", "cnt", "inc", "dec"}

NRows(s) == Len(RowSize[s])

VARIABLES
    count,         \* split_request_count
    rows,          \* split_rows
    completed,     \* split_completed
    errorOccurred, \* *error_occurred, shared by all splits
    pendNext,      \* async_next requests whose callback has not started
    pendWrite,     \* write requests whose callback has not started
    run,           \* run[s][pc]: callbacks of split s at pc
    counting,      \* rows of a SCAN_COUNT split whose callback has not counted them
    cursor,        \* rows the scanner of a split has handed out
    hist,          \* row_size_histogram (and the key/value ones), a bag of sizes
    top,           \* top_rows: the row indices the heap holds
    reports,       \* "ERROR: split[..] ... failed" messages printed per split
    mainSplit,     \* split the main thread is running scan_data_next for
    mainPc         \* its program point in the refill loop

vars == <<count, rows, completed, errorOccurred, pendNext, pendWrite, run,
          counting, cursor, hist, top, reports, mainSplit, mainPc>>

SizeValues == UNION {{RowSize[s][i] : i \in 1 .. NRows(s)} : s \in Splits}

\* Threads of split s holding a unit of split_request_count.
Running(s) == run[s]["chk"] + run[s]["cnt"] + run[s]["inc"] + run[s]["dec"]
                + Cardinality(counting[s])

\* Outstanding asynchronous work of split s.
InFlight(s) == pendNext[s] + pendWrite[s] + Running(s)

-----------------------------------------------------------------------------
Init ==
    /\ count = [s \in Splits |-> 0]
    /\ rows = [s \in Splits |-> 0]
    /\ completed = [s \in Splits |-> FALSE]
    /\ errorOccurred = FALSE
    /\ pendNext = [s \in Splits |-> 0]
    /\ pendWrite = [s \in Splits |-> 0]
    /\ run = [s \in Splits |-> [p \in PCs |-> 0]]
    /\ counting = [s \in Splits |-> {}]
    /\ cursor = [s \in Splits |-> 0]
    /\ hist = [s \in Splits |-> [v \in SizeValues |-> 0]]
    /\ top = [s \in Splits |-> {}]
    /\ reports = [s \in Splits |-> 0]
    /\ mainSplit = 1
    /\ mainPc = "chk"

-----------------------------------------------------------------------------
(* The refill loop of scan_data_next, lines 156-159.                       *)

\* The first two loads of the loop condition.  Both flags only ever go from
\* false to true, so reading them one after the other sees what reading
\* them both at the first load sees.
FlagsClear(s) == ~completed[s] /\ ~errorOccurred

\* The third load of the loop condition.
BelowBudget(s) == count[s] < MaxBatch

\* split_request_count++ and scanner->async_next(...).
IssueFetch(s) ==
    /\ count' = [count EXCEPT ![s] = @ + 1]
    /\ pendNext' = [pendNext EXCEPT ![s] = @ + 1]

\* A callback thread of split s moves from program point p to q.
Move(s, p, q) == run' = [run EXCEPT ![s][p] = @ - 1, ![s][q] = @ + 1]

\* Loop condition, flag loads, in a callback.
CbCheck(s) ==
    /\ run[s]["chk"] > 0
    /\ IF FlagsClear(s) THEN Move(s, "chk", "cnt") ELSE Move(s, "chk", "dec")
    /\ UNCHANGED <<count, rows, completed, errorOccurred, pendNext, pendWrite,
                   counting, cursor, hist, top, reports, mainSplit, mainPc>>

\* Loop condition, load of split_request_count, in a callback.
CbCount(s) ==
    /\ run[s]["cnt"] > 0
    /\ IF BelowBudget(s) THEN Move(s, "cnt", "inc") ELSE Move(s, "cnt", "dec")
    /\ UNCHANGED <<count, rows, completed, errorOccurred, pendNext, pendWrite,
                   counting, cursor, hist, top, reports, mainSplit, mainPc>>

\* Loop body in a callback: a new async_next is issued.
CbIssue(s) ==
    /\ run[s]["inc"] > 0
    /\ IssueFetch(s)
    /\ Move(s, "inc", "chk")
    /\ UNCHANGED <<rows, completed, errorOccurred, pendWrite, counting, cursor,
                   hist, top, reports, mainSplit, mainPc>>

\* Mutant of CbFinish: "split_request_count--" on a path that holds no slot.
CbFinishUnguarded(s) ==
    /\ count' = [count EXCEPT ![s] = @ - 1]
    /\ run' = [run EXCEPT ![s]["dec"] = IF @ > 0 THEN @ - 1 ELSE 0]
    /\ UNCHANGED <<rows, completed, errorOccurred, pendNext, pendWrite,
                   counting, cursor, hist, top, reports, mainSplit, mainPc>>

\* The last statement of every callback: "split_request_count--".
CbFinish(s) ==
    /\ run[s]["dec"] > 0
    /\ count' = [count EXCEPT ![s] = @ - 1]
    /\ run' = [run EXCEPT ![s]["dec"] = @ - 1]
    /\ UNCHANGED <<rows, completed, errorOccurred, pendNext, pendWrite,
                   counting, cursor, hist, top, reports, mainSplit, mainPc>>

\* The main thread leaves the loop for its split and starts the next one.
MainLeave ==
    /\ mainSplit' = mainSplit + 1
    /\ mainPc' = "chk"

MainCheck ==
    /\ mainSplit \in Splits
    /\ mainPc = "chk"
    /\ IF FlagsClear(mainSplit)
       THEN mainPc' = "cnt" /\ UNCHANGED mainSplit
       ELSE MainLeave
    /\ UNCHANGED <<count, rows, completed, errorOccurred, pendNext, pendWrite,
                   run, counting, cursor, hist, top, reports>>

MainCount ==
    /\ mainSplit \in Splits
    /\ mainPc = "cnt"
    /\ IF BelowBudget(mainSplit)
       THEN mainPc' = "inc" /\ UNCHANGED mainSplit
       ELSE MainLeave
    /\ UNCHANGED <<count, rows, completed, errorOccurred, pendNext, pendWrite,
                   run, counting, cursor, hist, top, reports>>

MainIssue ==
    /\ mainSplit \in Splits
    /\ mainPc = "inc"
    /\ IssueFetch(mainSplit)
    /\ mainPc' = "chk"
    /\ UNCHANGED <<rows, completed, errorOccurred, pendWrite, run, counting,
                   cursor, hist, top, reports, mainSplit>>

-----------------------------------------------------------------------------
(* The callbacks.                                                          *)

\* Mutant of RecordError: the report is not guarded by the exchange.
RecordErrorNoExchange(s) ==
    /\ completed' = [completed EXCEPT ![s] = TRUE]
    /\ reports' = [reports EXCEPT ![s] = @ + 1]
    /\ errorOccurred' = TRUE

\* Mutant of RecordError: error_occurred->store(true) forgotten.
RecordErrorNoFlag(s) ==
    /\ completed' = [completed EXCEPT ![s] = TRUE]
    /\ reports' = IF ~completed[s] THEN [reports EXCEPT ![s] = @ + 1]
                                   ELSE reports
    /\ UNCHANGED errorOccurred

\* "if (!context->split_completed.exchange(true)) { fprintf(...);
\*  context->error_occurred->store(true); }"
RecordError(s) ==
    /\ completed' = [completed EXCEPT ![s] = TRUE]
    /\ IF ~completed[s]
       THEN /\ reports' = [reports EXCEPT ![s] = @ + 1]
            /\ errorOccurred' = TRUE
       ELSE UNCHANGED <<reports, errorOccurred>>

\* Mutant of FetchRow: the write branch does not take a slot for its write.
FetchRowNoSlot(s) ==
    /\ pendNext[s] > 0
    /\ cursor[s] < NRows(s)
    /\ pendNext' = [pendNext EXCEPT ![s] = @ - 1]
    /\ cursor' = [cursor EXCEPT ![s] = @ + 1]
    /\ IF Op \in WriteOps
       THEN /\ pendWrite' = [pendWrite EXCEPT ![s] = @ + 1]
            /\ run' = [run EXCEPT ![s]["dec"] = @ + 1]
            /\ UNCHANGED <<count, counting>>
       ELSE /\ counting' = [counting EXCEPT ![s] = @ \cup {cursor[s] + 1}]
            /\ UNCHANGED <<count, pendWrite, run>>
    /\ UNCHANGED <<rows, completed, errorOccurred, hist, top, reports,
                   mainSplit, mainPc>>

\* Mutant of FetchRow: "break" missing after case SCAN_COPY, which falls
\* through to SCAN_CLEAR and issues a second write for the row.
FetchRowFallThrough(s) ==
    /\ pendNext[s] > 0
    /\ cursor[s] < NRows(s)
    /\ pendNext' = [pendNext EXCEPT ![s] = @ - 1]
    /\ cursor' = [cursor EXCEPT ![s] = @ + 1]
    /\ IF Op \in WriteOps
       THEN LET k == IF Op = "SCAN_COPY" THEN 2 ELSE 1
            IN  /\ count' = [count EXCEPT ![s] = @ + k]
                /\ pendWrite' = [pendWrite EXCEPT ![s] = @ + k]
                /\ run' = [run EXCEPT ![s]["dec"] = @ + 1]
                /\ UNCHANGED counting
       ELSE /\ counting' = [counting EXCEPT ![s] = @ \cup {cursor[s] + 1}]
            /\ UNCHANGED <<count, pendWrite, run>>
    /\ UNCHANGED <<rows, completed, errorOccurred, hist, top, reports,
                   mainSplit, mainPc>>

\* async_next returns PERR_OK with the next row.  SCAN_COPY, SCAN_CLEAR and
\* SCAN_GEN_GEO take a second slot and issue the write, then fall through to
\* the final decrement; SCAN_COUNT goes on to count the row.
FetchRow(s) ==
    /\ pendNext[s] > 0
    /\ cursor[s] < NRows(s)
    /\ pendNext' = [pendNext EXCEPT ![s] = @ - 1]
    /\ cursor' = [cursor EXCEPT ![s] = @ + 1]
    /\ IF Op \in WriteOps
       THEN /\ count' = [count EXCEPT ![s] = @ + 1]
            /\ pendWrite' = [pendWrite EXCEPT ![s] = @ + 1]
            /\ run' = [run EXCEPT ![s]["dec"] = @ + 1]
            /\ UNCHANGED counting
       ELSE /\ counting' = [counting EXCEPT ![s] = @ \cup {cursor[s] + 1}]
            /\ UNCHANGED <<count, pendWrite, run>>
    /\ UNCHANGED <<rows, completed, errorOccurred, hist, top, reports,
                   mainSplit, mainPc>>

\* Mutant of FetchComplete: the callback returns before its decrement.
FetchCompleteNoRelease(s) ==
    /\ pendNext[s] > 0
    /\ cursor[s] = NRows(s)
    /\ pendNext' = [pendNext EXCEPT ![s] = @ - 1]
    /\ completed' = [completed EXCEPT ![s] = TRUE]
    /\ UNCHANGED <<count, rows, errorOccurred, pendWrite, run, counting, cursor,
                   hist, top, reports, mainSplit, mainPc>>

\* async_next returns PERR_SCAN_COMPLETE: split_completed.store(true).
FetchComplete(s) ==
    /\ pendNext[s] > 0
    /\ cursor[s] = NRows(s)
    /\ pendNext' = [pendNext EXCEPT ![s] = @ - 1]
    /\ completed' = [completed EXCEPT ![s] = TRUE]
    /\ run' = [run EXCEPT ![s]["dec"] = @ + 1]
    /\ UNCHANGED <<count, rows, errorOccurred, pendWrite, counting, cursor,
                   hist, top, reports, mainSplit, mainPc>>

\* async_next returns any other error.
FetchError(s) ==
    /\ "next" \in CanFail
    /\ pendNext[s] > 0
    /\ pendNext' = [pendNext EXCEPT ![s] = @ - 1]
    /\ RecordError(s)
    /\ run' = [run EXCEPT ![s]["dec"] = @ + 1]
    /\ UNCHANGED <<count, rows, pendWrite, counting, cursor, hist, top,
                   mainSplit, mainPc>>

\* Mutant of CountRow: the row is counted but stays pending.
CountRowKeep(s, i) ==
    /\ i \in counting[s]
    /\ rows' = [rows EXCEPT ![s] = @ + 1]
    /\ UNCHANGED <<count, completed, errorOccurred, pendNext, pendWrite, run,
                   counting, cursor, hist, top, reports, mainSplit, mainPc>>

\* SCAN_COUNT: split_rows++, the size histograms, top_rows.push, then the
\* callback runs scan_data_next.
CountRow(s, i) ==
    /\ i \in counting[s]
    /\ counting' = [counting EXCEPT ![s] = @ \ {i}]
    /\ rows' = [rows EXCEPT ![s] = @ + 1]
    /\ IF StatSize
       THEN /\ hist' = [hist EXCEPT ![s][RowSize[s][i]] = @ + 1]
            /\ IF TopCount > 0
               THEN \E h \in Push(top[s], i, RowSize[s], TopCount) :
                        top' = [top EXCEPT ![s] = h]
               ELSE UNCHANGED top
       ELSE UNCHANGED <<hist, top>>
    /\ run' = [run EXCEPT ![s]["chk"] = @ + 1]
    /\ UNCHANGED <<count, completed, errorOccurred, pendNext, pendWrite, cursor,
                   reports, mainSplit, mainPc>>

\* The write callback with PERR_OK: split_rows++ and scan_data_next.
WriteDone(s) ==
    /\ pendWrite[s] > 0
    /\ pendWrite' = [pendWrite EXCEPT ![s] = @ - 1]
    /\ rows' = [rows EXCEPT ![s] = @ + 1]
    /\ run' = [run EXCEPT ![s]["chk"] = @ + 1]
    /\ UNCHANGED <<count, completed, errorOccurred, pendNext, counting, cursor,
                   hist, top, reports, mainSplit, mainPc>>

\* The write callback with an error (a timeout included).
WriteFailed(s) ==
    /\ "write" \in CanFail
    /\ pendWrite[s] > 0
    /\ pendWrite' = [pendWrite EXCEPT ![s] = @ - 1]
    /\ RecordError(s)
    /\ run' = [run EXCEPT ![s]["dec"] = @ + 1]
    /\ UNCHANGED <<count, rows, pendNext, counting, cursor, hist, top,
                   mainSplit, mainPc>>

-----------------------------------------------------------------------------
Main == MainCheck \/ MainCount \/ MainIssue

\* The completion of a request of split s: its callback starts.
Deliver(s) == FetchRow(s) \/ FetchComplete(s) \/ FetchError(s)
                \/ WriteDone(s) \/ WriteFailed(s)
                \/ \E i \in counting[s] : CountRow(s, i)

\* A step of a running callback of split s.
Callback(s) == CbCheck(s) \/ CbCount(s) \/ CbIssue(s) \/ CbFinish(s)

Next == Main \/ \E s \in Splits : Deliver(s) \/ Callback(s)

\* The thread pool runs every runnable callback, and every request carries
\* timeout_ms, so its callback is eventually called.
Fairness ==
    /\ WF_vars(Main)
    /\ \A s \in Splits : WF_vars(Deliver(s)) /\ WF_vars(Callback(s))

Spec == Init /\ [][Next]_vars /\ Fairness

-----------------------------------------------------------------------------
(* Properties.                                                             *)

\* The caller's view of a finished split: scan_data_next has been called on
\* it and its split_request_count is back to 0.
Quiescent(s) == mainSplit > s /\ count[s] = 0

\* The job reports success: every split drained and completed, no error.
Success == (\A s \in Splits : Quiescent(s) /\ completed[s]) /\ ~errorOccurred

TypeOK ==
    /\ count \in [Splits -> Nat]
    /\ rows \in [Splits -> Nat]
    /\ completed \in [Splits -> BOOLEAN]
    /\ errorOccurred \in BOOLEAN
    /\ pendNext \in [Splits -> Nat]
    /\ pendWrite \in [Splits -> Nat]
    /\ run \in [Splits -> [PCs -> Nat]]
    /\ counting \in [Splits -> SUBSET Nat]
    /\ cursor \in [Splits -> Nat]
    /\ hist \in [Splits -> [SizeValues -> Nat]]
    /\ top \in [Splits -> SUBSET Nat]
    /\ reports \in [Splits -> Nat]
    /\ mainSplit \in 1 .. NSplits + 1
    /\ mainPc \in {"chk", "cnt", "inc"}

(***************************************************************************)
(* split_request_count counts exactly the outstanding work of its split:   *)
(* the requests not yet answered and the callbacks that have not run their *)
(* final decrement.  This is what the comment "should put                  *)
(* split_request_count-- at end of the scope" is for.                      *)
(***************************************************************************)
InFlightAccounting == \A s \in Splits : count[s] = InFlight(s)

(***************************************************************************)
(* When split_request_count of a split reads 0 (what the caller waits      *)
(* for), no request of the split is outstanding and none of its callbacks *)
(* is still running: the context may be destroyed.                         *)
(***************************************************************************)
DrainedMeansIdle ==
    \A s \in Splits : count[s] = 0 =>
        /\ pendNext[s] = 0 /\ pendWrite[s] = 0 /\ counting[s] = {}
        /\ \A p \in PCs : run[s][p] = 0

(***************************************************************************)
(* However many callbacks of a split fail concurrently, the split prints   *)
(* at most one error message (the exchange on split_completed).            *)
(***************************************************************************)
AtMostOneReport == \A s \in Splits : reports[s] <= 1

(***************************************************************************)
(* A job that reports success has applied its operation (copy, clear,     *)
(* geo write or count) to every row every scanner returned.               *)
(***************************************************************************)
RowConservation == Success => \A s \in Splits : rows[s] = NRows(s)

\* The multiset of the sizes of the rows of split s.
SizeBag(s) == [v \in SizeValues |-> Cardinality({i \in 1 .. NRows(s) : RowSize[s][i] = v})]

(***************************************************************************)
(* After a successful count scan with stat_size, every row of a split was  *)
(* added to the histograms once, and top_rows holds min(top_count, rows)   *)
(* rows, among them a largest one.                                         *)
(***************************************************************************)
StatsComplete ==
    \A s \in Splits : Quiescent(s) /\ completed[s] /\ ~errorOccurred =>
        /\ hist[s] = SizeBag(s)
        /\ TopCount > 0 =>
             /\ Cardinality(top[s]) = IF TopCount < NRows(s) THEN TopCount ELSE NRows(s)
             /\ \A j \in 1 .. NRows(s) : \E i \in top[s] : RowSize[s][j] <= RowSize[s][i]

(***************************************************************************)
(* The spec's top-K promise: after a successful count scan, no row left    *)
(* out of top_rows is larger than a row it holds.                          *)
(***************************************************************************)
TopKLargest ==
    \A s \in Splits : Quiescent(s) /\ completed[s] /\ ~errorOccurred /\ TopCount > 0 =>
        \A i \in top[s], j \in (1 .. NRows(s)) \ top[s] : RowSize[s][j] <= RowSize[s][i]

(***************************************************************************)
(* The spec's termination promise: a split whose split_request_count has   *)
(* drained has finished its scan or the job has failed.                    *)
(***************************************************************************)
NoStall == \A s \in Splits : Quiescent(s) => completed[s] \/ errorOccurred

(***************************************************************************)
(* The spec's in-flight budget: split_request_count never exceeds          *)
(* max_batch_count.                                                        *)
(***************************************************************************)
InFlightWithinBudget == \A s \in Splits : count[s] <= MaxBatch

(***************************************************************************)
(* The pipeline implements the job's promise (module ScanSplit): split_rows *)
(* is the count of rows applied, split_completed the end of the split and   *)
(* *error_occurred the job's failure.  So no row is applied twice, a split  *)
(* ends once, and the error flag is raised only by a split's first failure *)
(* (the exchange on split_completed), whatever the callbacks interleave.    *)
(***************************************************************************)
Abstract == INSTANCE ScanSplit WITH done <- rows, failed <- errorOccurred,
                                    Total <- [s \in Splits |-> NRows(s)]

ImplementsScanSplit == Abstract!Spec

(***************************************************************************)
(* Every split eventually drains for good: every issued request gets its   *)
(* callback and every callback runs its final decrement.                   *)
(***************************************************************************)
Drains == \A s \in Splits : <>[]Quiescent(s)

=============================================================================
