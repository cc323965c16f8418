----------------------------- MODULE MCScanJob ------------------------------
(***************************************************************************)
(* Instances of ScanJob for TLC.  The row sizes only matter to count scans *)
(* with stat_size; the sizes of the spec's own example (10, 20, 30) are    *)
(* scaled to 1, 2, 3.                                                      *)
(***************************************************************************)
EXTENDS ScanJob

\* Two splits of two rows each.
RowsTwoByTwo == [s \in 1 .. 2 |-> <<1, 1>>]

\* One split of three rows, one split of two.
RowsThreeTwo == [s \in 1 .. 2 |-> IF s = 1 THEN <<1, 1, 1>> ELSE <<1, 1>>]

\* One split with the rows of sizes 10, 20, 30 (scaled), in scan order.
RowsSpecExample == [s \in 1 .. 1 |-> <<1, 2, 3>>]

\* One split whose rows have a tie for the largest size.
RowsWithTie == [s \in 1 .. 1 |-> <<2, 1, 2, 1>>]

\* Fetch and write failures.
FailBoth == {"next", "write"}
FailNext == {"next"}
FailWrite == {"write"}
FailNone == {}
=============================================================================
