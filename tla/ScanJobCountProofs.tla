------------------------- MODULE ScanJobCountProofs -------------------------
(***************************************************************************)
(* Proofs of what a successful scan job has done: every row was applied   *)
(* (RowConservation) and, for a count scan with stat_size, every row is   *)
(* in the histograms once and top_rows holds a largest row               *)
(* (StatsComplete).                                                        *)
(*                                                                         *)
(* RowConservation does not hold of every job: a write that fails after   *)
(* the split completed loses its row silently (run ScanJob_lost_write).   *)
(* It is proved for the jobs where no write can fail: count scans, and    *)
(* write scans whose writes succeed.  Then every row the scanner handed    *)
(* out is applied, being written or being counted (RowsExact), and a split *)
(* that completed without an error was scanned to its end (EndInv).       *)
(***************************************************************************)
EXTENDS ScanJobProofs

\* The jobs in which no row can be lost by a failed write.
NoLostWrite == Op \notin WriteOps \/ "write" \notin CanFail

\* A count scan with stat_size, whose callbacks fill hist and top_rows.
CountStats == Op = "SCAN_COUNT" /\ StatSize

\* A count scan issues no writes.
WriteFree == Op \notin WriteOps => \A t \in Splits : pendWrite[t] = 0

\* A split that completed while no error occurred completed at the end of
\* its data, not on an error.
EndInv == \A t \in Splits : completed[t] /\ ~errorOccurred => cursor[t] = NRows(t)

\* Every row handed out is applied, being written or being counted.
RowsExact == \A t \in Splits :
                 rows[t] + pendWrite[t] + Cardinality(counting[t]) = cursor[t]

\* The rows of split t a count callback has finished with.
Counted(t) == (1 .. cursor[t]) \ counting[t]

\* hist[t] holds the sizes of split t's counted rows, each once.
HistAt(t) ==
    \A v \in SizeValues :
        hist[t][v] = Cardinality({i \in Counted(t) : RowSize[t][i] = v})

HistInv == \A t \in Splits : HistAt(t)

\* The least of two numbers.
MinOf(a, b) == IF a < b THEN a ELSE b

\* top_rows of split t holds min(top_count, split_rows) counted rows, among
\* them a largest counted row.
TopAt(t) ==
    /\ top[t] \subseteq Counted(t)
    /\ Cardinality(top[t]) = MinOf(TopCount, rows[t])
    /\ Counted(t) # {} =>
         \E i \in top[t] : \A j \in Counted(t) : RowSize[t][j] <= RowSize[t][i]

TopInv == TopCount > 0 => \A t \in Splits : TopAt(t)

-----------------------------------------------------------------------------
(* top_container::push.                                                    *)

\* What one push promises, as a formula of its arguments.
PushSpec(C, heap, i, size, k, n) ==
    /\ heap \in SUBSET C /\ IsFiniteSet(heap) /\ i \notin C
    /\ \A j \in C \cup {i} : size[j] \in Nat
    /\ k \in Nat \ {0} /\ n \in Nat
    /\ Cardinality(heap) = MinOf(k, n)
    /\ C # {} => \E x \in heap : \A j \in C : size[j] <= size[x]
    => \A h \in Push(heap, i, size, k) :
          /\ h \subseteq C \cup {i}
          /\ Cardinality(h) = MinOf(k, n + 1)
          /\ \E x \in h : \A j \in C \cup {i} : size[j] <= size[x]

(***************************************************************************)
(* A push of a new row onto a heap that holds min(count, n) of n rows     *)
(* pushed before, one of them a largest, leaves min(count, n + 1) of the  *)
(* n + 1 rows, one of them a largest.  Although the heap pops its largest *)
(* item at capacity, a largest row is never lost: it is popped only for a *)
(* strictly larger one.                                                    *)
(***************************************************************************)
LEMMA PushKeepsLargest == \A C, heap, i, size, k, n : PushSpec(C, heap, i, size, k, n)
<1> SUFFICES ASSUME NEW C, NEW heap, NEW i, NEW size, NEW k, NEW n
             PROVE  PushSpec(C, heap, i, size, k, n)
  OBVIOUS
<1> SUFFICES ASSUME heap \in SUBSET C, IsFiniteSet(heap), i \notin C,
           \A j \in C \cup {i} : size[j] \in Nat, k \in Nat \ {0}, n \in Nat,
           Cardinality(heap) = MinOf(k, n),
           C # {} => \E x \in heap : \A j \in C : size[j] <= size[x],
           NEW h \in Push(heap, i, size, k)
    PROVE  /\ h \subseteq C \cup {i}
           /\ Cardinality(h) = MinOf(k, n + 1)
           /\ \E x \in h : \A j \in C \cup {i} : size[j] <= size[x]
  BY Zenon DEF PushSpec
<1>0. i \notin heap /\ Cardinality(heap) \in Nat
  BY FS_CardinalityType
<1>1. CASE Cardinality(heap) < k
  <2>1. h = heap \cup {i}
    BY <1>1 DEF Push
  <2>2. Cardinality(h) = Cardinality(heap) + 1
    BY <2>1, <1>0, FS_AddElement
  <2>3. Cardinality(heap) = n /\ n < k
    BY <1>1, <1>0 DEF MinOf
  <2>4. Cardinality(h) = MinOf(k, n + 1)
    BY <2>2, <2>3 DEF MinOf
  <2>5. \E x \in h : \A j \in C \cup {i} : size[j] <= size[x]
    <3>1. CASE C = {}
      BY <3>1, <2>1
    <3>2. CASE C # {}
      <4>1. PICK x \in heap : \A j \in C : size[j] <= size[x]
        BY <3>2
      <4>2. CASE size[i] <= size[x]
        BY <4>1, <4>2, <2>1
      <4>3. CASE ~(size[i] <= size[x])
        <5>1. \A j \in C : size[j] <= size[i]
          BY <4>1, <4>3
        <5>2. QED
          BY <5>1, <2>1
      <4>4. QED
        BY <4>2, <4>3
    <3>3. QED
      BY <3>1, <3>2
  <2>6. QED
    BY <2>1, <2>4, <2>5
<1>2. CASE ~(Cardinality(heap) < k)
  <2>1. Cardinality(heap) = k /\ k <= n
    BY <1>2, <1>0 DEF MinOf
  <2>2. PICK m \in HeapTop(heap, size) :
            h = IF size[m] < size[i] THEN (heap \ {m}) \cup {i} ELSE heap
    BY <1>2 DEF Push
  <2>3. m \in heap /\ \A j \in heap : size[j] <= size[m]
    BY DEF HeapTop
  <2>4. heap # {}
    BY <2>1, FS_EmptySet
  <2>ty. size[m] \in Nat /\ size[i] \in Nat /\ \A j \in C : size[j] \in Nat
    BY <2>3
  \* The top of the heap is a largest of all the rows pushed before.
  <2>5. \A j \in C : size[j] <= size[m]
    <3>1. PICK x \in heap : \A j \in C : size[j] <= size[x]
      BY <2>4
    <3>2. size[x] <= size[m]
      BY <3>1, <2>3
    <3>3. QED
      BY <3>1, <3>2, <2>ty
  <2>6. MinOf(k, n + 1) = k
    BY <2>1 DEF MinOf
  <2>7. CASE size[m] < size[i]
    <3>1. h = (heap \ {m}) \cup {i}
      BY <2>2, <2>7
    <3>2. Cardinality(heap \ {m}) = k - 1 /\ IsFiniteSet(heap \ {m})
      BY <2>1, <2>3, FS_RemoveElement, FS_Subset
    <3>3. Cardinality(h) = (k - 1) + 1
      BY <3>1, <3>2, <1>0, FS_AddElement
    <3>4. \A j \in C \cup {i} : size[j] <= size[i]
      BY <2>5, <2>7, <2>ty
    <3>5. QED
      BY <3>1, <3>3, <3>4, <2>6, <2>1
  <2>8. CASE ~(size[m] < size[i])
    <3>1. h = heap
      BY <2>2, <2>8
    <3>2. \A j \in C \cup {i} : size[j] <= size[m]
      BY <2>5, <2>8, <2>ty
    <3>3. QED
      BY <3>1, <3>2, <2>1, <2>3, <2>6
  <2>9. QED
    BY <2>7, <2>8
<1>3. QED
  BY <1>1, <1>2

-----------------------------------------------------------------------------
(* Every row of a job with no failing write is accounted for.              *)

LEMMA InitCountInv == Init => WriteFree /\ EndInv /\ RowsExact
BY FS_EmptySet DEF Init, WriteFree, EndInv, RowsExact

LEMMA NextWriteFree == IInv /\ WriteFree /\ [Next]_vars => WriteFree'
<1> SUFFICES ASSUME IInv, WriteFree, [Next]_vars, Op \notin WriteOps, NEW t \in Splits
             PROVE  pendWrite'[t] = 0
  BY DEF WriteFree
<1>ty. pendWrite \in [Splits -> Nat]
  BY DEF IInv, TypeOK
<1>0. pendWrite[t] = 0
  BY DEF WriteFree
<1>1. CASE Main
  BY <1>0, <1>1 DEF Main, MainCheck, MainCount, MainIssue, MainLeave, IssueFetch
<1>2. ASSUME NEW s \in Splits, Callback(s) PROVE pendWrite'[t] = 0
  BY <1>0, <1>2 DEF Callback, CbCheck, CbCount, CbIssue, CbFinish, Move, IssueFetch
<1>3. ASSUME NEW s \in Splits,
             \/ FetchRow(s) \/ FetchComplete(s) \/ FetchError(s)
             \/ \E i \in counting[s] : CountRow(s, i)
      PROVE  pendWrite'[t] = 0
  BY <1>0, <1>3 DEF FetchRow, FetchComplete, FetchError, CountRow
<1>4. ASSUME NEW s \in Splits, WriteDone(s) \/ WriteFailed(s) PROVE pendWrite'[t] = 0
  <2>1. pendWrite[s] > 0 /\ pendWrite' = [pendWrite EXCEPT ![s] = @ - 1]
    BY <1>4 DEF WriteDone, WriteFailed
  <2>2. t # s
    BY <2>1, <1>0
  <2>3. QED
    BY <2>1, <2>2, <1>0, <1>ty
<1>5. CASE UNCHANGED vars
  BY <1>0, <1>5 DEF vars
<1>6. QED
  BY <1>1, <1>2, <1>3, <1>4, <1>5 DEF Next, Deliver

LEMMA NextEndInv == IInv /\ EndInv /\ [Next]_vars => EndInv'
<1> SUFFICES ASSUME IInv, EndInv, [Next]_vars, NEW t \in Splits,
                    completed'[t], ~errorOccurred'
             PROVE  cursor'[t] = NRows(t)
  BY DEF EndInv
<1>ty. /\ completed \in [Splits -> BOOLEAN] /\ cursor \in [Splits -> Nat]
       /\ errorOccurred \in BOOLEAN
  BY DEF IInv, TypeOK
\* A step that leaves the flags and split t's cursor alone keeps the bound.
<1>fr. ASSUME completed'[t] = completed[t], errorOccurred' = errorOccurred,
              cursor'[t] = cursor[t]
       PROVE  cursor'[t] = NRows(t)
  BY <1>fr DEF EndInv
<1>1. CASE Main
  BY <1>1, <1>fr DEF Main, MainCheck, MainCount, MainIssue, MainLeave, IssueFetch
<1>2. ASSUME NEW s \in Splits, Callback(s) PROVE cursor'[t] = NRows(t)
  BY <1>2, <1>fr DEF Callback, CbCheck, CbCount, CbIssue, CbFinish, Move, IssueFetch
<1>3. ASSUME NEW s \in Splits,
             \/ WriteDone(s) \/ \E i \in counting[s] : CountRow(s, i)
      PROVE  cursor'[t] = NRows(t)
  BY <1>3, <1>fr DEF WriteDone, CountRow
<1>4. ASSUME NEW s \in Splits, FetchComplete(s) PROVE cursor'[t] = NRows(t)
  <2>1. CASE t = s
    BY <1>4, <2>1 DEF FetchComplete
  <2>2. CASE t # s
    BY <1>4, <2>2, <1>ty, <1>fr DEF FetchComplete
  <2>3. QED
    BY <2>1, <2>2
<1>5. ASSUME NEW s \in Splits, FetchError(s) \/ WriteFailed(s) PROVE cursor'[t] = NRows(t)
  <2>1. RecordError(s) /\ cursor' = cursor
    BY <1>5 DEF FetchError, WriteFailed
  <2>2. completed[s]
    BY <2>1 DEF RecordError
  <2>3. completed' = completed /\ errorOccurred' = errorOccurred
    BY <2>1, <2>2, <1>ty DEF RecordError
  <2>4. QED
    BY <2>1, <2>3, <1>fr
<1>6. ASSUME NEW s \in Splits, FetchRow(s) PROVE cursor'[t] = NRows(t)
  <2>1. completed' = completed /\ errorOccurred' = errorOccurred
    BY <1>6 DEF FetchRow
  <2>2. CASE t = s
    <3>1. cursor[t] < NRows(t) /\ completed[t] /\ ~errorOccurred
      BY <1>6, <2>1, <2>2 DEF FetchRow
    <3>2. QED
      BY <3>1, <1>ty DEF EndInv
  <2>3. CASE t # s
    BY <1>6, <2>1, <2>3, <1>ty, <1>fr DEF FetchRow
  <2>4. QED
    BY <2>2, <2>3
<1>7. CASE UNCHANGED vars
  BY <1>7, <1>fr DEF vars
<1>8. QED
  BY <1>1, <1>2, <1>3, <1>4, <1>5, <1>6, <1>7 DEF Next, Deliver

\* Without a failing write, no row handed out is dropped.
LEMMA NextRowsExact ==
    ASSUME NoLostWrite
    PROVE  IInv /\ WriteFree /\ RowsExact /\ [Next]_vars => RowsExact'
<1> SUFFICES ASSUME IInv, WriteFree, RowsExact, [Next]_vars, NEW t \in Splits
             PROVE  (rows[t] + pendWrite[t] + Cardinality(counting[t]) = cursor[t])'
  BY DEF RowsExact
<1>ty. /\ rows \in [Splits -> Nat] /\ pendWrite \in [Splits -> Nat]
       /\ cursor \in [Splits -> Nat] /\ counting \in [Splits -> SUBSET Nat]
  BY DEF IInv, TypeOK
<1>fin. IsFiniteSet(counting[t])
  BY CountingFinite DEF IInv
<1>k. PICK r, w, c, k \in Nat : /\ r = rows[t] /\ w = pendWrite[t] /\ c = cursor[t]
                               /\ k = Cardinality(counting[t])
  BY <1>ty, <1>fin, FS_CardinalityType
<1>b. r + w + k = c
  BY <1>k DEF RowsExact
\* A step that leaves split t's four quantities alone keeps the sum.
<1>fr. ASSUME rows'[t] = rows[t], pendWrite'[t] = pendWrite[t],
              counting'[t] = counting[t], cursor'[t] = cursor[t]
       PROVE  (rows[t] + pendWrite[t] + Cardinality(counting[t]) = cursor[t])'
  BY <1>fr DEF RowsExact
<1>1. CASE Main
  BY <1>1, <1>fr DEF Main, MainCheck, MainCount, MainIssue, MainLeave, IssueFetch
<1>2. ASSUME NEW s \in Splits, Callback(s)
      PROVE  (rows[t] + pendWrite[t] + Cardinality(counting[t]) = cursor[t])'
  BY <1>2, <1>fr DEF Callback, CbCheck, CbCount, CbIssue, CbFinish, Move, IssueFetch
<1>3. ASSUME NEW s \in Splits, FetchComplete(s) \/ FetchError(s)
      PROVE  (rows[t] + pendWrite[t] + Cardinality(counting[t]) = cursor[t])'
  BY <1>3, <1>fr DEF FetchComplete, FetchError, RecordError
<1>4. ASSUME NEW s \in Splits, FetchRow(s)
      PROVE  (rows[t] + pendWrite[t] + Cardinality(counting[t]) = cursor[t])'
  <2>1. CASE t # s
    BY <1>4, <2>1, <1>ty, <1>fr DEF FetchRow
  <2>2. CASE t = s
    <3>1. rows'[t] = r /\ cursor'[t] = c + 1
      BY <1>4, <2>2, <1>ty, <1>k DEF FetchRow
    <3>2. CASE Op \in WriteOps
      <4>1. pendWrite'[t] = w + 1 /\ counting'[t] = counting[t]
        BY <1>4, <2>2, <3>2, <1>ty, <1>k DEF FetchRow
      <4>2. QED
        BY <3>1, <4>1, <1>k, <1>b
    <3>3. CASE Op \notin WriteOps
      <4>1. pendWrite'[t] = w /\ counting'[t] = counting[t] \cup {c + 1}
        BY <1>4, <2>2, <3>3, <1>ty, <1>k DEF FetchRow
      <4>2. c + 1 \notin counting[t]
        BY <1>k DEF IInv, CursorInv
      <4>3. Cardinality(counting'[t]) = k + 1
        BY <4>1, <4>2, <1>fin, <1>k, FS_AddElement
      <4>4. QED
        BY <3>1, <4>1, <4>3, <1>b
    <3>4. QED
      BY <3>2, <3>3
  <2>3. QED
    BY <2>1, <2>2
<1>5. ASSUME NEW s \in Splits, NEW i \in counting[s], CountRow(s, i)
      PROVE  (rows[t] + pendWrite[t] + Cardinality(counting[t]) = cursor[t])'
  <2>1. CASE t # s
    BY <1>5, <2>1, <1>ty, <1>fr DEF CountRow
  <2>2. CASE t = s
    <3>1. /\ rows'[t] = r + 1 /\ cursor'[t] = c /\ pendWrite'[t] = w
          /\ counting'[t] = counting[t] \ {i} /\ i \in counting[t]
      BY <1>5, <2>2, <1>ty, <1>k DEF CountRow
    <3>2. Cardinality(counting'[t]) = k - 1 /\ k > 0
      <4>1. Cardinality(counting[t] \ {i}) = k - 1
        BY <3>1, <1>fin, <1>k, FS_RemoveElement
      <4>2. k # 0
        BY <3>1, <1>fin, <1>k, FS_EmptySet
      <4>3. QED
        BY <3>1, <4>1, <4>2, <1>k
    <3>3. QED
      BY <3>1, <3>2, <1>b
  <2>3. QED
    BY <2>1, <2>2
<1>6. ASSUME NEW s \in Splits, WriteDone(s)
      PROVE  (rows[t] + pendWrite[t] + Cardinality(counting[t]) = cursor[t])'
  <2>1. CASE t # s
    BY <1>6, <2>1, <1>ty, <1>fr DEF WriteDone
  <2>2. CASE t = s
    <3>1. /\ w > 0 /\ pendWrite'[t] = w - 1 /\ rows'[t] = r + 1
          /\ cursor'[t] = c /\ counting'[t] = counting[t]
      BY <1>6, <2>2, <1>ty, <1>k DEF WriteDone
    <3>2. QED
      BY <3>1, <1>k, <1>b
  <2>3. QED
    BY <2>1, <2>2
\* The step a failing write would take is not possible here.
<1>7. ASSUME NEW s \in Splits, WriteFailed(s) PROVE FALSE
  <2>1. "write" \in CanFail /\ pendWrite[s] > 0
    BY <1>7 DEF WriteFailed
  <2>2. Op \notin WriteOps
    BY <2>1 DEF NoLostWrite
  <2>3. QED
    BY <2>1, <2>2 DEF WriteFree
<1>8. CASE UNCHANGED vars
  BY <1>8, <1>fr DEF vars
<1>9. QED
  BY <1>1, <1>2, <1>3, <1>4, <1>5, <1>6, <1>7, <1>8 DEF Next, Deliver

\* A job that reports success, with every row accounted for, applied them all.
LEMMA ExactConserves == IInv /\ EndInv /\ RowsExact => RowConservation
<1> SUFFICES ASSUME IInv, EndInv, RowsExact, Success, NEW s \in Splits
             PROVE  rows[s] = NRows(s)
  BY DEF RowConservation
<1>1. count[s] = 0 /\ completed[s] /\ ~errorOccurred
  BY DEF Success, Quiescent
<1>2. pendWrite[s] = 0 /\ counting[s] = {}
  BY <1>1, AccountingDrained DEF DrainedMeansIdle
<1>3. cursor[s] = NRows(s)
  BY <1>1 DEF EndInv
<1>4. rows[s] \in Nat
  BY DEF IInv, TypeOK
<1>5. Cardinality(counting[s]) = 0
  BY <1>2, FS_EmptySet
<1>6. rows[s] + pendWrite[s] + Cardinality(counting[s]) = cursor[s]
  BY DEF RowsExact
<1>7. QED
  BY <1>2, <1>3, <1>4, <1>5, <1>6, NRowsNat

(***************************************************************************)
(* For every number of splits, every max_batch_count and every content of *)
(* the scanners: a count scan, or a copy, clear or geo job whose writes do *)
(* not fail, that reports success (every split drained and completed,     *)
(* error_occurred false) has applied its operation to every row its        *)
(* scanners returned.  A failing write is excluded because the code loses *)
(* its row when it fails after split_completed was stored (line 174).     *)
(***************************************************************************)
THEOREM RowsConserved ==
    ASSUME NoLostWrite
    PROVE  Spec => []RowConservation
<1>1. IInv /\ WriteFree /\ RowsExact /\ [Next]_vars => RowsExact'
  BY NextRowsExact
<1>2. Init => IInv /\ WriteFree /\ EndInv /\ RowsExact
  BY InitIInv, InitCountInv
<1>3. IInv /\ WriteFree /\ EndInv /\ RowsExact /\ [Next]_vars
        => (IInv /\ WriteFree /\ EndInv /\ RowsExact)'
  BY <1>1, NextIInv, NextWriteFree, NextEndInv
<1>4. Spec => [](IInv /\ WriteFree /\ EndInv /\ RowsExact)
  BY <1>2, <1>3, PTL DEF Spec
<1>5. QED
  BY <1>4, ExactConserves, PTL

-----------------------------------------------------------------------------
(* The histograms and top_rows of a count scan with stat_size.             *)

\* The rows a split has finished counting form a finite set of its rows.
LEMMA CountedFinite ==
    ASSUME CursorInv, NEW t \in Splits
    PROVE  /\ IsFiniteSet(Counted(t))
           /\ Counted(t) \subseteq 1 .. NRows(t)
<1>1. cursor[t] \in 0 .. NRows(t)
  BY DEF CursorInv
<1>2. IsFiniteSet(1 .. cursor[t])
  BY <1>1, FS_Interval
<1>3. QED
  BY <1>1, <1>2, NRowsNat, FS_Subset DEF Counted

\* A row of a split has a natural size, one of SizeValues.
LEMMA SizeOf ==
    ASSUME NEW t \in Splits, NEW j \in 1 .. NRows(t)
    PROVE  RowSize[t][j] \in Nat /\ RowSize[t][j] \in SizeValues
BY NRowsNat DEF SizeValues, NRows

\* The scanner hands out row c + 1 to be counted: the counted rows stay.
LEMMA CountedFetch ==
    ASSUME NEW c \in Nat, NEW K \in SUBSET (1 .. c)
    PROVE  (1 .. c + 1) \ (K \cup {c + 1}) = (1 .. c) \ K
OBVIOUS

\* A count callback finishes row i: it joins the counted rows.
LEMMA CountedCount ==
    ASSUME NEW c \in Nat, NEW K \in SUBSET (1 .. c), NEW i \in K
    PROVE  /\ (1 .. c) \ (K \ {i}) = ((1 .. c) \ K) \cup {i}
           /\ i \notin (1 .. c) \ K
OBVIOUS

LEMMA InitStats == Init => HistInv /\ TopInv
<1> SUFFICES ASSUME Init, NEW t \in Splits PROVE HistAt(t) /\ (TopCount > 0 => TopAt(t))
  BY DEF HistInv, TopInv
<1>1. Counted(t) = {}
  BY DEF Init, Counted
<1>2. HistAt(t)
  BY <1>1, FS_EmptySet DEF Init, HistAt
<1>3. TopAt(t)
  BY <1>1, FS_EmptySet, ConstantsAssumption DEF Init, TopAt, MinOf
<1>4. QED
  BY <1>2, <1>3

LEMMA NextStats ==
    ASSUME CountStats
    PROVE  IInv /\ WriteFree /\ HistInv /\ TopInv /\ [Next]_vars => (HistInv /\ TopInv)'
<1> SUFFICES ASSUME IInv, WriteFree, HistInv, TopInv, [Next]_vars, NEW t \in Splits
             PROVE  HistAt(t)' /\ (TopCount > 0 => TopAt(t)')
  BY DEF HistInv, TopInv
<1>ty. /\ rows \in [Splits -> Nat] /\ cursor \in [Splits -> Nat]
       /\ counting \in [Splits -> SUBSET Nat] /\ top \in [Splits -> SUBSET Nat]
       /\ hist \in [Splits -> [SizeValues -> Nat]] /\ pendWrite \in [Splits -> Nat]
  BY DEF IInv, TypeOK
<1>op. Op = "SCAN_COUNT" /\ Op \notin WriteOps /\ StatSize /\ TopCount \in Nat
  BY ConstantsAssumption DEF CountStats, WriteOps
<1>h. HistAt(t)
  BY DEF HistInv
<1>tp. TopCount > 0 => TopAt(t)
  BY DEF TopInv
\* A step that leaves split t's counters, rows, histograms and heap alone.
<1>fr. ASSUME counting'[t] = counting[t], cursor'[t] = cursor[t], rows'[t] = rows[t],
              hist'[t] = hist[t], top'[t] = top[t]
       PROVE  HistAt(t)' /\ (TopCount > 0 => TopAt(t)')
  BY <1>fr, <1>h, <1>tp DEF HistAt, TopAt, Counted
<1>1. CASE Main
  BY <1>1, <1>fr DEF Main, MainCheck, MainCount, MainIssue, MainLeave, IssueFetch
<1>2. ASSUME NEW s \in Splits, Callback(s) PROVE HistAt(t)' /\ (TopCount > 0 => TopAt(t)')
  BY <1>2, <1>fr DEF Callback, CbCheck, CbCount, CbIssue, CbFinish, Move, IssueFetch
<1>3. ASSUME NEW s \in Splits, FetchComplete(s) \/ FetchError(s)
      PROVE  HistAt(t)' /\ (TopCount > 0 => TopAt(t)')
  BY <1>3, <1>fr DEF FetchComplete, FetchError, RecordError
<1>4. ASSUME NEW s \in Splits, WriteDone(s) \/ WriteFailed(s)
      PROVE  HistAt(t)' /\ (TopCount > 0 => TopAt(t)')
  <2>1. pendWrite[s] > 0
    BY <1>4 DEF WriteDone, WriteFailed
  <2>2. QED
    BY <2>1, <1>op DEF WriteFree
<1>5. ASSUME NEW s \in Splits, FetchRow(s) PROVE HistAt(t)' /\ (TopCount > 0 => TopAt(t)')
  <2>1. CASE t # s
    BY <1>5, <2>1, <1>ty, <1>fr DEF FetchRow
  <2>2. CASE t = s
    <3>1. /\ cursor'[t] = cursor[t] + 1 /\ counting'[t] = counting[t] \cup {cursor[t] + 1}
          /\ rows' = rows /\ hist' = hist /\ top' = top
      BY <1>5, <2>2, <1>op, <1>ty DEF FetchRow
    <3>2. counting[t] \subseteq 1 .. cursor[t]
      BY DEF IInv, CursorInv
    <3>3. Counted(t)' = Counted(t)
      BY <3>1, <3>2, <1>ty, CountedFetch DEF Counted
    <3>4. QED
      BY <3>1, <3>3, <1>h, <1>tp DEF HistAt, TopAt
  <2>3. QED
    BY <2>1, <2>2
<1>6. ASSUME NEW s \in Splits, NEW i \in counting[s], CountRow(s, i)
      PROVE  HistAt(t)' /\ (TopCount > 0 => TopAt(t)')
  <2>1. CASE t # s
    <3>1. UNCHANGED <<cursor>> /\ counting'[t] = counting[t] /\ rows'[t] = rows[t]
      BY <1>6, <2>1, <1>ty DEF CountRow
    <3>2. hist'[t] = hist[t] /\ top'[t] = top[t]
      <4>1. CASE TopCount > 0
        BY <1>6, <2>1, <4>1, <1>ty, <1>op DEF CountRow
      <4>2. CASE ~(TopCount > 0)
        BY <1>6, <2>1, <4>2, <1>ty, <1>op DEF CountRow
      <4>3. QED
        BY <4>1, <4>2
    <3>3. QED
      BY <3>1, <3>2, <1>fr
  <2>2. CASE t = s
    <3>1. /\ counting'[t] = counting[t] \ {i} /\ cursor'[t] = cursor[t]
          /\ rows'[t] = rows[t] + 1
          /\ hist' = [hist EXCEPT ![t][RowSize[t][i]] = @ + 1]
      BY <1>6, <2>2, <1>op, <1>ty DEF CountRow
    <3>2. counting[t] \subseteq 1 .. cursor[t] /\ cursor[t] \in 0 .. NRows(t)
      BY DEF IInv, CursorInv
    <3>3. Counted(t)' = Counted(t) \cup {i} /\ i \notin Counted(t)
      BY <3>1, <3>2, <2>2, <1>ty, CountedCount DEF Counted
    <3>4. /\ IsFiniteSet(Counted(t)) /\ Counted(t) \subseteq 1 .. NRows(t)
          /\ i \in 1 .. NRows(t)
      BY <3>2, <2>2, CountedFinite, NRowsNat DEF IInv
    <3>5. RowSize[t][i] \in SizeValues
      BY <3>4, SizeOf
    <3>6. HistAt(t)'
      <4> SUFFICES ASSUME NEW v \in SizeValues
                   PROVE  hist'[t][v] = Cardinality({j \in Counted(t)' : RowSize[t][j] = v})
        BY DEF HistAt
      <4>1. IsFiniteSet({j \in Counted(t) : RowSize[t][j] = v})
        BY <3>4, FS_Subset
      <4>2. hist[t][v] = Cardinality({j \in Counted(t) : RowSize[t][j] = v})
        BY <1>h DEF HistAt
      <4>3. CASE RowSize[t][i] = v
        <5>1. hist'[t][v] = hist[t][v] + 1
          BY <3>1, <3>5, <4>3, <1>ty
        <5>2. {j \in Counted(t)' : RowSize[t][j] = v}
                = {j \in Counted(t) : RowSize[t][j] = v} \cup {i}
          BY <3>3, <4>3
        <5>3. QED
          BY <4>1, <4>2, <5>1, <5>2, <3>3, FS_AddElement
      <4>4. CASE RowSize[t][i] # v
        <5>1. hist'[t][v] = hist[t][v]
          BY <3>1, <3>5, <4>4, <1>ty
        <5>2. {j \in Counted(t)' : RowSize[t][j] = v} = {j \in Counted(t) : RowSize[t][j] = v}
          BY <3>3, <4>4
        <5>3. QED
          BY <4>2, <5>1, <5>2
      <4>5. QED
        BY <4>3, <4>4
    <3>7. ASSUME TopCount > 0 PROVE TopAt(t)'
      <4>1. PICK h \in Push(top[t], i, RowSize[t], TopCount) : top' = [top EXCEPT ![t] = h]
        BY <1>6, <2>2, <3>7, <1>op DEF CountRow
      <4>2. TopAt(t)
        BY <3>7, <1>tp
      <4>3. /\ top[t] \subseteq Counted(t) /\ IsFiniteSet(top[t])
            /\ Cardinality(top[t]) = MinOf(TopCount, rows[t])
            /\ Counted(t) # {} =>
                 \E x \in top[t] : \A j \in Counted(t) : RowSize[t][j] <= RowSize[t][x]
        BY <4>2, <3>4, FS_Subset DEF TopAt
      <4>4. \A j \in Counted(t) \cup {i} : RowSize[t][j] \in Nat
        BY <3>4, SizeOf
      <4>5. /\ h \subseteq Counted(t) \cup {i}
            /\ Cardinality(h) = MinOf(TopCount, rows[t] + 1)
            /\ \E x \in h : \A j \in Counted(t) \cup {i} : RowSize[t][j] <= RowSize[t][x]
        <5>1. /\ top[t] \in SUBSET Counted(t) /\ IsFiniteSet(top[t]) /\ i \notin Counted(t)
              /\ \A j \in Counted(t) \cup {i} : RowSize[t][j] \in Nat
              /\ TopCount \in Nat \ {0} /\ rows[t] \in Nat
              /\ Cardinality(top[t]) = MinOf(TopCount, rows[t])
              /\ Counted(t) # {} =>
                   \E x \in top[t] : \A j \in Counted(t) : RowSize[t][j] <= RowSize[t][x]
          BY <4>3, <4>4, <3>3, <3>7, <1>op, <1>ty
        <5>2. PushSpec(Counted(t), top[t], i, RowSize[t], TopCount, rows[t])
          BY PushKeepsLargest
        <5>3. QED
          BY <5>1, <5>2 DEF PushSpec
      <4>6. top'[t] = h
        BY <4>1, <1>ty
      <4>7. QED
        BY <4>5, <4>6, <3>1, <3>3 DEF TopAt
    <3>8. QED
      BY <3>6, <3>7
  <2>3. QED
    BY <2>1, <2>2
<1>7. CASE UNCHANGED vars
  BY <1>7, <1>fr DEF vars
<1>8. QED
  BY <1>1, <1>2, <1>3, <1>4, <1>5, <1>6, <1>7 DEF Next, Deliver

\* A split that drained and completed without an error counted all its rows.
LEMMA StatsAtEnd ==
    IInv /\ EndInv /\ RowsExact /\ HistInv /\ TopInv => StatsComplete
<1> SUFFICES ASSUME IInv, EndInv, RowsExact, HistInv, TopInv, NEW s \in Splits,
                    Quiescent(s), completed[s], ~errorOccurred
             PROVE  /\ hist[s] = SizeBag(s)
                    /\ TopCount > 0 =>
                         /\ Cardinality(top[s]) = IF TopCount < NRows(s) THEN TopCount ELSE NRows(s)
                         /\ \A j \in 1 .. NRows(s) : \E i \in top[s] : RowSize[s][j] <= RowSize[s][i]
  BY DEF StatsComplete
<1>1. pendWrite[s] = 0 /\ counting[s] = {}
  BY AccountingDrained DEF DrainedMeansIdle, Quiescent
<1>2. cursor[s] = NRows(s)
  BY DEF EndInv
<1>3. Counted(s) = 1 .. NRows(s)
  BY <1>1, <1>2 DEF Counted
<1>4. rows[s] = NRows(s)
  <2>1. Cardinality(counting[s]) = 0
    BY <1>1, FS_EmptySet
  <2>2. rows[s] \in Nat
    BY DEF IInv, TypeOK
  <2>3. rows[s] + pendWrite[s] + Cardinality(counting[s]) = cursor[s]
    BY DEF RowsExact
  <2>4. QED
    BY <1>1, <1>2, <2>1, <2>2, <2>3, NRowsNat
<1>5. hist[s] = SizeBag(s)
  <2>1. hist[s] \in [SizeValues -> Nat]
    BY DEF IInv, TypeOK
  <2>2. \A v \in SizeValues :
          hist[s][v] = Cardinality({i \in 1 .. NRows(s) : RowSize[s][i] = v})
    BY <1>3 DEF HistInv, HistAt
  <2>3. QED
    BY <2>1, <2>2 DEF SizeBag
<1>6. ASSUME TopCount > 0
      PROVE  /\ Cardinality(top[s]) = IF TopCount < NRows(s) THEN TopCount ELSE NRows(s)
             /\ \A j \in 1 .. NRows(s) : \E i \in top[s] : RowSize[s][j] <= RowSize[s][i]
  <2>1. TopAt(s)
    BY <1>6 DEF TopInv
  <2>2. Cardinality(top[s]) = IF TopCount < NRows(s) THEN TopCount ELSE NRows(s)
    BY <2>1, <1>4 DEF TopAt, MinOf
  <2>3. NRows(s) # 0 => \E i \in top[s] : \A j \in 1 .. NRows(s) : RowSize[s][j] <= RowSize[s][i]
    BY <2>1, <1>3, NRowsNat DEF TopAt
  <2>4. \A j \in 1 .. NRows(s) : \E i \in top[s] : RowSize[s][j] <= RowSize[s][i]
    BY <2>3, NRowsNat
  <2>5. QED
    BY <2>2, <2>4
<1>7. QED
  BY <1>5, <1>6

(***************************************************************************)
(* For every number of splits, every max_batch_count, every top_count and *)
(* every content of the scanners: a count scan with stat_size whose splits *)
(* drained and completed without an error has added every row to the size *)
(* histograms exactly once, and its top_rows holds min(top_count, rows)    *)
(* rows, one of them a largest row of the split.  The interleaving of the *)
(* count callbacks, which push rows in any order, and the heap popping     *)
(* its largest item at capacity never lose a largest row.                  *)
(***************************************************************************)
THEOREM StatsCorrect ==
    ASSUME CountStats
    PROVE  Spec => []StatsComplete
<1>0. NoLostWrite
  BY DEF CountStats, NoLostWrite, WriteOps
<1>1. IInv /\ WriteFree /\ RowsExact /\ [Next]_vars => RowsExact'
  BY <1>0, NextRowsExact
<1>2. IInv /\ WriteFree /\ HistInv /\ TopInv /\ [Next]_vars => (HistInv /\ TopInv)'
  BY NextStats
<1>3. Init => IInv /\ WriteFree /\ EndInv /\ RowsExact /\ HistInv /\ TopInv
  BY InitIInv, InitCountInv, InitStats
<1>4. IInv /\ WriteFree /\ EndInv /\ RowsExact /\ HistInv /\ TopInv /\ [Next]_vars
        => (IInv /\ WriteFree /\ EndInv /\ RowsExact /\ HistInv /\ TopInv)'
  BY <1>1, <1>2, NextIInv, NextWriteFree, NextEndInv
<1>5. Spec => [](IInv /\ WriteFree /\ EndInv /\ RowsExact /\ HistInv /\ TopInv)
  BY <1>3, <1>4, PTL DEF Spec
<1>6. QED
  BY <1>5, StatsAtEnd, PTL

=============================================================================
