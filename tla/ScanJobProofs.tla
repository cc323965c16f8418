--------------------------- MODULE ScanJobProofs ----------------------------
(***************************************************************************)
(* Proofs about ScanJob for every number of splits, every max_batch_count, *)
(* every operation and every content of the scanners.                     *)
(*                                                                         *)
(* TypeOK is not inductive: CbFinish decrements split_request_count, and   *)
(* only the accounting of outstanding work (InFlightAccounting) shows the *)
(* counter is positive there.  The accounting in turn needs the rows being *)
(* counted to be a finite set of rows the scanner has already handed out *)
(* (CursorInv), and the one-report property needs "a split that reported  *)
(* is completed" (ReportInv).                                             *)
(***************************************************************************)
EXTENDS ScanJob, FiniteSetTheorems, TLAPS

\* The rows a count callback has yet to count were handed out by the scanner.
CursorInv ==
    \A s \in Splits : /\ cursor[s] \in 0 .. NRows(s)
                      /\ counting[s] \subseteq 1 .. cursor[s]

\* A split prints at most one error, and only once it is completed.
ReportInv ==
    \A s \in Splits : /\ reports[s] \in {0, 1}
                      /\ reports[s] = 1 => completed[s]

IInv == TypeOK /\ CursorInv /\ InFlightAccounting /\ ReportInv

-----------------------------------------------------------------------------
(* Lemmas about the operators the model is built from.                     *)

\* A push of top_container keeps only rows it held or the pushed row.
LEMMA PushSubset ==
    ASSUME NEW heap, NEW i, NEW size, NEW k, NEW h \in Push(heap, i, size, k)
    PROVE  h \subseteq heap \cup {i}
BY DEF Push, HeapTop

\* The rows a split is counting form a finite set.
LEMMA CountingFinite ==
    ASSUME CursorInv, NEW s \in Splits
    PROVE  IsFiniteSet(counting[s])
<1>1. cursor[s] \in Int /\ counting[s] \subseteq 1 .. cursor[s]
  BY DEF CursorInv
<1>2. \A b \in Int : IsFiniteSet(1 .. b)
  BY FS_Interval
<1>3. QED
  BY <1>1, <1>2, FS_Subset

\* The length of every scanner's row sequence is a natural number.
LEMMA NRowsNat ==
    ASSUME NEW s \in Splits
    PROVE  NRows(s) \in Nat /\ RowSize[s] \in Seq(Nat)
BY ConstantsAssumption DEF NRows

-----------------------------------------------------------------------------
(* The inductive invariant.                                                *)

LEMMA InitIInv == Init => IInv
<1> SUFFICES ASSUME Init PROVE IInv
  OBVIOUS
<1>1. TypeOK
  <2>1. count \in [Splits -> Nat] /\ rows \in [Splits -> Nat] /\ reports \in [Splits -> Nat]
    BY DEF Init
  <2>2. completed \in [Splits -> BOOLEAN] /\ errorOccurred \in BOOLEAN
    BY DEF Init
  <2>3. pendNext \in [Splits -> Nat] /\ pendWrite \in [Splits -> Nat] /\ cursor \in [Splits -> Nat]
    BY DEF Init
  <2>4. run \in [Splits -> [PCs -> Nat]]
    BY DEF Init
  <2>5. counting \in [Splits -> SUBSET Nat] /\ top \in [Splits -> SUBSET Nat]
    BY DEF Init
  <2>6. hist \in [Splits -> [SizeValues -> Nat]]
    BY DEF Init
  <2>7. mainSplit \in 1 .. NSplits + 1 /\ mainPc \in {"chk", "cnt", "inc"}
    BY ConstantsAssumption DEF Init
  <2>8. QED
    BY <2>1, <2>2, <2>3, <2>4, <2>5, <2>6, <2>7 DEF TypeOK
<1>2. CursorInv
  BY NRowsNat DEF Init, CursorInv
<1>3. InFlightAccounting
  BY FS_EmptySet DEF Init, InFlightAccounting, InFlight, Running, PCs
<1>4. ReportInv
  BY DEF Init, ReportInv
<1>5. QED
  BY <1>1, <1>2, <1>3, <1>4 DEF IInv

\* The types of the flags and the report counters after RecordError.
LEMMA RecordErrorType ==
    ASSUME NEW s \in Splits, RecordError(s),
           completed \in [Splits -> BOOLEAN], errorOccurred \in BOOLEAN,
           reports \in [Splits -> Nat]
    PROVE  /\ completed' \in [Splits -> BOOLEAN] /\ errorOccurred' \in BOOLEAN
           /\ reports' \in [Splits -> Nat]
<1>1. CASE ~completed[s]
  BY <1>1 DEF RecordError
<1>2. CASE completed[s]
  BY <1>2 DEF RecordError
<1>3. QED
  BY <1>1, <1>2

LEMMA NextIInv == IInv /\ [Next]_vars => IInv'
<1> SUFFICES ASSUME IInv, [Next]_vars PROVE IInv'
  OBVIOUS
<1>t1. count \in [Splits -> Nat]
  BY DEF IInv, TypeOK
<1>t2. rows \in [Splits -> Nat]
  BY DEF IInv, TypeOK
<1>t3. completed \in [Splits -> BOOLEAN]
  BY DEF IInv, TypeOK
<1>t4. errorOccurred \in BOOLEAN
  BY DEF IInv, TypeOK
<1>t5. pendNext \in [Splits -> Nat]
  BY DEF IInv, TypeOK
<1>t6. pendWrite \in [Splits -> Nat]
  BY DEF IInv, TypeOK
<1>t7. run \in [Splits -> [PCs -> Nat]]
  BY DEF IInv, TypeOK
<1>t8. counting \in [Splits -> SUBSET Nat]
  BY DEF IInv, TypeOK
<1>t9. cursor \in [Splits -> Nat]
  BY DEF IInv, TypeOK
<1>t10. hist \in [Splits -> [SizeValues -> Nat]]
  BY DEF IInv, TypeOK
<1>t11. top \in [Splits -> SUBSET Nat]
  BY DEF IInv, TypeOK
<1>t12. reports \in [Splits -> Nat]
  BY DEF IInv, TypeOK
<1>t13. mainSplit \in 1 .. NSplits + 1
  BY DEF IInv, TypeOK
<1>t14. mainPc \in {"chk", "cnt", "inc"}
  BY DEF IInv, TypeOK
<1>nat. NSplits \in Nat
  BY ConstantsAssumption
<1>0. \A t \in Splits : IsFiniteSet(counting[t])
  BY CountingFinite DEF IInv
<1>card. \A t \in Splits : Cardinality(counting[t]) \in Nat
  BY <1>0, FS_CardinalityType
<1>acc. InFlightAccounting
  BY DEF IInv
<1>1. CASE MainCheck
  <2>1. TypeOK'
    <3>1. mainSplit' \in 1 .. NSplits + 1 /\ mainPc' \in {"chk", "cnt", "inc"}
      BY <1>1, <1>t13, <1>t14, <1>nat DEF MainCheck, MainLeave, Splits
    <3>2. UNCHANGED <<count, rows, completed, errorOccurred, pendNext, pendWrite, run, counting, cursor, hist, top, reports>>
      BY <1>1 DEF MainCheck
    <3>3. QED
      BY <3>1, <3>2 DEF IInv, TypeOK
  <2>2. CursorInv'
    BY <1>1 DEF MainCheck, MainLeave, Splits, IInv, TypeOK, CursorInv
  <2>3. InFlightAccounting'
    BY <1>1, <1>acc, <1>card, <1>t1, <1>t5, <1>t6, <1>t7 DEF MainCheck, MainLeave, Splits, InFlightAccounting, InFlight, Running
  <2>4. ReportInv'
    BY <1>1 DEF MainCheck, MainLeave, Splits, IInv, TypeOK, ReportInv
  <2>5. QED
    BY <2>1, <2>2, <2>3, <2>4 DEF IInv
<1>2. CASE MainCount
  <2>1. TypeOK'
    <3>1. mainSplit' \in 1 .. NSplits + 1 /\ mainPc' \in {"chk", "cnt", "inc"}
      BY <1>2, <1>t13, <1>t14, <1>nat DEF MainCount, MainLeave, Splits
    <3>2. UNCHANGED <<count, rows, completed, errorOccurred, pendNext, pendWrite, run, counting, cursor, hist, top, reports>>
      BY <1>2 DEF MainCount
    <3>3. QED
      BY <3>1, <3>2 DEF IInv, TypeOK
  <2>2. CursorInv'
    BY <1>2 DEF MainCount, MainLeave, Splits, IInv, TypeOK, CursorInv
  <2>3. InFlightAccounting'
    BY <1>2, <1>acc, <1>card, <1>t1, <1>t5, <1>t6, <1>t7 DEF MainCount, MainLeave, Splits, InFlightAccounting, InFlight, Running
  <2>4. ReportInv'
    BY <1>2 DEF MainCount, MainLeave, Splits, IInv, TypeOK, ReportInv
  <2>5. QED
    BY <2>1, <2>2, <2>3, <2>4 DEF IInv
<1>3. CASE MainIssue
  <2>0. mainSplit \in Splits
    BY <1>3 DEF MainIssue
  <2>1. TypeOK'
    <3>1. count' \in [Splits -> Nat] /\ pendNext' \in [Splits -> Nat] /\ mainPc' \in {"chk", "cnt", "inc"}
      BY <1>3, <1>t1, <1>t5, <1>t14 DEF MainIssue, IssueFetch, Splits
    <3>2. UNCHANGED <<rows, completed, errorOccurred, pendWrite, run, counting, cursor, hist, top, reports, mainSplit>>
      BY <1>3 DEF MainIssue
    <3>3. QED
      BY <3>1, <3>2 DEF IInv, TypeOK
  <2>2. CursorInv'
    BY <1>3 DEF MainIssue, IssueFetch, Splits, IInv, TypeOK, CursorInv
  <2>3. InFlightAccounting'
    <3> SUFFICES ASSUME NEW t \in Splits PROVE count'[t] = InFlight(t)'
      BY DEF InFlightAccounting
    <3>1. count[t] = InFlight(t)
      BY <1>acc DEF InFlightAccounting
    <3>2. CASE t = mainSplit
      <4>1. /\ count'[mainSplit] = count[mainSplit] + 1
           /\ pendNext'[mainSplit] = pendNext[mainSplit] + 1
           /\ pendWrite'[mainSplit] = pendWrite[mainSplit]
           /\ run'[mainSplit]["chk"] = run[mainSplit]["chk"]
           /\ run'[mainSplit]["cnt"] = run[mainSplit]["cnt"]
           /\ run'[mainSplit]["inc"] = run[mainSplit]["inc"]
           /\ run'[mainSplit]["dec"] = run[mainSplit]["dec"]
           /\ Cardinality(counting'[mainSplit]) = Cardinality(counting[mainSplit])
        BY <1>3, <1>t1, <1>t5, <1>t6, <1>t7, <1>t8, <2>0 DEF MainIssue, IssueFetch, Splits
      <4>2. pendNext'[mainSplit] + pendWrite'[mainSplit] + (run'[mainSplit]["chk"] + run'[mainSplit]["cnt"] + run'[mainSplit]["inc"] + run'[mainSplit]["dec"] + Cardinality(counting'[mainSplit]))
           = InFlight(mainSplit) + 1
        BY <4>1, <1>card, <1>t1, <1>t5, <1>t6, <1>t7, <1>t8, <2>0 DEF InFlight, Running, PCs
      <4>3. QED
        BY <4>1, <4>2, <3>1, <3>2 DEF InFlight, Running
    <3>3. CASE t # mainSplit
      <4>1. /\ count'[t] = count[t] /\ pendNext'[t] = pendNext[t]
            /\ pendWrite'[t] = pendWrite[t] /\ run'[t] = run[t]
            /\ counting'[t] = counting[t]
        BY <1>3, <3>3, <1>t1, <1>t5, <1>t6, <1>t7, <1>t8 DEF MainIssue, IssueFetch, Splits
      <4>2. QED
        BY <4>1, <3>1 DEF InFlight, Running
    <3>4. QED
      BY <3>2, <3>3
  <2>4. ReportInv'
    BY <1>3 DEF MainIssue, IssueFetch, Splits, IInv, TypeOK, ReportInv
  <2>5. QED
    BY <2>1, <2>2, <2>3, <2>4 DEF IInv
<1>4. ASSUME NEW s \in Splits, CbCheck(s) PROVE IInv'
  <2>1. TypeOK'
    <3>1. run' \in [Splits -> [PCs -> Nat]]
      BY <1>4, <1>t7 DEF CbCheck, Move, PCs
    <3>2. UNCHANGED <<count, rows, completed, errorOccurred, pendNext, pendWrite, counting, cursor, hist, top, reports, mainSplit, mainPc>>
      BY <1>4 DEF CbCheck
    <3>3. QED
      BY <3>1, <3>2 DEF IInv, TypeOK
  <2>2. CursorInv'
    BY <1>4 DEF CbCheck, Move, PCs, IInv, TypeOK, CursorInv
  <2>3. InFlightAccounting'
    BY <1>4, <1>acc, <1>card, <1>t1, <1>t5, <1>t6, <1>t7 DEF CbCheck, Move, PCs, InFlightAccounting, InFlight, Running
  <2>4. ReportInv'
    BY <1>4 DEF CbCheck, Move, PCs, IInv, TypeOK, ReportInv
  <2>5. QED
    BY <2>1, <2>2, <2>3, <2>4 DEF IInv
<1>5. ASSUME NEW s \in Splits, CbCount(s) PROVE IInv'
  <2>1. TypeOK'
    <3>1. run' \in [Splits -> [PCs -> Nat]]
      BY <1>5, <1>t7 DEF CbCount, Move, PCs
    <3>2. UNCHANGED <<count, rows, completed, errorOccurred, pendNext, pendWrite, counting, cursor, hist, top, reports, mainSplit, mainPc>>
      BY <1>5 DEF CbCount
    <3>3. QED
      BY <3>1, <3>2 DEF IInv, TypeOK
  <2>2. CursorInv'
    BY <1>5 DEF CbCount, Move, PCs, IInv, TypeOK, CursorInv
  <2>3. InFlightAccounting'
    BY <1>5, <1>acc, <1>card, <1>t1, <1>t5, <1>t6, <1>t7 DEF CbCount, Move, PCs, InFlightAccounting, InFlight, Running
  <2>4. ReportInv'
    BY <1>5 DEF CbCount, Move, PCs, IInv, TypeOK, ReportInv
  <2>5. QED
    BY <2>1, <2>2, <2>3, <2>4 DEF IInv
<1>6. ASSUME NEW s \in Splits, CbIssue(s) PROVE IInv'
  <2>1. TypeOK'
    <3>1. count' \in [Splits -> Nat] /\ pendNext' \in [Splits -> Nat] /\ run' \in [Splits -> [PCs -> Nat]]
      BY <1>6, <1>t1, <1>t5, <1>t7 DEF CbIssue, IssueFetch, Move, PCs
    <3>2. UNCHANGED <<rows, completed, errorOccurred, pendWrite, counting, cursor, hist, top, reports, mainSplit, mainPc>>
      BY <1>6 DEF CbIssue
    <3>3. QED
      BY <3>1, <3>2 DEF IInv, TypeOK
  <2>2. CursorInv'
    BY <1>6 DEF CbIssue, IssueFetch, Move, PCs, IInv, TypeOK, CursorInv
  <2>3. InFlightAccounting'
    <3> SUFFICES ASSUME NEW t \in Splits PROVE count'[t] = InFlight(t)'
      BY DEF InFlightAccounting
    <3>1. count[t] = InFlight(t)
      BY <1>acc DEF InFlightAccounting
    <3>2. CASE t = s
      <4>1. /\ count'[s] = count[s] + 1
           /\ pendNext'[s] = pendNext[s] + 1
           /\ pendWrite'[s] = pendWrite[s]
           /\ run'[s]["chk"] = run[s]["chk"] + 1
           /\ run'[s]["cnt"] = run[s]["cnt"]
           /\ run'[s]["inc"] = run[s]["inc"] - 1
           /\ run'[s]["dec"] = run[s]["dec"]
           /\ Cardinality(counting'[s]) = Cardinality(counting[s])
        BY <1>6, <1>t1, <1>t5, <1>t6, <1>t7, <1>t8 DEF CbIssue, IssueFetch, Move, PCs
      <4>2. pendNext'[s] + pendWrite'[s] + (run'[s]["chk"] + run'[s]["cnt"] + run'[s]["inc"] + run'[s]["dec"] + Cardinality(counting'[s]))
           = InFlight(s) + 1
        BY <4>1, <1>card, <1>t1, <1>t5, <1>t6, <1>t7, <1>t8 DEF InFlight, Running, PCs
      <4>3. QED
        BY <4>1, <4>2, <3>1, <3>2 DEF InFlight, Running
    <3>3. CASE t # s
      <4>1. /\ count'[t] = count[t] /\ pendNext'[t] = pendNext[t]
            /\ pendWrite'[t] = pendWrite[t] /\ run'[t] = run[t]
            /\ counting'[t] = counting[t]
        BY <1>6, <3>3, <1>t1, <1>t5, <1>t6, <1>t7, <1>t8 DEF CbIssue, IssueFetch, Move, PCs
      <4>2. QED
        BY <4>1, <3>1 DEF InFlight, Running
    <3>4. QED
      BY <3>2, <3>3
  <2>4. ReportInv'
    BY <1>6 DEF CbIssue, IssueFetch, Move, PCs, IInv, TypeOK, ReportInv
  <2>5. QED
    BY <2>1, <2>2, <2>3, <2>4 DEF IInv
<1>7. ASSUME NEW s \in Splits, CbFinish(s) PROVE IInv'
  <2>0. count[s] >= 1
    BY <1>7, <1>acc, <1>card, <1>t1, <1>t5, <1>t6, <1>t7 DEF CbFinish, InFlightAccounting, InFlight, Running, PCs
  <2>1. TypeOK'
    <3>1. count' \in [Splits -> Nat] /\ run' \in [Splits -> [PCs -> Nat]]
      BY <1>7, <1>t1, <1>t7, <2>0 DEF CbFinish, PCs
    <3>2. UNCHANGED <<rows, completed, errorOccurred, pendNext, pendWrite, counting, cursor, hist, top, reports, mainSplit, mainPc>>
      BY <1>7 DEF CbFinish
    <3>3. QED
      BY <3>1, <3>2 DEF IInv, TypeOK
  <2>2. CursorInv'
    BY <1>7 DEF CbFinish, PCs, IInv, TypeOK, CursorInv
  <2>3. InFlightAccounting'
    <3> SUFFICES ASSUME NEW t \in Splits PROVE count'[t] = InFlight(t)'
      BY DEF InFlightAccounting
    <3>1. count[t] = InFlight(t)
      BY <1>acc DEF InFlightAccounting
    <3>2. CASE t = s
      <4>1. /\ count'[s] = count[s] - 1
           /\ pendNext'[s] = pendNext[s]
           /\ pendWrite'[s] = pendWrite[s]
           /\ run'[s]["chk"] = run[s]["chk"]
           /\ run'[s]["cnt"] = run[s]["cnt"]
           /\ run'[s]["inc"] = run[s]["inc"]
           /\ run'[s]["dec"] = run[s]["dec"] - 1
           /\ Cardinality(counting'[s]) = Cardinality(counting[s])
        BY <1>7, <1>t1, <1>t5, <1>t6, <1>t7, <1>t8 DEF CbFinish, PCs
      <4>2. pendNext'[s] + pendWrite'[s] + (run'[s]["chk"] + run'[s]["cnt"] + run'[s]["inc"] + run'[s]["dec"] + Cardinality(counting'[s]))
           = InFlight(s) - 1
        BY <4>1, <1>card, <1>t1, <1>t5, <1>t6, <1>t7, <1>t8 DEF InFlight, Running, PCs
      <4>3. QED
        BY <4>1, <4>2, <3>1, <3>2 DEF InFlight, Running
    <3>3. CASE t # s
      <4>1. /\ count'[t] = count[t] /\ pendNext'[t] = pendNext[t]
            /\ pendWrite'[t] = pendWrite[t] /\ run'[t] = run[t]
            /\ counting'[t] = counting[t]
        BY <1>7, <3>3, <1>t1, <1>t5, <1>t6, <1>t7, <1>t8 DEF CbFinish, PCs
      <4>2. QED
        BY <4>1, <3>1 DEF InFlight, Running
    <3>4. QED
      BY <3>2, <3>3
  <2>4. ReportInv'
    BY <1>7 DEF CbFinish, PCs, IInv, TypeOK, ReportInv
  <2>5. QED
    BY <2>1, <2>2, <2>3, <2>4 DEF IInv
<1>8. ASSUME NEW s \in Splits, FetchRow(s) PROVE IInv'
  <2>0. /\ cursor[s] + 1 \notin counting[s]
        /\ Cardinality(counting[s] \cup {cursor[s] + 1}) = Cardinality(counting[s]) + 1
    <3>1. cursor[s] + 1 \notin counting[s]
      BY <1>t9 DEF IInv, CursorInv
    <3>2. QED
      BY <3>1, <1>0, FS_AddElement
  <2>1. TypeOK'
    <3>1. CASE Op \in WriteOps
      <4>1. /\ count' \in [Splits -> Nat] /\ pendWrite' \in [Splits -> Nat]
            /\ run' \in [Splits -> [PCs -> Nat]] /\ counting' = counting
        BY <1>8, <3>1, <1>t1, <1>t6, <1>t7 DEF FetchRow, PCs
      <4>2. QED
        BY <4>1, <1>8, <1>t5, <1>t9, <1>t8 DEF FetchRow, IInv, TypeOK
    <3>2. CASE Op \notin WriteOps
      <4>1. counting' \in [Splits -> SUBSET Nat]
        BY <1>8, <3>2, <1>t8, <1>t9 DEF FetchRow
      <4>2. UNCHANGED <<count, pendWrite, run>>
        BY <1>8, <3>2 DEF FetchRow
      <4>3. QED
        BY <4>1, <4>2, <1>8, <1>t5, <1>t9 DEF FetchRow, IInv, TypeOK
    <3>3. QED
      BY <3>1, <3>2
  <2>2. CursorInv'
    <3> SUFFICES ASSUME NEW t \in Splits
                 PROVE  cursor'[t] \in 0 .. NRows(t) /\ counting'[t] \subseteq 1 .. cursor'[t]
      BY DEF CursorInv
    <3>1. cursor[t] \in 0 .. NRows(t) /\ counting[t] \subseteq 1 .. cursor[t]
      BY DEF IInv, CursorInv
    <3>2. NRows(t) \in Nat
      BY NRowsNat
    <3>3. CASE t = s
      <4>1. cursor'[s] = cursor[s] + 1 /\ cursor[s] < NRows(s)
        BY <1>8, <1>t9 DEF FetchRow
      <4>2. counting'[s] \subseteq counting[s] \cup {cursor[s] + 1}
        BY <1>8, <1>t8 DEF FetchRow
      <4>3. QED
        BY <3>1, <3>2, <3>3, <4>1, <4>2
    <3>4. CASE t # s
      <4>1. cursor'[t] = cursor[t] /\ counting'[t] = counting[t]
        BY <1>8, <3>4, <1>t8, <1>t9 DEF FetchRow
      <4>2. QED
        BY <3>1, <4>1
    <3>5. QED
      BY <3>3, <3>4
  <2>3. InFlightAccounting'
    <3> SUFFICES ASSUME NEW t \in Splits PROVE count'[t] = InFlight(t)'
      BY DEF InFlightAccounting
    <3>1. count[t] = InFlight(t)
      BY <1>acc DEF InFlightAccounting
    <3>2. CASE t = s
      <4>1. CASE Op \in WriteOps
        <5>1. /\ count'[s] = count[s] + 1
             /\ pendNext'[s] = pendNext[s] - 1
             /\ pendWrite'[s] = pendWrite[s] + 1
             /\ run'[s]["chk"] = run[s]["chk"]
             /\ run'[s]["cnt"] = run[s]["cnt"]
             /\ run'[s]["inc"] = run[s]["inc"]
             /\ run'[s]["dec"] = run[s]["dec"] + 1
             /\ Cardinality(counting'[s]) = Cardinality(counting[s])
          BY <1>8, <4>1, <1>t1, <1>t5, <1>t6, <1>t7, <1>t8, <2>0 DEF FetchRow, PCs
        <5>2. pendNext'[s] + pendWrite'[s] + (run'[s]["chk"] + run'[s]["cnt"] + run'[s]["inc"] + run'[s]["dec"] + Cardinality(counting'[s]))
             = InFlight(s) + 1
          BY <5>1, <1>card, <1>t1, <1>t5, <1>t6, <1>t7, <1>t8 DEF InFlight, Running, PCs
        <5>3. QED
          BY <5>1, <5>2, <3>1, <3>2 DEF InFlight, Running
      <4>2. CASE Op \notin WriteOps
        <5>1. /\ count'[s] = count[s]
             /\ pendNext'[s] = pendNext[s] - 1
             /\ pendWrite'[s] = pendWrite[s]
             /\ run'[s]["chk"] = run[s]["chk"]
             /\ run'[s]["cnt"] = run[s]["cnt"]
             /\ run'[s]["inc"] = run[s]["inc"]
             /\ run'[s]["dec"] = run[s]["dec"]
             /\ Cardinality(counting'[s]) = Cardinality(counting[s]) + 1
          BY <1>8, <4>2, <1>t1, <1>t5, <1>t6, <1>t7, <1>t8, <2>0 DEF FetchRow, PCs
        <5>2. pendNext'[s] + pendWrite'[s] + (run'[s]["chk"] + run'[s]["cnt"] + run'[s]["inc"] + run'[s]["dec"] + Cardinality(counting'[s]))
             = InFlight(s)
          BY <5>1, <1>card, <1>t1, <1>t5, <1>t6, <1>t7, <1>t8 DEF InFlight, Running, PCs
        <5>3. QED
          BY <5>1, <5>2, <3>1, <3>2 DEF InFlight, Running
      <4>3. QED
        BY <4>1, <4>2
    <3>3. CASE t # s
      <4>1. /\ count'[t] = count[t] /\ pendNext'[t] = pendNext[t]
            /\ pendWrite'[t] = pendWrite[t] /\ run'[t] = run[t]
            /\ counting'[t] = counting[t]
        BY <1>8, <3>3, <1>t1, <1>t5, <1>t6, <1>t7, <1>t8 DEF FetchRow, PCs
      <4>2. QED
        BY <4>1, <3>1 DEF InFlight, Running
    <3>4. QED
      BY <3>2, <3>3
  <2>4. ReportInv'
    BY <1>8 DEF FetchRow, PCs, IInv, TypeOK, ReportInv
  <2>5. QED
    BY <2>1, <2>2, <2>3, <2>4 DEF IInv
<1>9. ASSUME NEW s \in Splits, FetchComplete(s) PROVE IInv'
  <2>1. TypeOK'
    <3>1. pendNext' \in [Splits -> Nat] /\ completed' \in [Splits -> BOOLEAN] /\ run' \in [Splits -> [PCs -> Nat]]
      BY <1>9, <1>t5, <1>t3, <1>t7 DEF FetchComplete, PCs
    <3>2. UNCHANGED <<count, rows, errorOccurred, pendWrite, counting, cursor, hist, top, reports, mainSplit, mainPc>>
      BY <1>9 DEF FetchComplete
    <3>3. QED
      BY <3>1, <3>2 DEF IInv, TypeOK
  <2>2. CursorInv'
    BY <1>9 DEF FetchComplete, PCs, IInv, TypeOK, CursorInv
  <2>3. InFlightAccounting'
    <3> SUFFICES ASSUME NEW t \in Splits PROVE count'[t] = InFlight(t)'
      BY DEF InFlightAccounting
    <3>1. count[t] = InFlight(t)
      BY <1>acc DEF InFlightAccounting
    <3>2. CASE t = s
      <4>1. /\ count'[s] = count[s]
           /\ pendNext'[s] = pendNext[s] - 1
           /\ pendWrite'[s] = pendWrite[s]
           /\ run'[s]["chk"] = run[s]["chk"]
           /\ run'[s]["cnt"] = run[s]["cnt"]
           /\ run'[s]["inc"] = run[s]["inc"]
           /\ run'[s]["dec"] = run[s]["dec"] + 1
           /\ Cardinality(counting'[s]) = Cardinality(counting[s])
        BY <1>9, <1>t1, <1>t5, <1>t6, <1>t7, <1>t8 DEF FetchComplete, PCs
      <4>2. pendNext'[s] + pendWrite'[s] + (run'[s]["chk"] + run'[s]["cnt"] + run'[s]["inc"] + run'[s]["dec"] + Cardinality(counting'[s]))
           = InFlight(s)
        BY <4>1, <1>card, <1>t1, <1>t5, <1>t6, <1>t7, <1>t8 DEF InFlight, Running, PCs
      <4>3. QED
        BY <4>1, <4>2, <3>1, <3>2 DEF InFlight, Running
    <3>3. CASE t # s
      <4>1. /\ count'[t] = count[t] /\ pendNext'[t] = pendNext[t]
            /\ pendWrite'[t] = pendWrite[t] /\ run'[t] = run[t]
            /\ counting'[t] = counting[t]
        BY <1>9, <3>3, <1>t1, <1>t5, <1>t6, <1>t7, <1>t8 DEF FetchComplete, PCs
      <4>2. QED
        BY <4>1, <3>1 DEF InFlight, Running
    <3>4. QED
      BY <3>2, <3>3
  <2>4. ReportInv'
    BY <1>9 DEF FetchComplete, PCs, IInv, TypeOK, ReportInv
  <2>5. QED
    BY <2>1, <2>2, <2>3, <2>4 DEF IInv
<1>10. ASSUME NEW s \in Splits, FetchError(s) PROVE IInv'
  <2>1. TypeOK'
    <3>1. pendNext' \in [Splits -> Nat] /\ run' \in [Splits -> [PCs -> Nat]]
      BY <1>10, <1>t5, <1>t7 DEF FetchError, PCs
    <3>2. /\ completed' \in [Splits -> BOOLEAN] /\ errorOccurred' \in BOOLEAN
          /\ reports' \in [Splits -> Nat]
      BY <1>10, RecordErrorType, <1>t3, <1>t4, <1>t12 DEF FetchError
    <3>3. UNCHANGED <<count, rows, pendWrite, counting, cursor, hist, top, mainSplit, mainPc>>
      BY <1>10 DEF FetchError
    <3>4. QED
      BY <3>1, <3>2, <3>3 DEF IInv, TypeOK
  <2>2. CursorInv'
    BY <1>10 DEF FetchError, PCs, IInv, TypeOK, CursorInv
  <2>3. InFlightAccounting'
    <3> SUFFICES ASSUME NEW t \in Splits PROVE count'[t] = InFlight(t)'
      BY DEF InFlightAccounting
    <3>1. count[t] = InFlight(t)
      BY <1>acc DEF InFlightAccounting
    <3>2. CASE t = s
      <4>1. /\ count'[s] = count[s]
           /\ pendNext'[s] = pendNext[s] - 1
           /\ pendWrite'[s] = pendWrite[s]
           /\ run'[s]["chk"] = run[s]["chk"]
           /\ run'[s]["cnt"] = run[s]["cnt"]
           /\ run'[s]["inc"] = run[s]["inc"]
           /\ run'[s]["dec"] = run[s]["dec"] + 1
           /\ Cardinality(counting'[s]) = Cardinality(counting[s])
        BY <1>10, <1>t1, <1>t5, <1>t6, <1>t7, <1>t8 DEF FetchError, PCs
      <4>2. pendNext'[s] + pendWrite'[s] + (run'[s]["chk"] + run'[s]["cnt"] + run'[s]["inc"] + run'[s]["dec"] + Cardinality(counting'[s]))
           = InFlight(s)
        BY <4>1, <1>card, <1>t1, <1>t5, <1>t6, <1>t7, <1>t8 DEF InFlight, Running, PCs
      <4>3. QED
        BY <4>1, <4>2, <3>1, <3>2 DEF InFlight, Running
    <3>3. CASE t # s
      <4>1. /\ count'[t] = count[t] /\ pendNext'[t] = pendNext[t]
            /\ pendWrite'[t] = pendWrite[t] /\ run'[t] = run[t]
            /\ counting'[t] = counting[t]
        BY <1>10, <3>3, <1>t1, <1>t5, <1>t6, <1>t7, <1>t8 DEF FetchError, PCs
      <4>2. QED
        BY <4>1, <3>1 DEF InFlight, Running
    <3>4. QED
      BY <3>2, <3>3
  <2>4. ReportInv'
    BY <1>10 DEF FetchError, PCs, RecordError, IInv, TypeOK, ReportInv
  <2>5. QED
    BY <2>1, <2>2, <2>3, <2>4 DEF IInv
<1>11. ASSUME NEW s \in Splits, NEW i \in counting[s], CountRow(s, i) PROVE IInv'
  <2>0. Cardinality(counting[s] \ {i}) = Cardinality(counting[s]) - 1
    BY <1>0, FS_RemoveElement
  <2>h. RowSize[s][i] \in SizeValues
    <3>1. i \in 1 .. NRows(s)
      <4>1. counting[s] \subseteq 1 .. cursor[s] /\ cursor[s] \in 0 .. NRows(s)
        BY DEF IInv, CursorInv
      <4>2. QED
        BY <4>1, NRowsNat
    <3>2. QED
      BY <3>1 DEF SizeValues
  <2>p. \A h \in Push(top[s], i, RowSize[s], TopCount) : h \in SUBSET Nat
    BY PushSubset, <1>t8, <1>t11
  <2>1. TypeOK'
    <3>1. /\ counting' \in [Splits -> SUBSET Nat] /\ rows' \in [Splits -> Nat]
          /\ run' \in [Splits -> [PCs -> Nat]]
      BY <1>11, <1>t8, <1>t2, <1>t7 DEF CountRow, PCs
    <3>2. hist' \in [Splits -> [SizeValues -> Nat]]
      <4>1. CASE StatSize
        BY <1>11, <4>1, <2>h, <1>t10 DEF CountRow
      <4>2. CASE ~StatSize
        BY <1>11, <4>2, <1>t10 DEF CountRow
      <4>3. QED
        BY <4>1, <4>2
    <3>3. top' \in [Splits -> SUBSET Nat]
      <4>1. CASE StatSize /\ TopCount > 0
        <5>1. PICK h \in Push(top[s], i, RowSize[s], TopCount) : top' = [top EXCEPT ![s] = h]
          BY <1>11, <4>1 DEF CountRow
        <5>2. QED
          BY <5>1, <2>p, <1>t11
      <4>2. CASE ~(StatSize /\ TopCount > 0)
        BY <1>11, <4>2, <1>t11 DEF CountRow
      <4>3. QED
        BY <4>1, <4>2
    <3>4. UNCHANGED <<count, completed, errorOccurred, pendNext, pendWrite, cursor,
                     reports, mainSplit, mainPc>>
      BY <1>11 DEF CountRow
    <3>5. QED
      BY <3>1, <3>2, <3>3, <3>4 DEF IInv, TypeOK
  <2>2. CursorInv'
    BY <1>11 DEF CountRow, PCs, IInv, TypeOK, CursorInv
  <2>3. InFlightAccounting'
    <3> SUFFICES ASSUME NEW t \in Splits PROVE count'[t] = InFlight(t)'
      BY DEF InFlightAccounting
    <3>1. count[t] = InFlight(t)
      BY <1>acc DEF InFlightAccounting
    <3>2. CASE t = s
      <4>1. /\ count'[s] = count[s]
           /\ pendNext'[s] = pendNext[s]
           /\ pendWrite'[s] = pendWrite[s]
           /\ run'[s]["chk"] = run[s]["chk"] + 1
           /\ run'[s]["cnt"] = run[s]["cnt"]
           /\ run'[s]["inc"] = run[s]["inc"]
           /\ run'[s]["dec"] = run[s]["dec"]
           /\ Cardinality(counting'[s]) = Cardinality(counting[s]) - 1
        BY <1>11, <1>t1, <1>t5, <1>t6, <1>t7, <1>t8, <2>0 DEF CountRow, PCs
      <4>2. pendNext'[s] + pendWrite'[s] + (run'[s]["chk"] + run'[s]["cnt"] + run'[s]["inc"] + run'[s]["dec"] + Cardinality(counting'[s]))
           = InFlight(s)
        BY <4>1, <1>card, <1>t1, <1>t5, <1>t6, <1>t7, <1>t8 DEF InFlight, Running, PCs
      <4>3. QED
        BY <4>1, <4>2, <3>1, <3>2 DEF InFlight, Running
    <3>3. CASE t # s
      <4>1. /\ count'[t] = count[t] /\ pendNext'[t] = pendNext[t]
            /\ pendWrite'[t] = pendWrite[t] /\ run'[t] = run[t]
            /\ counting'[t] = counting[t]
        BY <1>11, <3>3, <1>t1, <1>t5, <1>t6, <1>t7, <1>t8 DEF CountRow, PCs
      <4>2. QED
        BY <4>1, <3>1 DEF InFlight, Running
    <3>4. QED
      BY <3>2, <3>3
  <2>4. ReportInv'
    BY <1>11 DEF CountRow, PCs, IInv, TypeOK, ReportInv
  <2>5. QED
    BY <2>1, <2>2, <2>3, <2>4 DEF IInv
<1>12. ASSUME NEW s \in Splits, WriteDone(s) PROVE IInv'
  <2>1. TypeOK'
    <3>1. pendWrite' \in [Splits -> Nat] /\ rows' \in [Splits -> Nat] /\ run' \in [Splits -> [PCs -> Nat]]
      BY <1>12, <1>t6, <1>t2, <1>t7 DEF WriteDone, PCs
    <3>2. UNCHANGED <<count, completed, errorOccurred, pendNext, counting, cursor, hist, top, reports, mainSplit, mainPc>>
      BY <1>12 DEF WriteDone
    <3>3. QED
      BY <3>1, <3>2 DEF IInv, TypeOK
  <2>2. CursorInv'
    BY <1>12 DEF WriteDone, PCs, IInv, TypeOK, CursorInv
  <2>3. InFlightAccounting'
    <3> SUFFICES ASSUME NEW t \in Splits PROVE count'[t] = InFlight(t)'
      BY DEF InFlightAccounting
    <3>1. count[t] = InFlight(t)
      BY <1>acc DEF InFlightAccounting
    <3>2. CASE t = s
      <4>1. /\ count'[s] = count[s]
           /\ pendNext'[s] = pendNext[s]
           /\ pendWrite'[s] = pendWrite[s] - 1
           /\ run'[s]["chk"] = run[s]["chk"] + 1
           /\ run'[s]["cnt"] = run[s]["cnt"]
           /\ run'[s]["inc"] = run[s]["inc"]
           /\ run'[s]["dec"] = run[s]["dec"]
           /\ Cardinality(counting'[s]) = Cardinality(counting[s])
        BY <1>12, <1>t1, <1>t5, <1>t6, <1>t7, <1>t8 DEF WriteDone, PCs
      <4>2. pendNext'[s] + pendWrite'[s] + (run'[s]["chk"] + run'[s]["cnt"] + run'[s]["inc"] + run'[s]["dec"] + Cardinality(counting'[s]))
           = InFlight(s)
        BY <4>1, <1>card, <1>t1, <1>t5, <1>t6, <1>t7, <1>t8 DEF InFlight, Running, PCs
      <4>3. QED
        BY <4>1, <4>2, <3>1, <3>2 DEF InFlight, Running
    <3>3. CASE t # s
      <4>1. /\ count'[t] = count[t] /\ pendNext'[t] = pendNext[t]
            /\ pendWrite'[t] = pendWrite[t] /\ run'[t] = run[t]
            /\ counting'[t] = counting[t]
        BY <1>12, <3>3, <1>t1, <1>t5, <1>t6, <1>t7, <1>t8 DEF WriteDone, PCs
      <4>2. QED
        BY <4>1, <3>1 DEF InFlight, Running
    <3>4. QED
      BY <3>2, <3>3
  <2>4. ReportInv'
    BY <1>12 DEF WriteDone, PCs, IInv, TypeOK, ReportInv
  <2>5. QED
    BY <2>1, <2>2, <2>3, <2>4 DEF IInv
<1>13. ASSUME NEW s \in Splits, WriteFailed(s) PROVE IInv'
  <2>1. TypeOK'
    <3>1. pendWrite' \in [Splits -> Nat] /\ run' \in [Splits -> [PCs -> Nat]]
      BY <1>13, <1>t6, <1>t7 DEF WriteFailed, PCs
    <3>2. /\ completed' \in [Splits -> BOOLEAN] /\ errorOccurred' \in BOOLEAN
          /\ reports' \in [Splits -> Nat]
      BY <1>13, RecordErrorType, <1>t3, <1>t4, <1>t12 DEF WriteFailed
    <3>3. UNCHANGED <<count, rows, pendNext, counting, cursor, hist, top, mainSplit, mainPc>>
      BY <1>13 DEF WriteFailed
    <3>4. QED
      BY <3>1, <3>2, <3>3 DEF IInv, TypeOK
  <2>2. CursorInv'
    BY <1>13 DEF WriteFailed, PCs, IInv, TypeOK, CursorInv
  <2>3. InFlightAccounting'
    <3> SUFFICES ASSUME NEW t \in Splits PROVE count'[t] = InFlight(t)'
      BY DEF InFlightAccounting
    <3>1. count[t] = InFlight(t)
      BY <1>acc DEF InFlightAccounting
    <3>2. CASE t = s
      <4>1. /\ count'[s] = count[s]
           /\ pendNext'[s] = pendNext[s]
           /\ pendWrite'[s] = pendWrite[s] - 1
           /\ run'[s]["chk"] = run[s]["chk"]
           /\ run'[s]["cnt"] = run[s]["cnt"]
           /\ run'[s]["inc"] = run[s]["inc"]
           /\ run'[s]["dec"] = run[s]["dec"] + 1
           /\ Cardinality(counting'[s]) = Cardinality(counting[s])
        BY <1>13, <1>t1, <1>t5, <1>t6, <1>t7, <1>t8 DEF WriteFailed, PCs
      <4>2. pendNext'[s] + pendWrite'[s] + (run'[s]["chk"] + run'[s]["cnt"] + run'[s]["inc"] + run'[s]["dec"] + Cardinality(counting'[s]))
           = InFlight(s)
        BY <4>1, <1>card, <1>t1, <1>t5, <1>t6, <1>t7, <1>t8 DEF InFlight, Running, PCs
      <4>3. QED
        BY <4>1, <4>2, <3>1, <3>2 DEF InFlight, Running
    <3>3. CASE t # s
      <4>1. /\ count'[t] = count[t] /\ pendNext'[t] = pendNext[t]
            /\ pendWrite'[t] = pendWrite[t] /\ run'[t] = run[t]
            /\ counting'[t] = counting[t]
        BY <1>13, <3>3, <1>t1, <1>t5, <1>t6, <1>t7, <1>t8 DEF WriteFailed, PCs
      <4>2. QED
        BY <4>1, <3>1 DEF InFlight, Running
    <3>4. QED
      BY <3>2, <3>3
  <2>4. ReportInv'
    BY <1>13 DEF WriteFailed, PCs, RecordError, IInv, TypeOK, ReportInv
  <2>5. QED
    BY <2>1, <2>2, <2>3, <2>4 DEF IInv
<1>14. CASE UNCHANGED vars
  BY <1>14 DEF vars, IInv, TypeOK, CursorInv, InFlightAccounting, ReportInv, InFlight, Running
<1>15. QED
  BY <1>1, <1>2, <1>3, <1>4, <1>5, <1>6, <1>7, <1>8, <1>9, <1>10, <1>11, <1>12, <1>13, <1>14 DEF Next, Main, Deliver, Callback

-----------------------------------------------------------------------------
(* The theorems.                                                           *)

\* The strengthened invariant holds in every reachable state.
THEOREM IInvInvariant == Spec => []IInv
BY InitIInv, NextIInv, PTL DEF Spec

(***************************************************************************)
(* Type correctness of the pipeline: split_request_count and every other   *)
(* counter of scan_data_context stay natural numbers, however the          *)
(* callbacks interleave; in particular the "split_request_count--" at the *)
(* end of every callback never takes the counter below zero.               *)
(***************************************************************************)
THEOREM TypeCorrect == Spec => []TypeOK
<1>1. IInv => TypeOK
  BY DEF IInv
<1>2. QED
  BY <1>1, IInvInvariant, PTL

\* A split whose counter reads 0 has no outstanding work.  The terms of the
\* sum are named first: the SMT backend does not relate a sum of function
\* applications and a cardinality to its terms directly.
LEMMA AccountingDrained == IInv => DrainedMeansIdle
<1> SUFFICES ASSUME IInv, NEW s \in Splits, count[s] = 0
             PROVE  /\ pendNext[s] = 0 /\ pendWrite[s] = 0 /\ counting[s] = {}
                    /\ \A p \in PCs : run[s][p] = 0
  BY DEF DrainedMeansIdle
<1>1. IsFiniteSet(counting[s])
  BY CountingFinite DEF IInv
<1>2. PICK k \in Nat : k = Cardinality(counting[s])
  BY <1>1, FS_CardinalityType
<1>3. /\ pendNext[s] \in Nat /\ pendWrite[s] \in Nat
      /\ run[s] \in [PCs -> Nat]
  BY DEF IInv, TypeOK
<1>4. PICK c1, c2, c3, c4, p1, p2 \in Nat :
        /\ c1 = run[s]["chk"] /\ c2 = run[s]["cnt"]
        /\ c3 = run[s]["inc"] /\ c4 = run[s]["dec"]
        /\ p1 = pendNext[s] /\ p2 = pendWrite[s]
  BY <1>3 DEF PCs
<1>5. 0 = p1 + p2 + (c1 + c2 + c3 + c4 + k)
  BY <1>2, <1>4 DEF IInv, InFlightAccounting, InFlight, Running
<1>6. p1 = 0 /\ p2 = 0 /\ c1 = 0 /\ c2 = 0 /\ c3 = 0 /\ c4 = 0 /\ k = 0
  BY <1>5
<1>7. counting[s] = {}
  BY <1>1, <1>2, <1>6, FS_EmptySet
<1>8. \A p \in PCs : run[s][p] = 0
  BY <1>4, <1>6 DEF PCs
<1>9. QED
  BY <1>4, <1>6, <1>7, <1>8

(***************************************************************************)
(* For every number of splits and every max_batch_count: when             *)
(* split_request_count of a split reads 0, no request of the split is      *)
(* outstanding and no callback of it is still running (the caller may    *)
(* destroy the scan_data_context).                                         *)
(***************************************************************************)
THEOREM DrainedIdle == Spec => []DrainedMeansIdle
BY IInvInvariant, AccountingDrained, PTL

(***************************************************************************)
(* For every number of concurrently failing callbacks: the exchange on    *)
(* split_completed lets at most one of them print the split's error.       *)
(***************************************************************************)
THEOREM OneReport == Spec => []AtMostOneReport
<1>1. IInv => AtMostOneReport
  BY DEF IInv, ReportInv, AtMostOneReport
<1>2. QED
  BY <1>1, IInvInvariant, PTL

-----------------------------------------------------------------------------
(* The refinement of ScanSplit.                                            *)

\* The rows of split t applied, being written and being counted were all
\* handed out by its scanner: no row is applied twice.
RowsBound(t) == rows[t] + pendWrite[t] + Cardinality(counting[t]) <= cursor[t]

RowsInv == \A t \in Splits : RowsBound(t)

LEMMA InitRowsInv == Init => RowsInv
BY FS_EmptySet DEF Init, RowsInv, RowsBound

LEMMA NextRowsInv == IInv /\ RowsInv /\ [Next]_vars => RowsInv'
<1> SUFFICES ASSUME IInv, RowsInv, [Next]_vars, NEW t \in Splits
             PROVE  RowsBound(t)'
  BY DEF RowsInv
<1>ty. /\ rows \in [Splits -> Nat] /\ pendWrite \in [Splits -> Nat]
       /\ cursor \in [Splits -> Nat] /\ counting \in [Splits -> SUBSET Nat]
  BY DEF IInv, TypeOK
<1>fin. IsFiniteSet(counting[t])
  BY CountingFinite DEF IInv
<1>k. PICK r, w, c, k \in Nat : /\ r = rows[t] /\ w = pendWrite[t] /\ c = cursor[t]
                               /\ k = Cardinality(counting[t])
  BY <1>ty, <1>fin, FS_CardinalityType
<1>b. r + w + k <= c
  BY <1>k DEF RowsInv, RowsBound
\* A step that leaves split t's four quantities alone keeps its bound.
<1>fr. ASSUME rows'[t] = rows[t], pendWrite'[t] = pendWrite[t],
              counting'[t] = counting[t], cursor'[t] = cursor[t]
       PROVE  RowsBound(t)'
  BY <1>fr DEF RowsInv, RowsBound
<1>1. CASE Main
  BY <1>1, <1>fr DEF Main, MainCheck, MainCount, MainIssue, MainLeave, IssueFetch
<1>2. ASSUME NEW s \in Splits, Callback(s) PROVE RowsBound(t)'
  BY <1>2, <1>fr DEF Callback, CbCheck, CbCount, CbIssue, CbFinish, Move, IssueFetch
<1>3. ASSUME NEW s \in Splits, FetchComplete(s) \/ FetchError(s) PROVE RowsBound(t)'
  BY <1>3, <1>fr DEF FetchComplete, FetchError, RecordError
<1>4. ASSUME NEW s \in Splits, FetchRow(s) PROVE RowsBound(t)'
  <2>1. CASE t # s
    BY <1>4, <2>1, <1>ty, <1>fr DEF FetchRow
  <2>2. CASE t = s
    <3>1. rows'[t] = r /\ cursor'[t] = c + 1
      BY <1>4, <2>2, <1>ty, <1>k DEF FetchRow
    <3>2. CASE Op \in WriteOps
      <4>1. pendWrite'[t] = w + 1 /\ counting'[t] = counting[t]
        BY <1>4, <2>2, <3>2, <1>ty, <1>k DEF FetchRow
      <4>2. QED
        BY <3>1, <4>1, <1>k, <1>b DEF RowsBound
    <3>3. CASE Op \notin WriteOps
      <4>1. pendWrite'[t] = w /\ counting'[t] = counting[t] \cup {c + 1}
        BY <1>4, <2>2, <3>3, <1>ty, <1>k DEF FetchRow
      <4>2. c + 1 \notin counting[t]
        BY <1>k DEF IInv, CursorInv
      <4>3. Cardinality(counting'[t]) = k + 1
        BY <4>1, <4>2, <1>fin, <1>k, FS_AddElement
      <4>4. QED
        BY <3>1, <4>1, <4>3, <1>b DEF RowsBound
    <3>4. QED
      BY <3>2, <3>3
  <2>3. QED
    BY <2>1, <2>2
<1>5. ASSUME NEW s \in Splits, NEW i \in counting[s], CountRow(s, i) PROVE RowsBound(t)'
  <2>1. CASE t # s
    BY <1>5, <2>1, <1>ty, <1>fr DEF CountRow
  <2>2. CASE t = s
    <3>1. /\ rows'[t] = r + 1 /\ cursor'[t] = c /\ pendWrite'[t] = w
          /\ counting'[t] = counting[t] \ {i} /\ i \in counting[t]
      BY <1>5, <2>2, <1>ty, <1>k DEF CountRow
    <3>2. Cardinality(counting'[t]) = k - 1 /\ k > 0
      <4>1. Cardinality(counting[t] \ {i}) = k - 1
        BY <3>1, <1>fin, <1>k, FS_RemoveElement
      <4>2. k # 0
        BY <3>1, <1>fin, <1>k, FS_EmptySet
      <4>3. QED
        BY <3>1, <4>1, <4>2, <1>k
    <3>3. QED
      BY <3>1, <3>2, <1>b DEF RowsBound
  <2>3. QED
    BY <2>1, <2>2
<1>6. ASSUME NEW s \in Splits, WriteDone(s) \/ WriteFailed(s) PROVE RowsBound(t)'
  <2>1. CASE t # s
    BY <1>6, <2>1, <1>ty, <1>fr DEF WriteDone, WriteFailed, RecordError
  <2>2. CASE t = s
    <3>1. /\ w > 0 /\ pendWrite'[t] = w - 1 /\ rows'[t] \in {r, r + 1}
          /\ cursor'[t] = c /\ counting'[t] = counting[t]
      BY <1>6, <2>2, <1>ty, <1>k DEF WriteDone, WriteFailed, RecordError
    <3>2. QED
      BY <3>1, <1>k, <1>b DEF RowsBound
  <2>3. QED
    BY <2>1, <2>2
<1>7. CASE UNCHANGED vars
  BY <1>7, <1>fr DEF vars
<1>8. QED
  BY <1>1, <1>2, <1>3, <1>4, <1>5, <1>6, <1>7 DEF Next, Deliver

\* The initial state is the abstract initial state.
LEMMA InitRefines == Init => Abstract!Init
BY DEF Init, Abstract!Init

\* Every step of the pipeline is a step of ScanSplit or leaves split_rows,
\* split_completed and error_occurred alone.
LEMMA NextRefines == IInv /\ RowsInv /\ [Next]_vars => [Abstract!Next]_Abstract!absVars
<1> SUFFICES ASSUME IInv, RowsInv, [Next]_vars
             PROVE  [Abstract!Next]_Abstract!absVars
  OBVIOUS
<1>ty. /\ rows \in [Splits -> Nat] /\ pendWrite \in [Splits -> Nat]
       /\ cursor \in [Splits -> Nat] /\ counting \in [Splits -> SUBSET Nat]
       /\ completed \in [Splits -> BOOLEAN]
  BY DEF IInv, TypeOK
\* A row still being written or counted is not yet applied: split_rows is
\* below the number of rows of its split.
<1>room. ASSUME NEW s \in Splits, pendWrite[s] > 0 \/ counting[s] # {}
         PROVE  rows[s] < NRows(s)
  <2>1. IsFiniteSet(counting[s])
    BY CountingFinite DEF IInv
  <2>2. PICK r, w, c, k, n \in Nat :
            /\ r = rows[s] /\ w = pendWrite[s] /\ c = cursor[s] /\ n = NRows(s)
            /\ k = Cardinality(counting[s])
    BY <1>ty, <2>1, FS_CardinalityType, NRowsNat
  <2>3. r + w + k <= c /\ c <= n
    BY <2>2 DEF RowsInv, RowsBound, IInv, CursorInv
  <2>4. w > 0 \/ k > 0
    BY <1>room, <2>1, <2>2, FS_EmptySet
  <2>5. QED
    BY <2>2, <2>3, <2>4
\* RecordError is the first failure of its split, or changes nothing.
<1>err. ASSUME NEW s \in Splits, RecordError(s), UNCHANGED rows
        PROVE  [Abstract!Next]_Abstract!absVars
  <2>1. CASE ~completed[s]
    BY <1>err, <2>1 DEF RecordError, Abstract!Next, Abstract!Fail
  <2>2. CASE completed[s]
    <3>1. completed' = completed
      BY <1>err, <2>2, <1>ty DEF RecordError
    <3>2. QED
      BY <1>err, <2>2, <3>1 DEF RecordError, Abstract!absVars
  <2>3. QED
    BY <2>1, <2>2
<1>1. CASE Main
  BY <1>1 DEF Main, MainCheck, MainCount, MainIssue, MainLeave, IssueFetch, Abstract!absVars
<1>2. ASSUME NEW s \in Splits, Callback(s) PROVE [Abstract!Next]_Abstract!absVars
  BY <1>2 DEF Callback, CbCheck, CbCount, CbIssue, CbFinish, Move, IssueFetch, Abstract!absVars
<1>3. ASSUME NEW s \in Splits, FetchRow(s) PROVE [Abstract!Next]_Abstract!absVars
  BY <1>3 DEF FetchRow, Abstract!absVars
<1>4. ASSUME NEW s \in Splits, FetchComplete(s) PROVE [Abstract!Next]_Abstract!absVars
  <2>1. CASE ~completed[s]
    BY <1>4, <2>1 DEF FetchComplete, Abstract!Next, Abstract!End
  <2>2. CASE completed[s]
    <3>1. completed' = completed
      BY <1>4, <2>2, <1>ty DEF FetchComplete
    <3>2. QED
      BY <1>4, <3>1 DEF FetchComplete, Abstract!absVars
  <2>3. QED
    BY <2>1, <2>2
<1>5. ASSUME NEW s \in Splits, FetchError(s) \/ WriteFailed(s) PROVE [Abstract!Next]_Abstract!absVars
  BY <1>5, <1>err DEF FetchError, WriteFailed
<1>6. ASSUME NEW s \in Splits, NEW i \in counting[s], CountRow(s, i) PROVE [Abstract!Next]_Abstract!absVars
  <2>1. rows[s] < NRows(s)
    BY <1>room
  <2>2. Abstract!Apply(s)
    BY <1>6, <2>1 DEF CountRow, Abstract!Apply
  <2>3. QED
    BY <2>2 DEF Abstract!Next
<1>7. ASSUME NEW s \in Splits, WriteDone(s) PROVE [Abstract!Next]_Abstract!absVars
  <2>1. rows[s] < NRows(s)
    BY <1>7, <1>room DEF WriteDone
  <2>2. Abstract!Apply(s)
    BY <1>7, <2>1 DEF WriteDone, Abstract!Apply
  <2>3. QED
    BY <2>2 DEF Abstract!Next
<1>8. CASE UNCHANGED vars
  BY <1>8 DEF vars, Abstract!absVars
<1>9. QED
  BY <1>1, <1>2, <1>3, <1>4, <1>5, <1>6, <1>7, <1>8 DEF Next, Deliver

(***************************************************************************)
(* The scan pipeline implements ScanSplit for every number of splits,      *)
(* budget, operation and scanner content: however the callbacks of         *)
(* scan_data_next interleave, no row is applied twice (split_rows never    *)
(* exceeds the rows the scanner handed out), a split ends once, and        *)
(* error_occurred is raised only by a split's first failure.               *)
(***************************************************************************)
THEOREM Refinement == Spec => ImplementsScanSplit
<1>1. Spec => [](IInv /\ RowsInv)
  BY InitIInv, InitRowsInv, NextIInv, NextRowsInv, PTL DEF Spec
<1>2. QED
  BY <1>1, InitRefines, NextRefines, PTL DEF Spec, ImplementsScanSplit, Abstract!Spec

=============================================================================
