---------------------------- MODULE TopContainer ----------------------------
(***************************************************************************)
(* class top_container (src/src/shell/command_helper.h): the collector of  *)
(* the largest rows of a count-mode scan.  Its state is the content of a   *)
(* std::priority_queue; a row is identified by its index and the heap is   *)
(* the set of row indices it holds.  push runs under _lock, so it is one   *)
(* atomic step of whoever calls it; here it is a pure operator returning   *)
(* the set of heaps the call may produce.                                  *)
(***************************************************************************)
EXTENDS Naturals, FiniteSets

(***************************************************************************)
(* _heap.top(): top_heap_compare orders items by "i1.row_size <           *)
(* i2.row_size", which makes std::priority_queue a max-heap, so top() is   *)
(* an item of the largest size.  Which of several equal-sized items is on  *)
(* top is unspecified, hence a set.                                        *)
(***************************************************************************)
HeapTop(heap, size) == {m \in heap : \A j \in heap : size[j] <= size[m]}

(***************************************************************************)
(* Mutant of push: "_heap.size() <= _count" instead of "<", an off-by-one  *)
(* that lets the heap hold count + 1 rows.                                 *)
(***************************************************************************)
PushOffByOne(heap, i, size, count) ==
    IF Cardinality(heap) <= count
    THEN {heap \cup {i}}
    ELSE {IF size[m] < size[i] THEN (heap \ {m}) \cup {i} ELSE heap :
              m \in HeapTop(heap, size)}

(***************************************************************************)
(* push(hash_key, sort_key, row_size): below capacity the row is added;    *)
(* otherwise the top item is popped and the row added when the top is      *)
(* strictly smaller than the row.                                          *)
(***************************************************************************)
Push(heap, i, size, count) ==
    IF Cardinality(heap) < count
    THEN {heap \cup {i}}
    ELSE {IF size[m] < size[i] THEN (heap \ {m}) \cup {i} ELSE heap :
              m \in HeapTop(heap, size)}

=============================================================================
