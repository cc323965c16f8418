# Verification of `src/src/shell/command_helper.h`

This directory models the concurrent and the stateful parts of the Pegasus
shell helpers in TLA+. TLC checks the models on small instances, and TLAPS
proves the safety invariants of the scan pipeline and of `get_app_stat` for
every value of the constants. `PROJECT.json` lists the components, the runs, the mutants, the map
from every definition to the source lines it models, the findings, the
hazards and the theorems.

## The system

`command_helper.h` holds three pieces of machinery used by shell commands:

* **The scan pipeline** (`scan_data_context`, `scan_data_next`, lines 98-282).
  A job, such as `copy_data`, `clear_data`, `count_data` or `gen_geo`, splits a
  table into splits and gives each one a `scan_data_context`. The command's
  main thread calls `scan_data_next` on each split in turn. That function
  issues `async_next` calls while the split is neither completed nor failed
  and `split_request_count < max_batch_count`. The callback of each call runs
  on the client's thread pool:
  * A row of a copy, clear or geo job takes a second slot and issues the write
    (`async_set` / `async_del`).
  * The write's callback counts the row and calls `scan_data_next` again.
  * A row of a count job is counted in place. Its sizes go into the
    histograms and, with `top_count > 0`, into `top_container`, the
    lock-protected bounded heap of the largest rows.
  * `PERR_SCAN_COMPLETE` sets `split_completed`.
  * An error reports once per split, through `split_completed.exchange(true)`,
    and sets the `error_occurred` flag that the splits of the job share.

  Every callback ends with `split_request_count--`. The caller waits for every
  split's count to reach 0.
* **The app-stat aggregation** (`fill_nodes`, `call_remote_command`,
  `get_app_stat`, lines 291-591):
  1. List the available apps and, when an app is named, look it up.
  2. List the alive replica servers.
  3. Send one `perf-counters` command to every server, all in flight at once,
     each with a 5000 ms timeout, and wait for all of them.
  4. Read the partition configurations with `list_app`.
  5. Add each counter into the row of its app, or of its partition when an app
     is named. A counter counts only if the reporting node is the primary of
     its partition. Its name is parsed by
     `parse_app_pegasus_perf_counter_name` (lines 343-359) and its column is
     chosen by `update_app_pegasus_perf_counter`.
* **`table_printer`** (lines 593-663), which lays out the rows for the terminal.

## Modules

| module | models | state and actions |
|---|---|---|
| `TopContainer` | `top_container` (54-96) | The heap is the set of row indices it holds. `HeapTop` is `_heap.top()` under `top_heap_compare`. `Push` returns the set of heaps one `push` can leave, since ties make `top()` a choice. |
| `ScanJob` | `scan_data_context`, `scan_data_next` and its callbacks | See below. |
| `ScanSplit` | what a scan job promises, per split | `done[s]` rows applied out of `Total[s]`, `completed[s]`, the job's `failed` flag. `Apply`, `End` and `Fail` are the only steps. |
| `ScanJobProofs` | proofs about `ScanJob` | Inductive invariant, type correctness, `DrainedMeansIdle`, `AtMostOneReport`, and the refinement of `ScanSplit`. |
| `ScanJobCountProofs` | proofs about `ScanJob` | `RowConservation` and `StatsComplete` under their hypotheses, with `PushKeepsLargest` about `top_container::push`. |
| `MCScanJob` | TLC instances of `ScanJob` | The rows of each split and the failing calls. |
| `AppStat` | `fill_nodes`, `call_remote_command`, `get_app_stat` | See below. |
| `AppStatProofs` | proofs about `AppStat` | Inductive invariant, type correctness, `NoDoubleCount`. |
| `AppStatCountProofs` | proofs about `AppStat` | `CountedOnce`. |
| `MCAppStat` | TLC instance of `AppStat` | Three nodes and two apps, with three partitions and two replicas each. |
| `CounterName` | `parse_app_pegasus_perf_counter_name` | A pure operator over character sequences, and a reference definition of the naming scheme (`SchemeParse`). |
| `MCCounterName` | one call of the parser on a name from a set | Compares the parser with the reference. |
| `CounterNameProofs` | proofs about `CounterName` | `ParseMatchesScheme` for names of every length. |

**ScanJob.** The variables are the fields of every context:

* `count` is `split_request_count`, `rows` is `split_rows` and `completed` is
  `split_completed`; `errorOccurred` is `*error_occurred`.
* `hist` is the histograms, a bag of sizes, and `top` is `top_rows`.
* Requests in flight: `pendNext` counts the `async_next` calls and `pendWrite`
  the write calls.
* `run[s][pc]` counts the callbacks of split `s` at each program point.
* `counting[s]` holds the rows a count callback has received but not yet
  counted.
* `cursor` is the position of the scanner.
* `reports` is the number of error messages printed.
* `mainSplit` and `mainPc` are the main thread's place in its loop.

Threads are anonymous counts. The loop condition at line 156-157 is two steps:
the flag loads (`CbCheck`/`MainCheck`) and the count load
(`CbCount`/`MainCount`). Both flags only go from false to true, so merging
their two loads loses no interleaving. The increment and `async_next` are one
step (`CbIssue`/`MainIssue`), and the final decrement is `CbFinish`. The
completions are these actions:

| action | callback | lines |
|---|---|---|
| `FetchRow` | a row arrives | 164-192 |
| `FetchComplete` | `PERR_SCAN_COMPLETE` | 266-267 |
| `FetchError` | an `async_next` error | 268-276 |
| `CountRow` | the count branch | 215-236 |
| `WriteDone` | a write succeeds | 181-187 |
| `WriteFailed` | a write fails | 172-180 |

The error branch, `RecordError`, is the `exchange` plus the `store` of the
error flag. `MainLeave` moves the main thread to the next split. Every
asynchronous call may fail when `CanFail` allows it. Since each carries
`timeout_ms`, a timeout is one of the failures.

**AppStat.** The variables:

* `pc` is the place in `get_app_stat`.
* `results` holds the slots that `call_remote_command` fills: none, pending,
  ok with counters, or failed.
* `owner` holds the primaries that `list_app` returned.
* `rows`, `idx` (the merge loop), `used` (the counters added) and `aborted`
  (whether an error path returned).
* `primary`, the cluster's current primaries.

The actions follow the code in order: `ListApps`, `FillNodes`, `CallRemote`,
`Reply(n)` (one callback per node), `Join`, `ListApp` and `Merge` (one loop
iteration per node). Every error path returns true (`Abort`). The cluster moves
a primary at any time (`MovePrimary`, at most `MaxMoves` times).

A reply's content is `Report(n)`: every counter of every replica that `n`
serves, of the apps that the command's regex lets through. It is written from
the specification, because the server side is not in this file.

A reply that does not decode, or whose `result` is not `"OK"`, takes the same
return path as a failed call and is folded into "failed". Every counter's value
is 1, so a row's entry counts the counters added into it. `Columns` are the
reported metric names that `update_app_pegasus_perf_counter` recognises.

**ScanSplit and the refinement.** `ScanSplit` states what a scan job promises
of its splits, with no threads, requests or budget. Each split applies its
operation to the rows its scanner produces, one row at a time and at most
`Total[s]` of them, and ends exactly once. It ends either at the end of its
data (`End`) or on its first failure (`Fail`), which also fails the job.
Rows already under way may still be applied after their split has ended,
because nothing cancels a call already issued.

`ScanJob` implements it through
`Abstract == INSTANCE ScanSplit WITH done <- rows, failed <- errorOccurred, Total <- [s \in Splits |-> NRows(s)]`,
with `completed` mapped to `split_completed` by name.

* A `WriteDone` or a `CountRow` is an `Apply` step.
* The store of `split_completed` on `PERR_SCAN_COMPLETE` is an `End` step.
* The exchange that wins in `RecordError` is a `Fail` step.
* Every other step (the refill loop, the issues, the decrements, a losing
  exchange) stutters.

The property `ImplementsScanSplit == Abstract!Spec` is checked on both passing
scan runs. It rules out a row applied twice, a split that ends twice and an
error flag raised by anything but a split's first failure.

## Runs

Constants and bounds are in the `.cfg` files. Every run sets
`CHECK_DEADLOCK FALSE`, because the modelled command ends: the scan job once
every split has drained, `get_app_stat` once it returns, and the parser after
its one call.

| run | expect | checks | shows |
|---|---|---|---|
| `ScanJob_copy` | pass | `TypeOK`, `DrainedMeansIdle`, `AtMostOneReport`, `Drains`, `ImplementsScanSplit` | Two copy splits of two rows each, budget 2, failing scanners and writes. A drained split has no work left, so the caller may free the contexts. Concurrent failures print one message per split. Every split drains under fairness. The job implements `ScanSplit`. |
| `ScanJob_count_stats` | pass | `RowConservation`, `StatsComplete`, `ImplementsScanSplit` | A count scan with rows of sizes 2, 1, 2, 1 (ties), top-2 and a failing scanner. On success every row was counted and is in the histogram once, and the heap holds two rows, one of them a largest. No row is counted twice (`ScanSplit`). |
| `ScanJob_lost_write` | violation | `RowConservation` | A write error after `SCAN_COMPLETE` is swallowed (line 174). |
| `ScanJob_stall` | violation | `NoStall` | A split drains before it completes: a write callback holds two slots when it refills (line 157). |
| `ScanJob_budget` | violation | `InFlightWithinBudget` | `split_request_count` exceeds `max_batch_count` (line 167). |
| `ScanJob_topk` | violation | `TopKLargest` | With rows 1, 2, 3 and top-2, the heap keeps row 1 and drops row 2 (comparator, line 69). |
| `AppStat_merge` | pass | `TypeOK`, `CountedOnce`, `NoDoubleCount`, `Terminates` | Both modes, an unknown app, every call failing or not, one primary move. A completed merge counts each partition exactly once. In every state, even one reached through a move, no counter of a partition is merged twice. The command always ends. |
| `AppStat_stale` | violation | `PrimaryReportsOnly` | A primary move between a reply and `list_app` makes the merge keep a secondary's counters (line 480). |
| `AppStat_partial` | violation | `TrueMeansComplete` | One failed reply makes `get_app_stat` return true with partial rows (line 506). |
| `CounterName_scheme` | pass | `ParseMatchesScheme` | On every name of up to 6 characters over `* @ . - 3 a`, every well-formed name parses as the scheme says. |
| `CounterName_malformed` | violation | `ParseRejectsMalformed` | `@3.3*` is accepted with an empty counter name (line 357). |
| `CounterName_example` | violation | `SpecExampleParses` | `*get_qps*rdb@7.3` parses to counter `rdb` (line 354). |

The bounds are enough to reach the interesting cases:

* **Scan pipeline.** A budget of 2 with two rows per split lets a fetch
  callback, a write callback and the main thread all compete for the budget.
  Two splits let one split's failure set the flag that stops the other.
  The `SCAN_COMPLETE` answer can race the write of the last row.
* **Aggregation.** Three nodes with two replicas per partition give every
  partition a secondary that could be miscounted. One move is enough for a
  stale configuration.
* **Parser.** The alphabet has every delimiter, a sign, a digit and a letter,
  so every order of the delimiters up to length 6 is tried.

A mutant for each property of each passing run (`PROJECT.json`, "mutants")
breaks it by a plausible bug in the mapped code:

* `ScanJob`: a decrement with no slot held, a write issued without its slot,
  a report not guarded by the exchange, a callback that returns before its
  decrement, a forgotten error flag, a missing `break` after `SCAN_COPY` (two
  writes for one row) and a count callback that keeps its row to count again;
* `TopContainer`: an off-by-one in `push`;
* `AppStat`: a result vector one short, a merge loop that does not stop, the
  primary filter dropped, and a filter against the cluster's live primaries
  instead of the table `list_app` returned;
* `CounterName`: a counter name one character too long.

## Fairness

* **ScanJob.** Weak fairness of the main thread and, for every split, of the
  delivery of an answer and of a step of a running callback. The thread pool
  runs every callback that is ready. Every request carries `timeout_ms`, so its
  callback is called, with an error if no answer comes.
* **AppStat.** Weak fairness of the command's own steps and of each node's
  reply. `cli.call` has a 5000 ms timeout, so `tasks[i]->wait()` returns.
  Primary moves are not fair: the cluster need not move anything.

## What is proved

`ScanJobProofs` proves the following theorems with TLAPS. They hold for every
number of splits, every `max_batch_count`, every operation, every content of
the scanners and every set of failing calls, under `ConstantsAssumption`:

* `IInvInvariant`: `Spec => []IInv`.
* `TypeCorrect`: `Spec => []TypeOK`.
* `DrainedIdle`: `Spec => []DrainedMeansIdle`. It is proved from
  `IInv => DrainedMeansIdle`, because `count[s]` is a sum of natural numbers.
* `OneReport`: `Spec => []AtMostOneReport`.

`IInv` is `TypeOK /\ CursorInv /\ InFlightAccounting /\ ReportInv`. `TypeOK`
alone is not inductive, because `CbFinish` decrements `split_request_count`.
Only `InFlightAccounting` shows that the counter is positive there:
`count[s]` equals the outstanding requests plus the running callbacks of
split `s`, and `CbFinish` needs a callback at `dec`. That accounting is the
reason for the code's comment "should put `split_request_count--` at end of the
scope".

The accounting needs the rows being counted to be a finite set
(`CursorInv`, so that `Cardinality` behaves). `AtMostOneReport` needs
"a split that printed is completed" (`ReportInv`), so that a second failure
finds the exchange already set.

* `Refinement`: `Spec => ImplementsScanSplit`. `InitRefines` maps the initial
  states. `NextRefines` shows every step of `Next` to be a step of
  `Abstract!Next` or a stutter. It uses `IInv` and one more invariant,
  `RowsInv`: `rows[s] + pendWrite[s] + Cardinality(counting[s]) <= cursor[s]`,
  which is at most `NRows(s)`. So when a write completes or a row is counted,
  `rows[s] < NRows(s)`, which is the guard of `Apply`. A `RecordError` whose
  exchange finds `split_completed` false is the `Fail` step, and one that
  finds it true stutters.

`AppStatProofs` proves, for every cluster (nodes, apps, partition counts,
replica sets), every set of failing calls and every bound on primary moves,
under `AppStatAssumption`:

* `IInvInvariant`: `Spec => []IInv`.
* `TypeCorrect`: `Spec => []TypeOK`.
* `NoDouble`: `Spec => []NoDoubleCount`.

There `IInv` is `TypeOK /\ PrimaryShape /\ ResultsInv /\ UsedInv`.

* `PrimaryShape` says that `primary` is a table of tables, so that
  `MovePrimary`'s `EXCEPT` keeps the type.
* `ResultsInv` says that a node's reply holds only its own counters, one per
  partition and name. `ReportWellFormed` proves this of `Report(n)`.
* `UsedInv` says that nothing is merged before the merge loop, and that a
  merged counter is in the completed reply of the node `list_app` named its
  partition's owner.

Two merged counters of the same partition and name therefore come from the
same reply and are equal (`IInvNoDouble`). A `Reply` never overwrites a merged
reply, because merged replies are complete and a reply only fills a pending
slot.

`NextIInv` (in both modules) has one step per action, and under it one step
per conjunct the action can change. In the arithmetic steps, the terms of a sum are named with
`PICK` before the sum is rewritten.

`ScanJobCountProofs` proves the two end-of-job properties of the scan
pipeline:

* `RowsConserved`: `ASSUME NoLostWrite PROVE Spec => []RowConservation`.
  `NoLostWrite` says the operation writes nothing, or no write can fail. The
  hypothesis is needed. The `ScanJob_lost_write` run shows `RowConservation`
  failing by a write that fails after its split completed: the row is
  neither in `rows` nor in flight.
* `StatsCorrect`: `ASSUME CountStats PROVE Spec => []StatsComplete`.
  `CountStats` says the job is a `SCAN_COUNT` with `stat_size`. Only then does
  the code fill the histograms and `top_rows`, so only then does
  `StatsComplete` say anything.

Both rest on three more invariants, all checked with TLC on the `ScanJob` instances
before being proved:

* `WriteFree`: an operation that writes nothing has no write in flight.
* `EndInv`: a split completed without error has fetched every row.
* `RowsExact`: `rows[s] + pendWrite[s] + Cardinality(counting[s]) = cursor[s]`.
  This is the equality form of `RowsInv`, and it holds only when no write is
  lost.

At the end, `counting[s]` is empty and `cursor[s] = NRows(s)`, so `rows[s] = NRows(s)`.

For the statistics, `Counted(s)` is the set of rows of split `s` already
counted: fetched and not in a running callback.

* `HistInv` says `hist[s]` is the bag of the sizes of `Counted(s)`.
* `TopInv` says `top[s]` is a subset of `Counted(s)` of
  `min(TopCount, rows[s])` rows, holding a largest of them.

`TopInv` is kept by `CountRow` through the lemma `PushKeepsLargest`:
`top_container::push` never loses a largest row, because it pops the top of
the heap only for a strictly larger row. That lemma is stated as
`\A C, heap, i, size, k, n : PushSpec(...)`, because tlapm 1.4.5 does not
instantiate an `ASSUME NEW ...` lemma at terms such as `top[s]`.

`AppStatCountProofs` proves:

* `CountedExactlyOnce`: `Spec => []CountedOnce`, for every cluster, every set
  of failing calls and every number of primary moves, under
  `AppStatAssumption` (no finiteness of `Apps` is assumed).

Its inductive invariant `CInv` is `IInv /\ PhaseInv /\ ReplyInv /\ MergeInv`:

* `PhaseInv`: only a step to `"done"` sets `aborted`; `idx` is 1 before the
  merge loop; an app named past `list_apps` exists.
* `ReplyInv`: a complete reply holds a counter of every name for every
  partition of a queried app its node serves, and only counters of queried
  apps.
* `MergeInv`: along the merge loop, no reply is pending; every node before
  `idx` had a complete reply and its kept counters are in `used`; no counter
  of a later node is; the owners `list_app` returned are replicas. Above all,
  `rows[k][m]` is the number of merged counters of row `k` and name `m`
  (`UsedAt(k, m)`).

The `Merge` step keeps the last conjunct because the counters it adds come
from node `idx`, and every counter in `used` comes from a node before it. So
the two sets are disjoint, and `FS_Union` adds their cardinalities.
Finiteness comes from `InjectRows`: a set of counters of one row, with
one counter per partition, maps one-to-one into the row's partitions `Sel(k)`,
and `SelFinite` shows `Sel(k)` finite (one app's partitions).

At completion (`CInvCounted`), `c |-> <<c.app, c.part>>` is also onto
`Sel(k)`. For a partition `r`, its owner is one of its replicas. That node's
reply was complete and so holds `r`'s counter of name `m`. The counter
passes the owner filter, so the loop merged it. `FS_Injection` then gives
`Cardinality(UsedAt(k, m)) = Cardinality(Sel(k))`.

`CounterNameProofs` proves, under `NamesAssumption` (counter names are
sequences of characters, as `std::string` values are):

* `ParseCorrect`: `Spec => []ParseMatchesScheme`, for names of every length.
  TLC checks the same property on names of up to six characters.

The model's invariant `PInv` says the name stays in `Names` and, after the
call, `result = ParseCounterName(name)`. What matters is the lemma
`ParseOfScheme`: on a name with a split `q` of the scheme, the parser
returns that split's fields. The argument follows the code:

* `FindLast`: the scheme's `@` is the last `@`, and its `*` the last `*`,
  because the scheme admits neither character after the `*` except that `@`.
  So both `find_last_of` calls land on them.
* `ScanIntLiteral`: the part after the `@` is `t`. A `%d` started on an
  integer literal that ends before a non-digit reads exactly that literal,
  sign included, and stops after it. The first literal ends at the `.`,
  which is not a digit. The second ends at the end of `t` or before a
  non-digit.
* `substr(find2 + 1, find - find2 - 1)` has a count of at least 0, so it
  takes the metric.

The pieces of `t` are the pieces of the name shifted by the `@`'s position.
This is shown elementwise (`SubSeqFacts`, `SeqExt` from `SequenceTheorems`).
The value of a digit run is never computed: the parser and the reference
apply `DecimalValue` to the same sequence, so no induction over digits is
needed. To make the proof possible, `CounterName` does not extend
`SequencesExt`, which reaches recursive operators. It writes `DecimalValue`
as a recursive function in a `LET`, with the same value.

The lemmas are stated as `\A ... : XSpec(...)` with an operator
`XSpec(...) == hypotheses => conclusion`, so that they apply to compound
terms such as `SubSeq(t, k, e)`.

**TLC only.** These stay with TLC:

* the liveness properties `Drains` and `Terminates`, which TLAPS cannot check
  (they need fairness and `ENABLED`);
* that `DecimalValue` is the decimal value of its digits: that needs
  induction over the digit sequence. No property depends on it;
* the properties of the `violation` runs, which TLC refutes.

## Not modelled

* **`table_printer`.** It only pads and joins strings, and the specification
  leaves formatting out. Its one hazard is that
  `append_data` indexes `max_col_width` unchecked (line 653) when a row has
  more cells than columns.
* **`update_atomic_max`.** Nothing in this file calls it.
* **The meta-server branch of `fill_nodes`.** `get_app_stat` never takes it.
* **Sizes and percentiles.** The histograms' percentiles and the key and value
  sizes beyond one size per row.
* **Partition splits.** A partition count that changes between the replies and
  `list_app` would make line 531 read out of range.
* **Apps recreated during the command.** The model's apps and partition
  counts are fixed. An app dropped and recreated between `list_apps` and
  `list_app` would fail the `dassert`s at lines 486 and 550, which abort the
  shell.
* **`dassert(parse_ret)` (line 527).** The model's replies hold only names of
  the counters the replica servers register (the server is not in `src/`),
  so the assertion always holds in the model. Which names the parser accepts
  is what `CounterName` checks.

## Plan for later sittings

* A `TablePrinter` module for the column-index hazard (it needs a run, and
  the project is at its number of runs).
* A refinement of `TopContainer` by an abstract bounded multiset.
* A partition count that can change, for the out-of-range read at line 531.
