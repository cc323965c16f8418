------------------------------ MODULE AppStat -------------------------------
(***************************************************************************)
(* get_app_stat of src/src/shell/command_helper.h with the helpers it      *)
(* calls: fill_nodes, call_remote_command (one "perf-counters" RPC per     *)
(* replica server, all in flight at once, then a join) and the merge of    *)
(* the replies into one row per app (no app named) or per partition (one *)
(* app named), keeping a counter only if its reporter is the partition's   *)
(* primary in the ownership table read after the replies.                  *)
(*                                                                         *)
(* A counter name reaches the merge already parsed (module CounterName     *)
(* models the parser); a counter's value is 1, so a row's entry counts the *)
(* counters added to it.  The cluster moves primaries among a partition's  *)
(* replicas at any time (MovePrimary).                                     *)
(***************************************************************************)
EXTENDS Naturals, FiniteSets

CONSTANTS
    NNodes,      \* replica servers list_nodes returns, 1 .. NNodes in its order
    Apps,        \* ids of the available apps
    NPart,       \* NPart[a]: partition count of app a
    Replicas,    \* Replicas[a][p]: the nodes serving partition p of app a
    Primary0,    \* Primary0[a][p]: its primary when the command starts
    Targets,     \* app requested: 0 for none (app_name empty), else an app id
    Metrics,     \* names of the counters each replica reports
    Fail,        \* calls that may fail: "list_apps", "list_nodes", "list_app", "reply"
    MaxMoves     \* bound on primary moves during one command

Nodes == 1 .. NNodes
Parts(a) == 0 .. NPart[a] - 1
Replica == UNION {{<<a, p>> : p \in Parts(a)} : a \in Apps}

\* The counter names update_app_pegasus_perf_counter adds into a row.
KnownMetrics ==
    {"get_qps", "multi_get_qps", "put_qps", "multi_put_qps", "remove_qps",
     "multi_remove_qps", "incr_qps", "check_and_set_qps", "check_and_mutate_qps",
     "scan_qps", "recent.expire.count", "recent.filter.count",
     "recent.abnormal.count", "disk.storage.sst(MB)", "disk.storage.sst.count",
     "rdb.block_cache.hit_count", "rdb.block_cache.total_count",
     "rdb.block_cache.memory_usage", "rdb.index_and_filter_blocks.memory_usage",
     "rdb.memtable.memory_usage"}

Columns == Metrics \cap KnownMetrics

ASSUME AppStatAssumption ==
    /\ NNodes \in Nat \ {0}
    /\ Apps \subseteq Nat \ {0}
    /\ NPart \in [Apps -> Nat \ {0}]
    /\ \A a \in Apps : \A p \in Parts(a) : Replicas[a][p] \subseteq Nodes
    /\ \A a \in Apps : \A p \in Parts(a) : Primary0[a][p] \in Replicas[a][p]
    /\ Targets \subseteq Nat
    /\ Fail \subseteq {"list_apps", "list_nodes", "list_app", "reply"}
    /\ MaxMoves \in Nat

\* A reported counter; "primary" records (for the properties only) whether
\* its reporter was the partition's primary when it answered.
Counter == [node : Nodes, app : Apps, part : Nat, metric : Metrics, primary : BOOLEAN]

VARIABLES
    target,    \* the app requested (0: all apps)
    pc,        \* where get_app_stat is
    primary,   \* the cluster's current primary of every partition
    moves,     \* primary moves so far
    results,   \* results[i] of call_remote_command and its state
    owner,     \* the partition configurations list_app returned
    rows,      \* the output rows
    idx,       \* the node whose reply the merge loop is at
    used,      \* the counters added into rows
    aborted    \* get_app_stat left through an error path

vars == <<target, pc, primary, moves, results, owner, rows, idx, used, aborted>>

\* The keys of the output rows: app ids, or the partitions of the app named.
RowKeys == IF target = 0 THEN Apps ELSE Parts(target)
RowOf(c) == IF target = 0 THEN c.app ELSE c.part

\* The apps the argument regex ".*@<app_id>\..*" of the command lets through.
Queried == IF target = 0 THEN Apps ELSE {target}

Init ==
    /\ target \in Targets
    /\ pc = "list_apps"
    /\ primary = [a \in Apps |-> [p \in Parts(a) |-> Primary0[a][p]]]
    /\ moves = 0
    /\ results = [i \in Nodes |-> [st |-> "none", counters |-> {}]]
    /\ owner = [a \in Apps |-> [p \in Parts(a) |-> 0]]
    /\ rows = [k \in {} |-> 0]
    /\ idx = 1
    /\ used = {}
    /\ aborted = FALSE

\* Every error path of get_app_stat logs and returns true.
Abort ==
    /\ pc' = "done"
    /\ aborted' = TRUE

-----------------------------------------------------------------------------
\* list_apps, and the lookup of app_name among the apps.
ListApps ==
    /\ pc = "list_apps"
    /\ \/ /\ "list_apps" \in Fail
          /\ Abort
       \/ /\ target # 0 /\ target \notin Apps
          /\ Abort
       \/ /\ target = 0 \/ target \in Apps
          /\ pc' = "fill_nodes"
          /\ UNCHANGED aborted
    /\ UNCHANGED <<target, primary, moves, results, owner, rows, idx, used>>

\* fill_nodes(sc, "replica-server", nodes): list_nodes of the alive nodes.
FillNodes ==
    /\ pc = "fill_nodes"
    /\ \/ /\ "list_nodes" \in Fail
          /\ Abort
       \/ /\ pc' = "call"
          /\ UNCHANGED aborted
    /\ UNCHANGED <<target, primary, moves, results, owner, rows, idx, used>>

\* Mutant of CallRemote: "results.resize(nodes.size() - 1)".
CallRemoteShort ==
    /\ pc = "call"
    /\ results' = [i \in 1 .. NNodes - 1 |-> [st |-> "pending", counters |-> {}]]
    /\ pc' = "wait"
    /\ UNCHANGED <<target, primary, moves, owner, rows, idx, used, aborted>>

\* The first loop of call_remote_command: one cli.call per node.
CallRemote ==
    /\ pc = "call"
    /\ results' = [i \in Nodes |-> [st |-> "pending", counters |-> {}]]
    /\ pc' = "wait"
    /\ UNCHANGED <<target, primary, moves, owner, rows, idx, used, aborted>>

\* The counters node n reports: every counter of every replica it serves
\* of the apps the command's regex lets through.
Report(n) ==
    {[node |-> n, app |-> r[1], part |-> r[2], metric |-> m,
      primary |-> primary[r[1]][r[2]] = n] :
        r \in {q \in Replica : q[1] \in Queried /\ n \in Replicas[q[1]][q[2]]},
        m \in Metrics}

(***************************************************************************)
(* The callback of node n's call: results[i] = (true, reply) on ERR_OK,    *)
(* else (false, error), a timeout after 5000 ms included.  A reply that    *)
(* does not decode, or whose result is not "OK", fails at the merge as an *)
(* error does, and is folded into "failed".                                *)
(***************************************************************************)
Reply(n) ==
    /\ results[n].st = "pending"
    /\ \/ results' = [results EXCEPT ![n] = [st |-> "ok", counters |-> Report(n)]]
       \/ /\ "reply" \in Fail
          /\ results' = [results EXCEPT ![n] = [st |-> "failed", counters |-> {}]]
    /\ UNCHANGED <<target, pc, primary, moves, owner, rows, idx, used, aborted>>

\* The second loop of call_remote_command: tasks[i]->wait() for every i.
Join ==
    /\ pc = "wait"
    /\ \A i \in Nodes : results[i].st # "pending"
    /\ pc' = "list_app"
    /\ UNCHANGED <<target, primary, moves, results, owner, rows, idx, used, aborted>>

ZeroRows == [k \in RowKeys |-> [m \in Columns |-> 0]]

(***************************************************************************)
(* list_app of every app (no app named) or of the app named: the partition *)
(* configurations, read now, after the replies.  The rows are created with *)
(* every counter at 0: after the list_app loop when no app is named,       *)
(* before the call when one is.                                            *)
(***************************************************************************)
ListApp ==
    /\ pc = "list_app"
    /\ \/ /\ "list_app" \in Fail
          /\ Abort
          /\ rows' = IF target = 0 THEN rows ELSE ZeroRows
          /\ UNCHANGED owner
       \/ /\ owner' = [a \in Apps |-> IF a \in Queried THEN primary[a] ELSE owner[a]]
          /\ rows' = ZeroRows
          /\ pc' = "merge"
          /\ UNCHANGED aborted
    /\ UNCHANGED <<target, primary, moves, results, idx, used>>

\* Mutant of Merge: the filter compares with the primary at the time of the
\* merge step instead of the configuration list_app returned.
KeptLive(i) == {c \in results[i].counters : primary[c.app][c.part] = i /\ c.metric \in Columns}

\* Mutant of Merge: the "pc.primary != node_addr" filter is dropped.
KeptNoFilter(i) == {c \in results[i].counters : c.metric \in Columns}

\* The counters of node i's reply the merge adds: those whose partition has
\* node i as primary, of a known counter name.
Kept(i) == {c \in results[i].counters : owner[c.app][c.part] = i /\ c.metric \in Columns}

\* Mutant of Merge: the loop does not stop after the last node.
MergeNoExit ==
    /\ pc = "merge"
    /\ idx \in Nodes
    /\ IF results[idx].st # "ok"
       THEN /\ Abort
            /\ UNCHANGED <<rows, idx, used>>
       ELSE /\ rows' = [k \in RowKeys |-> [m \in Columns |->
                          rows[k][m] + Cardinality({c \in Kept(idx) : RowOf(c) = k /\ c.metric = m})]]
            /\ used' = used \cup Kept(idx)
            /\ idx' = idx + 1
            /\ UNCHANGED pc
            /\ UNCHANGED aborted
    /\ UNCHANGED <<target, primary, moves, results, owner>>

(***************************************************************************)
(* One iteration of the merge loop over the nodes: a failed reply returns  *)
(* at once; else every kept counter is added into its row.                *)
(***************************************************************************)
Merge ==
    /\ pc = "merge"
    /\ idx \in Nodes
    /\ IF results[idx].st # "ok"
       THEN /\ Abort
            /\ UNCHANGED <<rows, idx, used>>
       ELSE /\ rows' = [k \in RowKeys |-> [m \in Columns |->
                          rows[k][m] + Cardinality({c \in Kept(idx) : RowOf(c) = k /\ c.metric = m})]]
            /\ used' = used \cup Kept(idx)
            /\ idx' = idx + 1
            /\ pc' = IF idx = NNodes THEN "done" ELSE "merge"
            /\ UNCHANGED aborted
    /\ UNCHANGED <<target, primary, moves, results, owner>>

\* The cluster moves the primary of a partition to another of its replicas.
MovePrimary ==
    /\ pc # "done"
    /\ moves < MaxMoves
    /\ \E r \in Replica, n \in Nodes :
          /\ n \in Replicas[r[1]][r[2]] \ {primary[r[1]][r[2]]}
          /\ primary' = [primary EXCEPT ![r[1]][r[2]] = n]
    /\ moves' = moves + 1
    /\ UNCHANGED <<target, pc, results, owner, rows, idx, used, aborted>>

Command == ListApps \/ FillNodes \/ CallRemote \/ Join \/ ListApp \/ Merge

Next == Command \/ (\E n \in Nodes : Reply(n)) \/ MovePrimary

\* The main thread runs on; every call is answered or times out.
Fairness == WF_vars(Command) /\ \A n \in Nodes : WF_vars(Reply(n))

Spec == Init /\ [][Next]_vars /\ Fairness

-----------------------------------------------------------------------------
TypeOK ==
    /\ target \in Targets
    /\ pc \in {"list_apps", "fill_nodes", "call", "wait", "list_app", "merge", "done"}
    /\ moves \in 0 .. MaxMoves
    /\ \A r \in Replica : primary[r[1]][r[2]] \in Replicas[r[1]][r[2]]
    /\ results \in [Nodes -> [st : {"none", "pending", "ok", "failed"}, counters : SUBSET Counter]]
    /\ idx \in 1 .. NNodes + 1
    /\ used \subseteq Counter
    /\ aborted \in BOOLEAN

\* The command returned having merged every node's reply.
Complete == pc = "done" /\ ~aborted

(***************************************************************************)
(* Each partition is counted once: after a merge of all replies, every     *)
(* counter of a row holds one count per partition of the row (one replica  *)
(* of each partition passes the ownership filter), however the primaries   *)
(* moved.                                                                  *)
(***************************************************************************)
CountedOnce ==
    Complete =>
        \A k \in RowKeys, m \in Columns :
            rows[k][m] = Cardinality({r \in Replica : r[1] \in Queried /\
                                        (IF target = 0 THEN r[1] ELSE r[2]) = k})

(***************************************************************************)
(* No counter is merged twice: whatever the primaries do during the        *)
(* command, the merge loop adds at most one report of each counter of each *)
(* partition, in every state and not only after a complete merge (the      *)
(* one partition_configuration per partition that list_app returns is the  *)
(* only filter of the loop over the nodes' replies).                       *)
(***************************************************************************)
NoDoubleCount ==
    \A c1, c2 \in used :
        c1.app = c2.app /\ c1.part = c2.part /\ c1.metric = c2.metric => c1 = c2

(***************************************************************************)
(* The specification: a counter is kept only from the partition's owner    *)
(* (a secondary's report is stale and discarded).  Every counter the merge *)
(* adds was reported by the primary of its partition.                     *)
(***************************************************************************)
PrimaryReportsOnly == \A c \in used : c.primary

(***************************************************************************)
(* When get_app_stat returns true, the rows hold every node's counters:    *)
(* a caller cannot tell a partial table from a full one otherwise.         *)
(***************************************************************************)
TrueMeansComplete == pc = "done" => Complete

\* call_remote_command returns and get_app_stat ends.
Terminates == <>(pc = "done")

=============================================================================
