------------------------- MODULE AppStatCountProofs -------------------------
(***************************************************************************)
(* CountedOnce for every cluster: when get_app_stat's merge loop has run  *)
(* over every node's reply, each entry of a row holds exactly one count   *)
(* per partition of the row, however the primaries moved meanwhile.      *)
(*                                                                         *)
(* The argument: the merged counters of row k and name m are in one-to-   *)
(* one correspondence with the partitions of row k, by c |-> <<c.app,      *)
(* c.part>>.  The map is injective by NoDoubleCount.  It is onto because   *)
(* list_app's owner of a partition is one of its replicas, that node's     *)
(* reply was complete ("ok") and holds a counter of every name for every   *)
(* partition it serves, and the loop merged the kept counters of every     *)
(* node.  Along the loop each entry of rows counts the merged counters of *)
(* its row and name (MergeInv), which the Merge step keeps because a node *)
(* merged now has no counter among those merged before.                    *)
(***************************************************************************)
EXTENDS AppStatProofs, FiniteSetTheorems

\* The partitions whose counters row k of the output sums.
Sel(k) == {r \in Replica : r[1] \in Queried /\ (IF target = 0 THEN r[1] ELSE r[2]) = k}

\* The merged counters of row k and name m, and those node i adds to it.
UsedAt(k, m) == {c \in used : RowOf(c) = k /\ c.metric = m}
KeptAt(i, k, m) == {c \in Kept(i) : RowOf(c) = k /\ c.metric = m}

\* Only a step to "done" sets aborted; the merge cursor stays at the first
\* node until the loop; an app named past list_apps exists.
PhaseInv ==
    /\ pc # "done" => ~aborted
    /\ pc \notin {"merge", "done"} => idx = 1
    /\ pc # "list_apps" /\ ~aborted => target = 0 \/ target \in Apps

\* A completed reply holds a counter of every name for every partition of a
\* queried app its node serves, and only counters of queried apps.
ReplyInv ==
    \A n \in Nodes :
        /\ \A c \in results[n].counters : c.app \in Queried
        /\ results[n].st = "ok" =>
             \A q \in Replica : \A m \in Metrics :
                 q[1] \in Queried /\ n \in Replicas[q[1]][q[2]] =>
                     \E c \in results[n].counters :
                         c.app = q[1] /\ c.part = q[2] /\ c.metric = m

\* Along the merge loop: the replies are all in, every node before idx had a
\* complete reply whose kept counters were merged, nothing of a later node
\* was, the owners list_app returned are replicas, and each entry of rows
\* counts the merged counters of its row and name.
MergeInv ==
    /\ pc = "list_app" => \A n \in Nodes : results[n].st # "pending"
    /\ pc \in {"merge", "done"} /\ ~aborted =>
         /\ pc = "done" => idx = NNodes + 1
         /\ \A n \in Nodes : results[n].st # "pending"
         /\ \A n \in 1 .. idx - 1 : results[n].st = "ok" /\ Kept(n) \subseteq used
         /\ \A c \in used : c.node < idx
         /\ \A q \in Replica : q[1] \in Queried => owner[q[1]][q[2]] \in Replicas[q[1]][q[2]]
         /\ rows = [k \in RowKeys |-> [m \in Columns |-> Cardinality(UsedAt(k, m))]]

CInv == IInv /\ PhaseInv /\ ReplyInv /\ MergeInv

-----------------------------------------------------------------------------
(* Lemmas about the operators.                                             *)

\* The partitions of a row all belong to one app, so there are finitely many.
LEMMA SelFinite ==
    ASSUME target = 0 \/ target \in Apps, NEW k \in RowKeys
    PROVE  IsFiniteSet(Sel(k))
<1> DEFINE a == IF target = 0 THEN k ELSE target
<1>1. a \in Apps
  BY DEF RowKeys
<1>2. \A r \in Sel(k) : r[1] = a /\ r[2] \in Parts(a) /\ r = <<r[1], r[2]>>
  BY ReplicaPair DEF Sel, Queried
<1> DEFINE g == [r \in Sel(k) |-> r[2]]
<1>3. g \in Injection(Sel(k), Parts(a))
  BY <1>2 DEF Injection, IsInjective
<1>4. IsFiniteSet(Parts(a))
  <2>0. NPart[a] \in Nat
    BY <1>1, AppStatAssumption
  <2>1. NPart[a] - 1 \in Int
    BY <2>0
  <2>2. QED
    BY <2>1, FS_Interval DEF Parts
<1>5. QED
  BY <1>3, <1>4, FS_Injection

\* A set of counters of row k with one counter per partition maps one-to-one
\* into the row's partitions, and is finite.
InjSpec(X, k) ==
    /\ target = 0 \/ target \in Apps
    /\ k \in RowKeys
    /\ \A c \in X : c.app \in Queried /\ c.part \in Parts(c.app) /\ RowOf(c) = k
    /\ \A c, d \in X : c.app = d.app /\ c.part = d.part => c = d
    => /\ [c \in X |-> <<c.app, c.part>>] \in Injection(X, Sel(k))
       /\ IsFiniteSet(X)

LEMMA InjectRows == \A X, k : InjSpec(X, k)
<1> SUFFICES ASSUME NEW X, NEW k,
                    target = 0 \/ target \in Apps,
                    k \in RowKeys,
                    \A c \in X : c.app \in Queried /\ c.part \in Parts(c.app) /\ RowOf(c) = k,
                    \A c, d \in X : c.app = d.app /\ c.part = d.part => c = d
             PROVE  /\ [c \in X |-> <<c.app, c.part>>] \in Injection(X, Sel(k))
                    /\ IsFiniteSet(X)
  BY Zenon DEF InjSpec
<1> DEFINE f == [c \in X |-> <<c.app, c.part>>]
<1>1. Queried \subseteq Apps
  BY DEF Queried
<1>2. f \in [X -> Sel(k)]
  BY <1>1 DEF Sel, Replica, RowOf
<1>3. f \in Injection(X, Sel(k))
  BY <1>2 DEF Injection, IsInjective
<1>4. QED
  BY <1>3, SelFinite, FS_Injection

-----------------------------------------------------------------------------
(* The inductive invariant.                                                *)

LEMMA InitCInv == Init => PhaseInv /\ ReplyInv /\ MergeInv
BY DEF Init, PhaseInv, ReplyInv, MergeInv

LEMMA NextPhase == IInv /\ PhaseInv /\ [Next]_vars => PhaseInv'
<1> SUFFICES ASSUME IInv, PhaseInv, [Next]_vars PROVE PhaseInv'
  OBVIOUS
<1>1. CASE ListApps
  BY <1>1 DEF ListApps, Abort, PhaseInv
<1>2. CASE FillNodes \/ CallRemote \/ Join
  BY <1>2 DEF FillNodes, CallRemote, Join, Abort, PhaseInv
<1>3. CASE ListApp
  BY <1>3 DEF ListApp, Abort, PhaseInv
<1>4. CASE Merge
  BY <1>4 DEF Merge, Abort, PhaseInv
<1>5. CASE (\E n \in Nodes : Reply(n)) \/ MovePrimary \/ UNCHANGED vars
  BY <1>5 DEF Reply, MovePrimary, vars, PhaseInv
<1>6. QED
  BY <1>1, <1>2, <1>3, <1>4, <1>5 DEF Next, Command

\* A reply's counters are those Report builds: one of every name for every
\* partition of a queried app the node serves.
LEMMA ReportComplete ==
    ASSUME NEW n \in Nodes
    PROVE  /\ \A c \in Report(n) : c.app \in Queried
           /\ \A q \in Replica : \A m \in Metrics :
                 q[1] \in Queried /\ n \in Replicas[q[1]][q[2]] =>
                     \E c \in Report(n) : c.app = q[1] /\ c.part = q[2] /\ c.metric = m
<1>1. \A c \in Report(n) : c.app \in Queried
  BY DEF Report
<1>2. ASSUME NEW q \in Replica, NEW m \in Metrics, q[1] \in Queried, n \in Replicas[q[1]][q[2]]
      PROVE  \E c \in Report(n) : c.app = q[1] /\ c.part = q[2] /\ c.metric = m
  <2> DEFINE c == [node |-> n, app |-> q[1], part |-> q[2], metric |-> m,
                   primary |-> primary[q[1]][q[2]] = n]
  <2>1. c \in Report(n)
    BY <1>2 DEF Report
  <2>2. QED
    BY <2>1
<1>3. QED
  BY <1>1, <1>2

LEMMA NextReply == IInv /\ ReplyInv /\ [Next]_vars => ReplyInv'
<1> SUFFICES ASSUME IInv, ReplyInv, [Next]_vars PROVE ReplyInv'
  OBVIOUS
<1>res. results \in [Nodes -> [st : {"none", "pending", "ok", "failed"}, counters : SUBSET Counter]]
  BY DEF IInv, TypeOK
<1>1. CASE ListApps \/ FillNodes \/ Join \/ ListApp \/ Merge \/ MovePrimary \/ UNCHANGED vars
  <2>1. UNCHANGED <<target, results>>
    BY <1>1 DEF ListApps, FillNodes, Join, ListApp, Merge, MovePrimary, vars
  <2>2. QED
    BY <2>1 DEF ReplyInv, Queried
<1>2. CASE CallRemote
  BY <1>2 DEF CallRemote, ReplyInv
<1>3. ASSUME NEW n \in Nodes, Reply(n) PROVE ReplyInv'
  <2>1. UNCHANGED target
    BY <1>3 DEF Reply
  <2>2. PICK v \in {[st |-> "ok", counters |-> Report(n)], [st |-> "failed", counters |-> {}]} :
            results' = [results EXCEPT ![n] = v]
    BY <1>3 DEF Reply
  <2>3. \A i \in Nodes : results'[i] = IF i = n THEN v ELSE results[i]
    BY <2>2, <1>res
  <2>4. QED
    BY <2>1, <2>3, ReportComplete DEF ReplyInv, Queried
<1>4. QED
  BY <1>1, <1>2, <1>3 DEF Next, Command

\* In the merge loop, the counters merged so far into an entry of a row and
\* those node idx adds to it are finite and disjoint: they come from
\* distinct nodes.
LEMMA MergeParts ==
    ASSUME CInv, pc = "merge", idx \in Nodes, results[idx].st = "ok",
           NEW k \in RowKeys, NEW m \in Columns
    PROVE  /\ IsFiniteSet(UsedAt(k, m))
           /\ IsFiniteSet(KeptAt(idx, k, m))
           /\ UsedAt(k, m) \cap KeptAt(idx, k, m) = {}
<1>res. results \in [Nodes -> [st : {"none", "pending", "ok", "failed"}, counters : SUBSET Counter]]
  BY DEF CInv, IInv, TypeOK
<1>0. ~aborted /\ (target = 0 \/ target \in Apps)
  BY DEF CInv, PhaseInv
<1>1. \A c \in used : /\ c.node \in Nodes /\ c \in results[c.node].counters
                      /\ c.node < idx
  <2>1. \A c \in used : c.node \in Nodes /\ c \in results[c.node].counters
    BY DEF CInv, IInv, UsedInv, TypeOK, Counter
  <2>2. \A c \in used : c.node < idx
    BY <1>0 DEF CInv, MergeInv
  <2>3. QED
    BY <2>1, <2>2
<1>2. \A c \in used : c.app \in Queried /\ c.part \in Parts(c.app)
  BY <1>1 DEF CInv, ReplyInv, IInv, ResultsInv
<1>3. IsFiniteSet(UsedAt(k, m))
  <2>1. \A c, d \in UsedAt(k, m) : c.app = d.app /\ c.part = d.part => c = d
    BY IInvNoDouble DEF CInv, NoDoubleCount, UsedAt
  <2>2. InjSpec(UsedAt(k, m), k)
    BY InjectRows
  <2>3. QED
    BY <1>0, <1>2, <2>1, <2>2 DEF InjSpec, UsedAt
<1>4. IsFiniteSet(KeptAt(idx, k, m))
  <2>1. \A c \in KeptAt(idx, k, m) :
            /\ c \in results[idx].counters
            /\ c.app \in Queried /\ c.part \in Parts(c.app) /\ RowOf(c) = k /\ c.metric = m
    BY DEF KeptAt, Kept, CInv, ReplyInv, IInv, ResultsInv
  <2>2. \A c, d \in KeptAt(idx, k, m) : c.app = d.app /\ c.part = d.part => c = d
    BY <2>1 DEF CInv, IInv, ResultsInv
  <2>3. InjSpec(KeptAt(idx, k, m), k)
    BY InjectRows
  <2>4. QED
    BY <1>0, <2>1, <2>2, <2>3 DEF InjSpec
<1>5. UsedAt(k, m) \cap KeptAt(idx, k, m) = {}
  <2>1. \A c \in Kept(idx) : c.node = idx
    BY DEF Kept, CInv, IInv, ResultsInv
  <2>2. QED
    BY <1>1, <2>1 DEF UsedAt, KeptAt, Nodes
<1>6. QED
  BY <1>3, <1>4, <1>5

LEMMA NextMerge == CInv /\ [Next]_vars => MergeInv'
<1> SUFFICES ASSUME CInv, [Next]_vars PROVE MergeInv'
  OBVIOUS
<1>res. results \in [Nodes -> [st : {"none", "pending", "ok", "failed"}, counters : SUBSET Counter]]
  BY DEF CInv, IInv, TypeOK
<1>1. CASE ListApps \/ FillNodes \/ CallRemote
  <2>1. pc' \in {"fill_nodes", "call", "wait"} \/ (pc' = "done" /\ aborted')
    BY <1>1 DEF ListApps, FillNodes, CallRemote, Abort
  <2>2. QED
    BY <2>1 DEF MergeInv
<1>2. CASE Join
  BY <1>2 DEF Join, MergeInv
<1>3. ASSUME NEW n \in Nodes, Reply(n) PROVE MergeInv'
  <2>1. results[n].st = "pending" /\ UNCHANGED <<pc, aborted>>
    BY <1>3 DEF Reply
  <2>2. pc # "list_app" /\ ~(pc \in {"merge", "done"} /\ ~aborted)
    BY <2>1 DEF CInv, MergeInv
  <2>3. QED
    BY <2>1, <2>2 DEF MergeInv
<1>4. CASE ListApp
  <2>1. CASE "list_app" \in Fail /\ Abort
    BY <2>1 DEF Abort, MergeInv
  <2>2. CASE owner' = [a \in Apps |-> IF a \in Queried THEN primary[a] ELSE owner[a]]
             /\ rows' = ZeroRows /\ pc' = "merge" /\ UNCHANGED aborted
    <3>1. UNCHANGED <<target, primary, results, idx, used>>
      BY <1>4 DEF ListApp
    <3>2. pc = "list_app" /\ ~aborted /\ idx = 1 /\ used = {}
      BY <1>4 DEF ListApp, CInv, PhaseInv, IInv, UsedInv
    <3>3. \A i \in Nodes : results[i].st # "pending"
      BY <3>2 DEF CInv, MergeInv
    <3>4. \A q \in Replica : q[1] \in Queried => owner'[q[1]][q[2]] \in Replicas[q[1]][q[2]]
      BY <2>2, <3>1, ReplicaPair DEF CInv, IInv, TypeOK
    <3>5. rows' = [k \in RowKeys' |-> [m \in Columns |-> Cardinality(UsedAt(k, m)')]]
      <4>1. \A k, m : UsedAt(k, m)' = {}
        BY <3>1, <3>2 DEF UsedAt
      <4>2. QED
        BY <2>2, <3>1, <4>1, FS_EmptySet DEF ZeroRows, RowKeys
    <3>6. pc' = "merge" /\ ~aborted' /\ idx' = 1 /\ used' = {} /\ results' = results
      BY <2>2, <3>1, <3>2
    <3>7. /\ \A i \in 1 .. idx' - 1 : results'[i].st = "ok" /\ Kept(i)' \subseteq used'
          /\ \A c \in used' : c.node < idx'
      BY <3>6
    <3>8. /\ (pc = "list_app" => \A n \in Nodes : results[n].st # "pending")'
          /\ (pc = "done" => idx = NNodes + 1)'
          /\ (\A n \in Nodes : results[n].st # "pending")'
      BY <3>3, <3>6
    <3>9. QED
      BY <3>1, <3>4, <3>5, <3>7, <3>8 DEF MergeInv, Queried
  <2>3. QED
    BY <1>4, <2>1, <2>2 DEF ListApp
<1>5. CASE Merge
  <2>0. /\ pc = "merge" /\ idx \in Nodes /\ ~aborted
        /\ UNCHANGED <<target, primary, moves, results, owner>>
    BY <1>5 DEF Merge, CInv, PhaseInv
  <2>1. CASE results[idx].st # "ok"
    BY <1>5, <2>1 DEF Merge, Abort, MergeInv
  <2>2. CASE results[idx].st = "ok"
    <3>1. /\ rows' = [k \in RowKeys |-> [m \in Columns |->
                       rows[k][m] + Cardinality(KeptAt(idx, k, m))]]
          /\ used' = used \cup Kept(idx) /\ idx' = idx + 1
          /\ pc' = (IF idx = NNodes THEN "done" ELSE "merge") /\ aborted' = aborted
      BY <1>5, <2>2 DEF Merge, KeptAt
    <3>2. \A i \in Nodes : Kept(i)' = Kept(i)
      BY <2>0 DEF Kept
    <3>3. \A c \in Kept(idx) : c.node = idx
      BY <2>0 DEF Kept, CInv, IInv, ResultsInv
    <3>4. \A c \in used : c.node \in Nodes
      BY DEF CInv, IInv, TypeOK, Counter
    <3>5. \A i \in 1 .. idx' - 1 : results'[i].st = "ok" /\ Kept(i)' \subseteq used'
      <4>1. \A i \in 1 .. idx - 1 : results[i].st = "ok" /\ Kept(i) \subseteq used
        BY <2>0 DEF CInv, MergeInv
      <4>0. idx' - 1 = idx /\ 1 .. idx \subseteq Nodes
        BY <2>0, <3>1, AppStatAssumption DEF Nodes
      <4>2. SUFFICES ASSUME NEW i \in 1 .. idx
                     PROVE  results[i].st = "ok" /\ Kept(i) \subseteq used'
        BY <2>0, <3>2, <4>0
      <4>3. CASE i = idx
        BY <4>3, <2>2, <3>1
      <4>4. CASE i # idx
        <5>1. i \in 1 .. idx - 1
          BY <4>4, <2>0 DEF Nodes
        <5>2. QED
          BY <5>1, <4>1, <3>1
      <4>5. QED
        BY <4>3, <4>4
    <3>6. \A c \in used' : c.node < idx'
      BY <2>0, <3>1, <3>3, <3>4 DEF CInv, MergeInv, Nodes
    <3>7. ASSUME NEW k \in RowKeys, NEW m \in Columns
          PROVE  rows'[k][m] = Cardinality(UsedAt(k, m)')
      <4>1. UsedAt(k, m)' = UsedAt(k, m) \cup KeptAt(idx, k, m)
        BY <2>0, <3>1 DEF UsedAt, KeptAt, RowOf
      <4>2. /\ IsFiniteSet(UsedAt(k, m))
            /\ IsFiniteSet(KeptAt(idx, k, m))
            /\ UsedAt(k, m) \cap KeptAt(idx, k, m) = {}
        BY <2>0, <2>2, MergeParts
      <4>3. rows[k][m] = Cardinality(UsedAt(k, m))
        BY <2>0 DEF CInv, MergeInv
      <4>4. Cardinality(UsedAt(k, m) \cup KeptAt(idx, k, m))
              = Cardinality(UsedAt(k, m)) + Cardinality(KeptAt(idx, k, m))
        <5>1. Cardinality(UsedAt(k, m)) \in Nat /\ Cardinality(KeptAt(idx, k, m)) \in Nat
          BY <4>2, FS_CardinalityType
        <5>2. QED
          BY <4>2, <5>1, FS_Union, FS_EmptySet
      <4>5. QED
        BY <3>1, <4>1, <4>3, <4>4
    <3>8. rows' = [k \in RowKeys' |-> [m \in Columns |-> Cardinality(UsedAt(k, m)')]]
      BY <2>0, <3>1, <3>7 DEF RowKeys
    <3>9. QED
      BY <2>0, <3>1, <3>5, <3>6, <3>8 DEF CInv, MergeInv, Queried
  <2>3. QED
    BY <2>1, <2>2
<1>6. CASE MovePrimary \/ UNCHANGED vars
  <2>1. UNCHANGED <<target, pc, results, owner, rows, idx, used, aborted>>
    BY <1>6 DEF MovePrimary, vars
  <2>2. QED
    BY <2>1 DEF CInv, MergeInv, Kept, UsedAt, RowKeys, RowOf, Queried
<1>7. QED
  BY <1>1, <1>2, <1>3, <1>4, <1>5, <1>6 DEF Next, Command

LEMMA InitCInvAll == Init => CInv
BY InitIInv, InitCInv DEF CInv

LEMMA NextCInv == CInv /\ [Next]_vars => CInv'
BY NextIInv, NextPhase, NextReply, NextMerge DEF CInv

\* After the whole loop, the merged counters of row k and name m and the
\* partitions of row k correspond one to one by c |-> <<c.app, c.part>>:
\* onto because the owner list_app named for a partition is one of its
\* replicas, whose complete reply holds the partition's counter of name m,
\* and that counter passed the owner filter.
LEMMA CInvCounted == CInv => CountedOnce
<1> SUFFICES ASSUME CInv, Complete, NEW k \in RowKeys, NEW m \in Columns
             PROVE  rows[k][m] = Cardinality(Sel(k))
  BY DEF CountedOnce, Sel
<1>0. /\ pc = "done" /\ ~aborted /\ idx = NNodes + 1
      /\ (target = 0 \/ target \in Apps)
  BY DEF Complete, CInv, MergeInv, PhaseInv
<1>1. rows[k][m] = Cardinality(UsedAt(k, m))
  BY <1>0 DEF CInv, MergeInv
<1>2. \A c \in used : c.app \in Queried /\ c.part \in Parts(c.app)
  <2>1. \A c \in used : c.node \in Nodes /\ c \in results[c.node].counters
    BY DEF CInv, IInv, UsedInv, TypeOK, Counter
  <2>2. QED
    BY <2>1 DEF CInv, ReplyInv, IInv, ResultsInv
<1>3. \A c, d \in UsedAt(k, m) : c.app = d.app /\ c.part = d.part => c = d
  BY IInvNoDouble DEF CInv, NoDoubleCount, UsedAt
<1>4. InjSpec(UsedAt(k, m), k)
  BY InjectRows
<1> DEFINE f == [c \in UsedAt(k, m) |-> <<c.app, c.part>>]
<1>5. f \in Injection(UsedAt(k, m), Sel(k))
  BY <1>0, <1>2, <1>3, <1>4 DEF InjSpec, UsedAt
<1>6. IsFiniteSet(Sel(k))
  BY <1>0, SelFinite
<1>7. ASSUME NEW r \in Sel(k) PROVE \E c \in UsedAt(k, m) : f[c] = r
  <2>1. /\ r = <<r[1], r[2]>> /\ r[1] \in Apps /\ r[2] \in Parts(r[1])
        /\ r[1] \in Queried /\ (IF target = 0 THEN r[1] ELSE r[2]) = k
    BY ReplicaPair DEF Sel
  <2> DEFINE o == owner[r[1]][r[2]]
  <2>2. o \in Replicas[r[1]][r[2]] /\ o \in Nodes
    BY <1>0, <2>1, AppStatAssumption DEF CInv, MergeInv, Sel
  <2>3. results[o].st = "ok" /\ Kept(o) \subseteq used
    <3>1. o \in 1 .. idx - 1
      BY <1>0, <2>2, AppStatAssumption DEF Nodes
    <3>2. QED
      BY <1>0, <3>1 DEF CInv, MergeInv
  <2>4. m \in Metrics
    BY DEF Columns
  <2>5. PICK c \in results[o].counters : c.app = r[1] /\ c.part = r[2] /\ c.metric = m
    BY <2>1, <2>2, <2>3, <2>4 DEF CInv, ReplyInv, Sel
  <2>6. c \in Kept(o)
    BY <2>5 DEF Kept
  <2>7. c \in UsedAt(k, m) /\ f[c] = r
    BY <2>1, <2>3, <2>5, <2>6 DEF UsedAt, RowOf
  <2>8. QED
    BY <2>7
<1>8. f \in Surjection(UsedAt(k, m), Sel(k))
  BY <1>5, <1>7 DEF Injection, Surjection
<1>9. Cardinality(UsedAt(k, m)) = Cardinality(Sel(k))
  BY <1>5, <1>6, <1>8, FS_Injection
<1>10. QED
  BY <1>1, <1>9

\* The inductive invariant holds in every reachable state of get_app_stat.
THEOREM CInvInvariant == Spec => []CInv
BY InitCInvAll, NextCInv, PTL DEF Spec

\* When get_app_stat's merge loop has gone over every node's reply without
\* an error, every counter of every row holds exactly one count per
\* partition of the row: for every cluster, every set of failing calls and
\* every number of primary moves during the command, the ownership filter
\* keeps one replica's counter of each partition, and none is lost.
THEOREM CountedExactlyOnce == Spec => []CountedOnce
BY CInvInvariant, CInvCounted, PTL

=============================================================================
