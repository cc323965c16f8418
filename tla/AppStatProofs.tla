---------------------------- MODULE AppStatProofs ----------------------------
(***************************************************************************)
(* Proofs about AppStat for every cluster: every number of nodes, apps,    *)
(* partitions and replicas, every set of failing calls and every number    *)
(* of primary moves.                                                       *)
(*                                                                         *)
(* NoDoubleCount is not inductive: it needs that every counter the merge   *)
(* added came from the reply of the node list_app named as its partition's *)
(* owner (UsedInv), that a node's reply holds one counter per partition   *)
(* and name, all of its own (ResultsInv), and that a reply is not         *)
(* overwritten once merged.  TypeOK needs the shape of the table of        *)
(* primaries (PrimaryShape) to follow MovePrimary's EXCEPT.                *)
(***************************************************************************)
EXTENDS AppStat, TLAPS

\* primary is a table of a primary per partition of every app.
PrimaryShape == primary = [a \in Apps |-> [p \in Parts(a) |-> primary[a][p]]]

\* The counters of node n's reply are its own, one per partition and name.
ResultsInv ==
    \A n \in Nodes : \A c \in results[n].counters :
        /\ c.node = n /\ c.app \in Apps /\ c.part \in Parts(c.app)
        /\ \A d \in results[n].counters :
              d.app = c.app /\ d.part = c.part /\ d.metric = c.metric => d = c

\* Nothing is merged before the merge loop; a merged counter comes from a
\* completed reply of the owner list_app returned for its partition.
UsedInv ==
    /\ pc \in {"list_apps", "fill_nodes", "call", "wait", "list_app"} => used = {}
    /\ \A c \in used : /\ c \in results[c.node].counters
                       /\ results[c.node].st = "ok"
                       /\ owner[c.app][c.part] = c.node

IInv == TypeOK /\ PrimaryShape /\ ResultsInv /\ UsedInv

-----------------------------------------------------------------------------
(* Lemmas about the operators the model is built from.                     *)

\* A replica is a pair of an app and one of its partitions.
LEMMA ReplicaPair ==
    ASSUME NEW r \in Replica
    PROVE  /\ r = <<r[1], r[2]>> /\ r[1] \in Apps /\ r[2] \in Parts(r[1])
BY DEF Replica

\* Partition indices are natural numbers.
LEMMA PartsNat ==
    ASSUME NEW a \in Apps
    PROVE  Parts(a) \subseteq Nat
BY AppStatAssumption DEF Parts

\* A node's report is a set of counters of its own, one per partition and
\* counter name.
LEMMA ReportWellFormed ==
    ASSUME NEW n \in Nodes
    PROVE  /\ Report(n) \subseteq Counter
           /\ \A c \in Report(n) :
                 /\ c.node = n /\ c.app \in Apps /\ c.part \in Parts(c.app)
                 /\ \A d \in Report(n) :
                       d.app = c.app /\ d.part = c.part /\ d.metric = c.metric => d = c
<1>1. Report(n) \subseteq Counter
  <2> SUFFICES ASSUME NEW r \in Replica, NEW m \in Metrics
               PROVE  [node |-> n, app |-> r[1], part |-> r[2], metric |-> m,
                       primary |-> primary[r[1]][r[2]] = n] \in Counter
    BY DEF Report
  <2>1. r[1] \in Apps /\ r[2] \in Nat
    BY ReplicaPair, PartsNat
  <2>2. QED
    BY <2>1 DEF Counter
<1>2. ASSUME NEW c \in Report(n)
      PROVE  /\ c.node = n /\ c.app \in Apps /\ c.part \in Parts(c.app)
             /\ \A d \in Report(n) :
                   d.app = c.app /\ d.part = c.part /\ d.metric = c.metric => d = c
  <2>1. PICK r \in Replica, m \in Metrics :
            c = [node |-> n, app |-> r[1], part |-> r[2], metric |-> m,
                 primary |-> primary[r[1]][r[2]] = n]
    BY DEF Report
  <2>2. c.node = n /\ c.app \in Apps /\ c.part \in Parts(c.app)
    BY <2>1, ReplicaPair
  <2>3. ASSUME NEW d \in Report(n), d.app = c.app, d.part = c.part, d.metric = c.metric
        PROVE  d = c
    <3>1. PICK q \in Replica, k \in Metrics :
              d = [node |-> n, app |-> q[1], part |-> q[2], metric |-> k,
                   primary |-> primary[q[1]][q[2]] = n]
      BY DEF Report
    <3>2. q[1] = r[1] /\ q[2] = r[2] /\ k = m
      BY <2>1, <2>3, <3>1
    <3>3. QED
      BY <2>1, <3>1, <3>2
  <2>4. QED
    BY <2>2, <2>3
<1>3. QED
  BY <1>1, <1>2

-----------------------------------------------------------------------------
(* The inductive invariant.                                                *)

LEMMA InitIInv == Init => IInv
<1> SUFFICES ASSUME Init PROVE IInv
  OBVIOUS
<1>1. TypeOK
  <2>1. \A r \in Replica : primary[r[1]][r[2]] \in Replicas[r[1]][r[2]]
    BY ReplicaPair, AppStatAssumption DEF Init
  <2>2. idx \in 1 .. NNodes + 1 /\ moves \in 0 .. MaxMoves
    BY AppStatAssumption DEF Init
  <2>3. results \in [Nodes -> [st : {"none", "pending", "ok", "failed"}, counters : SUBSET Counter]]
    BY DEF Init
  <2>4. QED
    BY <2>1, <2>2, <2>3 DEF Init, TypeOK
<1>2. PrimaryShape
  BY DEF Init, PrimaryShape
<1>3. ResultsInv /\ UsedInv
  BY DEF Init, ResultsInv, UsedInv
<1>4. QED
  BY <1>1, <1>2, <1>3 DEF IInv

LEMMA NextIInv == IInv /\ [Next]_vars => IInv'
<1> SUFFICES ASSUME IInv, [Next]_vars PROVE IInv'
  OBVIOUS
<1>res. results \in [Nodes -> [st : {"none", "pending", "ok", "failed"}, counters : SUBSET Counter]]
  BY DEF IInv, TypeOK
<1>1. CASE ListApps \/ FillNodes \/ Join
  <2>1. used = {} /\ UNCHANGED <<target, primary, moves, results, owner, idx, used>>
    BY <1>1 DEF ListApps, FillNodes, Join, IInv, UsedInv
  <2>2. pc' \in {"fill_nodes", "call", "list_app", "done"} /\ aborted' \in BOOLEAN
    BY <1>1 DEF ListApps, FillNodes, Join, Abort, IInv, TypeOK
  <2>3. QED
    BY <2>1, <2>2 DEF IInv, TypeOK, PrimaryShape, ResultsInv, UsedInv
<1>2. CASE CallRemote
  <2>1. used = {} /\ UNCHANGED <<target, primary, moves, owner, idx, used, aborted>>
    BY <1>2 DEF CallRemote, IInv, UsedInv
  <2>2. pc' = "wait" /\ results' = [i \in Nodes |-> [st |-> "pending", counters |-> {}]]
    BY <1>2 DEF CallRemote
  <2>3. QED
    BY <2>1, <2>2 DEF IInv, TypeOK, PrimaryShape, ResultsInv, UsedInv
<1>3. ASSUME NEW n \in Nodes, Reply(n) PROVE IInv'
  <2>1. UNCHANGED <<target, pc, primary, moves, owner, idx, used, aborted>>
    BY <1>3 DEF Reply
  <2>2. PICK v \in {[st |-> "ok", counters |-> Report(n)], [st |-> "failed", counters |-> {}]} :
            results' = [results EXCEPT ![n] = v]
    BY <1>3 DEF Reply
  <2>3. results[n].st = "pending"
    BY <1>3 DEF Reply
  <2>4. TypeOK'
    BY <2>1, <2>2, <1>res, ReportWellFormed DEF IInv, TypeOK
  <2>5. ResultsInv'
    BY <2>2, <1>res, ReportWellFormed DEF IInv, ResultsInv
  <2>6. UsedInv'
    <3>1. \A c \in used : c.node # n
      BY <2>3 DEF IInv, UsedInv
    <3>2. QED
      BY <2>1, <2>2, <3>1, <1>res DEF IInv, UsedInv, TypeOK, Counter
  <2>7. QED
    BY <2>1, <2>4, <2>5, <2>6 DEF IInv, PrimaryShape
<1>4. CASE ListApp
  <2>1. used = {} /\ UNCHANGED <<target, primary, moves, results, idx, used>>
    BY <1>4 DEF ListApp, IInv, UsedInv
  <2>2. pc' \in {"merge", "done"} /\ aborted' \in BOOLEAN
    BY <1>4 DEF ListApp, Abort, IInv, TypeOK
  <2>3. QED
    BY <2>1, <2>2 DEF IInv, TypeOK, PrimaryShape, ResultsInv, UsedInv
<1>5. CASE Merge
  <2>0. pc = "merge" /\ idx \in Nodes /\ UNCHANGED <<target, primary, moves, results, owner>>
    BY <1>5 DEF Merge
  <2>1. CASE results[idx].st # "ok"
    <3>1. pc' = "done" /\ aborted' = TRUE /\ UNCHANGED <<idx, used>>
      BY <1>5, <2>1 DEF Merge, Abort
    <3>2. QED
      BY <2>0, <3>1 DEF IInv, TypeOK, PrimaryShape, ResultsInv, UsedInv
  <2>2. CASE results[idx].st = "ok"
    <3>1. /\ used' = used \cup Kept(idx) /\ idx' = idx + 1
          /\ pc' \in {"merge", "done"} /\ aborted' = aborted
      BY <1>5, <2>2 DEF Merge
    <3>2. \A c \in Kept(idx) : /\ c \in results[idx].counters /\ c.node = idx
                               /\ owner[c.app][c.part] = idx /\ c \in Counter
      BY <2>0, <1>res DEF Kept, IInv, ResultsInv
    <3>3. TypeOK'
      BY <2>0, <3>1, <3>2, AppStatAssumption DEF IInv, TypeOK, Nodes
    <3>4. UsedInv'
      BY <2>0, <2>2, <3>1, <3>2 DEF IInv, UsedInv
    <3>5. QED
      BY <2>0, <3>3, <3>4 DEF IInv, PrimaryShape, ResultsInv
  <2>3. QED
    BY <2>1, <2>2
<1>6. CASE MovePrimary
  <2>1. UNCHANGED <<target, pc, results, owner, idx, used, aborted>> /\ moves' = moves + 1
        /\ moves < MaxMoves
    BY <1>6 DEF MovePrimary
  <2>2. PICK r \in Replica, n \in Nodes :
            /\ n \in Replicas[r[1]][r[2]]
            /\ primary' = [primary EXCEPT ![r[1]][r[2]] = n]
    BY <1>6 DEF MovePrimary
  <2>3. r = <<r[1], r[2]>> /\ r[1] \in Apps /\ r[2] \in Parts(r[1])
    BY ReplicaPair
  <2>4. \A a \in Apps : \A p \in Parts(a) :
            primary'[a][p] = IF <<a, p>> = r THEN n ELSE primary[a][p]
    BY <2>2, <2>3 DEF IInv, PrimaryShape
  <2>5. PrimaryShape'
    <3>1. primary = [a \in Apps |-> [p \in Parts(a) |-> primary[a][p]]]
      BY DEF IInv, PrimaryShape
    <3>2. primary' = [a \in Apps |-> IF a = r[1]
                                      THEN [primary[a] EXCEPT ![r[2]] = n]
                                      ELSE primary[a]]
      BY <2>2, <2>3, <3>1
    <3>3. \A a \in Apps : primary'[a] = [p \in Parts(a) |-> primary'[a][p]]
      BY <3>1, <3>2
    <3>4. QED
      BY <3>2, <3>3 DEF PrimaryShape
  <2>6. \A q \in Replica : primary'[q[1]][q[2]] \in Replicas[q[1]][q[2]]
    BY <2>2, <2>3, <2>4, ReplicaPair DEF IInv, TypeOK
  <2>7. TypeOK'
    BY <2>1, <2>6, AppStatAssumption DEF IInv, TypeOK
  <2>8. QED
    BY <2>1, <2>5, <2>7 DEF IInv, ResultsInv, UsedInv
<1>7. CASE UNCHANGED vars
  BY <1>7 DEF vars, IInv, TypeOK, PrimaryShape, ResultsInv, UsedInv
<1>8. QED
  BY <1>1, <1>2, <1>3, <1>4, <1>5, <1>6, <1>7 DEF Next, Command

-----------------------------------------------------------------------------
(* The theorems.                                                           *)

\* Two merged counters with the same partition and name are one counter:
\* both came from the reply of the partition's owner, which holds one.
LEMMA IInvNoDouble == IInv => NoDoubleCount
<1> SUFFICES ASSUME IInv, NEW c1 \in used, NEW c2 \in used,
                    c1.app = c2.app, c1.part = c2.part, c1.metric = c2.metric
             PROVE  c1 = c2
  BY DEF NoDoubleCount
<1>1. c1.node = c2.node /\ c1.node \in Nodes
  BY DEF IInv, UsedInv, TypeOK, Counter
<1>2. c1 \in results[c1.node].counters /\ c2 \in results[c1.node].counters
  BY <1>1 DEF IInv, UsedInv
<1>3. QED
  BY <1>1, <1>2 DEF IInv, ResultsInv

\* The inductive invariant holds in every reachable state.
THEOREM IInvInvariant == Spec => []IInv
BY InitIInv, NextIInv, PTL DEF Spec

\* Every state of stat's merge is well typed: the primaries stay among the
\* replicas while the cluster moves them, and the merge cursor idx never
\* runs past NNodes + 1.
THEOREM TypeCorrect == Spec => []TypeOK
BY IInvInvariant, PTL DEF IInv

\* However the cluster moves primaries while the replies are collected,
\* the merge adds each partition's counter of a name at most once, for
\* every cluster and every set of failing calls.
THEOREM NoDouble == Spec => []NoDoubleCount
BY IInvInvariant, IInvNoDouble, PTL

=============================================================================
