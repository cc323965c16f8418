------------------------------ MODULE MCAppStat ------------------------------
(***************************************************************************)
(* Three replica servers and two apps: app 1 with two partitions whose     *)
(* replica sets overlap on node 2, app 2 with one partition.  Each replica *)
(* reports one known counter and one the merge does not know.              *)
(***************************************************************************)
EXTENDS AppStat, TLC

MCNPart == (1 :> 2) @@ (2 :> 1)
MCReplicas == (1 :> (0 :> {1, 2} @@ 1 :> {2, 3})) @@ (2 :> (0 :> {1, 3}))
MCPrimary0 == (1 :> (0 :> 1 @@ 1 :> 2)) @@ (2 :> (0 :> 3))
MCMetrics == {"get_qps", "recent.flush.count"}

\* No app named, app 1 named, and a name that is not an app.
MCTargets == {0, 1, 7}
MCTargetsAll == {0}

MCFailAll == {"list_apps", "list_nodes", "list_app", "reply"}
MCFailReply == {"reply"}
MCFailNone == {}

=============================================================================
