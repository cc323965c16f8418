----------------------------- MODULE ScanSplit -----------------------------
(***************************************************************************)
(* What a scan job promises of its splits, with no threads, requests or    *)
(* budget: every split applies its operation to the rows its scanner       *)
(* produces, one row at a time and each row at most once, and ends once,   *)
(* either at the end of its data or on its first failure.  A failure       *)
(* marks the whole job failed.  Rows whose operation was already under     *)
(* way may still be applied after their split has ended: nothing cancels  *)
(* a call already issued.                                                  *)
(***************************************************************************)
EXTENDS Naturals

CONSTANTS
    Splits,   \* the splits of the job
    Total     \* Total[s]: the rows the scanner of split s produces

VARIABLES
    done,       \* done[s]: rows of split s the operation was applied to
    completed,  \* completed[s]: split s has ended
    failed      \* the job has failed

absVars == <<done, completed, failed>>

Init ==
    /\ done = [s \in Splits |-> 0]
    /\ completed = [s \in Splits |-> FALSE]
    /\ failed = FALSE

\* One more row of split s is applied.
Apply(s) ==
    /\ done[s] < Total[s]
    /\ done' = [done EXCEPT ![s] = @ + 1]
    /\ UNCHANGED <<completed, failed>>

\* Split s reaches the end of its data.
End(s) ==
    /\ ~completed[s]
    /\ completed' = [completed EXCEPT ![s] = TRUE]
    /\ UNCHANGED <<done, failed>>

\* The first failure of split s ends it and fails the job.
Fail(s) ==
    /\ ~completed[s]
    /\ completed' = [completed EXCEPT ![s] = TRUE]
    /\ failed' = TRUE
    /\ UNCHANGED done

Next == \E s \in Splits : Apply(s) \/ End(s) \/ Fail(s)

Spec == Init /\ [][Next]_absVars

=============================================================================
