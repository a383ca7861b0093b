--------------------------- MODULE ScanLifecycle ---------------------------
(***************************************************************************)
(* The life of a scan job as the dashboard and the SSE stream present it:  *)
(* accepted, running, and then for good either completed with a result or  *)
(* closed without one.                                                     *)
(***************************************************************************)
CONSTANTS Job

VARIABLES stage,     \* "none", "queued", "running", "completed" or "closed"
          hasResult  \* the job's assets are there

lifeVars == <<stage, hasResult>>

Init == /\ stage = [j \in Job |-> "none"]
        /\ hasResult = [j \in Job |-> FALSE]

Move(j, from, to) == /\ stage[j] = from
                     /\ stage' = [stage EXCEPT ![j] = to]

Accept(j) == Move(j, "none", "queued") /\ UNCHANGED hasResult
Run(j)    == Move(j, "queued", "running") /\ UNCHANGED hasResult
Complete(j) == /\ Move(j, "running", "completed")
               /\ hasResult' = [hasResult EXCEPT ![j] = TRUE]

\* A sweep may close several running jobs in one transaction.
Close(S) == /\ S # {}
            /\ \A j \in S : stage[j] = "running"
            /\ stage' = [j \in Job |-> IF j \in S THEN "closed" ELSE stage[j]]
            /\ UNCHANGED hasResult
Withdraw(j) == Move(j, "queued", "closed") /\ UNCHANGED hasResult

Next == \/ \E j \in Job : Accept(j) \/ Run(j) \/ Complete(j) \/ Withdraw(j)
        \/ \E S \in SUBSET Job : Close(S)

Spec == Init /\ [][Next]_lifeVars
=============================================================================
