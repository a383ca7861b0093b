------------------------- MODULE SupervisionOutline -------------------------
(***************************************************************************)
(* The course of one supervision as everything outside it may know it:     *)
(* launches, rounds of the monitoring loop, a cut by cancellation, lease   *)
(* or deadline, at most Launches starts of a worker, and a verdict that is *)
(* "completed" only when a result was handed in.  ScanControl implements   *)
(* it for each of its threads, WorkerSupervision for the processes and     *)
(* files behind it, so that the two describe the same supervisor.          *)
(***************************************************************************)
EXTENDS Naturals

CONSTANT Launches   \* how often a worker may be started

VARIABLES
  step,       \* where the supervisor is; "idle" before, after and if it died
  verdict,    \* its local status
  launches    \* workers started so far

outlineVars == <<step, verdict, launches>>

Init == step \in {"idle", "start"} /\ verdict = "failed" /\ launches = 0

Go(from, to) == step = from /\ step' = to

Enter   == Go("idle", "start") /\ UNCHANGED <<verdict, launches>>
Decline == Go("start", "over") /\ verdict' = "cancelled" /\ UNCHANGED launches
Launch  == Go("start", "check") /\ launches' = 1 /\ UNCHANGED verdict
Round   == /\ Go("check", "tend") \/ Go("tend", "check")
           /\ UNCHANGED <<verdict, launches>>

\* A worker that has exited is started again.
Relaunch == /\ Go("check", "check") \/ Go("stop", "check")
            /\ launches < Launches
            /\ launches' = launches + 1
            /\ UNCHANGED verdict

Cut == /\ \/ Go("check", "stop") /\ verdict' = "cancelled"
          \/ Go("tend", "stop") /\ verdict' \in {"timed_out", "failed"}
       /\ UNCHANGED launches

HandIn   == Go("check", "hand_in") /\ UNCHANGED <<verdict, launches>>
Complete == Go("hand_in", "over") /\ verdict' = "completed" /\ UNCHANGED launches
Stop     == Go("stop", "over") /\ UNCHANGED <<verdict, launches>>
Fail     == /\ step # "idle"
            /\ step' = "over"
            /\ verdict' = "failed"
            /\ UNCHANGED launches
Leave    == /\ step # "idle"
            /\ step' = "idle"
            /\ verdict' = "failed"
            /\ launches' = 0

Next == \/ Enter \/ Decline \/ Launch \/ Round \/ Relaunch \/ Cut
        \/ HandIn \/ Complete \/ Stop \/ Fail \/ Leave

Spec == Init /\ [][Next]_outlineVars
=============================================================================
