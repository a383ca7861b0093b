----------------------------- MODULE ApiServer -----------------------------
(***************************************************************************)
(* The parts of the API server around the scans, side by side.  They share *)
(* tables and settings with each other only where one of the modules says  *)
(* so, and no variables: `part` is the one that is in motion, the others   *)
(* stay in their initial states.                                           *)
(***************************************************************************)
EXTENDS RateLimit, AssetReview, Sessions, EventStream, Startup, Telemetry

CONSTANT Parts          \* the parts looked at, a subset of the names below

VARIABLE part

apiVars == <<part, limitVars, reviewVars, sessionVars, streamVars, bootVars, telemetryVars>>

\* No replica is deployed, no database is there.
NotDeployed ==
  /\ creators = {}
  /\ schema = [tables |-> {}, columns |-> FALSE, revision |-> "absent", legacy |-> FALSE]
  /\ aware = FALSE
  /\ boot = [p \in Replicas |-> Down]
  /\ scanJob = [j \in ScanJobs |-> NoScanJob]
  /\ bootCrashes = 0 /\ stampFaults = 0

Init ==
  /\ part \in Parts
  /\ LimitInit /\ ReviewInit /\ SessionInit /\ StreamInit /\ TelemetryInit
  /\ IF part = "startup" THEN StartupInit ELSE NotDeployed

Limits ==
  /\ part = "limit" /\ LimitNext
  /\ UNCHANGED <<part, reviewVars, sessionVars, streamVars, bootVars, telemetryVars>>
Reviews ==
  /\ part = "review" /\ ReviewNext
  /\ UNCHANGED <<part, limitVars, sessionVars, streamVars, bootVars, telemetryVars>>
HoldsSessions ==
  /\ part = "session" /\ SessionNext
  /\ UNCHANGED <<part, limitVars, reviewVars, streamVars, bootVars, telemetryVars>>
Streaming ==
  /\ part = "stream" /\ StreamNext
  /\ UNCHANGED <<part, limitVars, reviewVars, sessionVars, bootVars, telemetryVars>>
StartsUp ==
  /\ part = "startup" /\ StartupNext
  /\ UNCHANGED <<part, limitVars, reviewVars, sessionVars, streamVars, telemetryVars>>
Measures ==
  /\ part = "telemetry" /\ TelemetryNext
  /\ UNCHANGED <<part, limitVars, reviewVars, sessionVars, streamVars, bootVars>>

Next == Limits \/ Reviews \/ HoldsSessions \/ Streaming \/ StartsUp \/ Measures

\* The boot of a replica goes on, and so does the event loop with its streams.
BootGoesOn(p) ==
  /\ part = "startup" /\ Boots(p)
  /\ UNCHANGED <<part, limitVars, reviewVars, sessionVars, streamVars, telemetryVars>>

Spec ==
  /\ Init /\ [][Next]_apiVars
  /\ StreamFairness
  /\ \A p \in Replicas : WF_apiVars(BootGoesOn(p))
=============================================================================
