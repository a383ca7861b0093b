-------------------------- MODULE WorkerProperties --------------------------
(***************************************************************************)
(* What WorkerSupervision is expected to guarantee.                        *)
(***************************************************************************)
EXTENDS WorkerSupervision

\* Types, and what the variables say of each other: launches are started in
\* order, an exit code belongs to a worker that exited, files are in the
\* workspace, and an artifact is a file.
TypeSuper ==
  /\ spc \in Tried \cup Ending
  /\ launched \in 0..Launches
  /\ spc \in Loop \cup {"persist"} => launched # 0
  /\ verdict \in {"failed", "cancelled", "timed_out", "completed"}
  /\ stored \in 0..Launches
TypeFiles ==
  /\ dir \in BOOLEAN /\ files \in SUBSET Files /\ artifact \in 0..Launches
  /\ files # {} => dir
  /\ artifact # 0 <=> "result" \in files
  /\ beatAge \in 0..(Limit + 1)
TypeCancel ==
  cancelFile \in BOOLEAN /\ cancelled \in BOOLEAN /\ signalling \in BOOLEAN
TypeWorkers ==
  /\ worker \in [Attempt -> Working \cup {"none", "exited"}]
  /\ code \in [Attempt -> {"none", "ok", "stop", "unpublished", "error", "killed"}]
  /\ \A a \in Attempt : /\ worker[a] = "none" <=> a > launched
                        /\ worker[a] = "exited" <=> code[a] # "none"
  /\ stalled \in BOOLEAN
TypeOK == TypeSuper /\ TypeFiles /\ TypeCancel /\ TypeWorkers

\* Two workers of one scan never run at the same time, although one may exit
\* or be cut at any point of the supervisor's loop.
OneWorker == \A a, b \in Attempt : Alive(a) /\ Alive(b) => a = b

\* A supervisor that closes a scan leaves no worker behind, unless it reports
\* that it failed.
NothingLeftBehind ==
  spc = "over" /\ verdict # "failed" => \A a \in Attempt : ~Alive(a)

\* The result that is stored is that of the last worker, and that worker ended
\* well: an artifact of a worker that was stopped afterwards does not count.
ResultOfLastWorker ==
  stored # 0 => stored = launched /\ code[stored] = "ok"

\* A worker gives up on its supervisor only for cause: a cancellation, a
\* supervisor that was late by more than the limit, died or is ending.
StopsForCause ==
  \A a \in Attempt : code[a] = "stop" => cancelled \/ stalled \/ spc \in Ending

\* A worker whose supervisor has finished or died does not run for ever, also
\* where its termination failed and where nobody was left to try.
OrphanStops ==
  spc \in {"over", "dead"} ~> \A a \in Attempt : ~Alive(a)

\* Supervision ends, although the scan may hang and a retry starts it again.
SupervisionEnds == <>(spc \in {"over", "dead"})

\* To the rest of the system a supervision looks as ScanControl describes it.
OutlineStep ==
  CASE spc \in {"begin", "setup", "launch"} -> "start"
    [] spc \in {"poll", "check", "exited"}  -> "check"
    [] spc = "tend"    -> "tend"
    [] spc = "leave"   -> "stop"
    [] spc = "persist" -> "hand_in"
    [] spc \in {"clean", "rmdir", "reap", "over"} -> "over"
    [] spc = "dead"    -> "idle"
Course == INSTANCE SupervisionOutline WITH
  step <- OutlineStep,
  verdict <- IF spc = "dead" THEN "failed" ELSE verdict,
  launches <- IF spc = "dead" THEN 0 ELSE launched
Outline == Course!Spec

\* backend/scan_worker.py:27: "Atomically publish bounded telemetry without
\* allowing it to abort a scan."  In particular, the launches of a scan are not
\* used up by workers that could not publish.
TelemetryHarmless ==
  spc = "exited" /\ launched = Launches => code[launched] # "unpublished"
=============================================================================
