-------------------------- MODULE WorkerSupervision --------------------------
(***************************************************************************)
(* One supervision of one scan: supervise() of                             *)
(* backend/services/scan_control.py, the worker processes it starts        *)
(* (backend/scan_worker.py with its watch thread), and the files through   *)
(* which they talk: the supervisor's heartbeat, the cancel signal, the     *)
(* progress file and the result artifact.  The database behind it is in    *)
(* ScanControl; here a renewal succeeds or not, and a cancellation is a    *)
(* flag that is set at any time.                                           *)
(*                                                                         *)
(* The supervisor's thread, each worker's scanning thread and its watch    *)
(* thread, the canceller and the clock take steps of their own.  Time is   *)
(* the age of the heartbeat file in ticks of more than two seconds, so     *)
(* that a touch is due on every round of the loop.                         *)
(***************************************************************************)
EXTENDS Naturals

CONSTANTS
  Launches,   \* how often a worker is started: range(2)
  Limit       \* heartbeat age, in ticks, that a worker accepts: 45 s

ASSUME LaunchesAssumption == Launches \in Nat \ {0}
ASSUME LimitAssumption == Limit \in Nat

VARIABLES
  spc,        \* control point of supervise(); "dead" after a crash
  launched,   \* workers started so far
  verdict,    \* supervise's local status
  stored,     \* the launch whose result was stored, 0 if none
  dir,        \* the temporary workspace exists
  files,      \* what it contains
  artifact,   \* the launch that wrote result.json, 0 if there is none
  beatAge,    \* age of supervisor.heartbeat
  cancelFile, \* the cancel signal file exists
  cancelled,  \* Control.cancel or cancellation_requested_at is set
  signalling, \* a canceller is about to touch the cancel signal
  worker,     \* control point of each launched worker
  code,       \* how it exited
  stalled     \* history: the heartbeat went stale under supervision

superVars  == <<spc, launched, verdict, stored>>
fileVars   == <<dir, files, artifact, beatAge>>
cancelVars == <<cancelFile, cancelled, signalling>>
workerVars == <<worker, code>>
vars == <<superVars, fileVars, cancelVars, workerVars, stalled>>

-----------------------------------------------------------------------------
\* Vocabulary.

Attempt   == 1..Launches
Files     == {"heartbeat", "progress", "partial", "result"}
Working   == {"boot", "scan", "publish", "place", "placed"}
Alive(a)  == worker[a] \in Working
Current   == launched

\* Control points inside the try block, and after the launch of a worker.
Loop   == {"poll", "check", "tend", "exited", "leave"}
Tried  == {"begin", "setup", "launch", "persist"} \cup Loop
Ending == {"clean", "rmdir", "reap", "over", "dead"}

To(l) == spc' = l
At(l) == spc = l

Init ==
  /\ spc = "begin" /\ launched = 0 /\ verdict = "failed" /\ stored = 0
  /\ dir = FALSE /\ files = {} /\ artifact = 0 /\ beatAge = 0
  /\ cancelFile \in BOOLEAN   \* an earlier database may have used the scan's id
  /\ cancelled = FALSE /\ signalling = FALSE
  /\ worker = [a \in Attempt |-> "none"]
  /\ code = [a \in Attempt |-> "none"]
  /\ stalled = FALSE

-----------------------------------------------------------------------------
\* The supervisor.

Begin ==
  /\ At("begin")
  /\ \/ cancelled /\ verdict' = "cancelled" /\ To("over")
     \/ ~cancelled /\ To("setup") /\ UNCHANGED verdict
  /\ UNCHANGED <<launched, stored, fileVars, cancelVars, workerVars, stalled>>

\* Faulty variant: the signal of an earlier scan is left where it is.
SetupKeepingSignal ==
  /\ At("setup")
  /\ dir' = TRUE /\ files' = {"heartbeat"} /\ beatAge' = 0
  /\ To("launch")
  /\ UNCHANGED <<launched, verdict, stored, artifact, cancelVars,
                 workerVars, stalled>>

\* The workspace with a first heartbeat; an old cancel signal is unlinked.
Setup ==
  /\ At("setup")
  /\ dir' = TRUE /\ files' = {"heartbeat"} /\ beatAge' = 0
  /\ cancelFile' = FALSE
  /\ To("launch")
  /\ UNCHANGED <<launched, verdict, stored, artifact, cancelled, signalling,
                 workerVars, stalled>>

\* Popen: the interpreter starts, its watch thread does not run yet.
StartWorker ==
  /\ launched' = launched + 1
  /\ worker' = [worker EXCEPT ![launched + 1] = "boot"]
  /\ To("poll")
  /\ UNCHANGED <<verdict, stored, fileVars, cancelVars, code, stalled>>

Launch == At("launch") /\ StartWorker

\* The head of the loop: poll(), and a touch of the heartbeat.
Poll ==
  /\ At("poll")
  /\ \/ /\ ~Alive(Current)
        /\ To("exited")
        /\ UNCHANGED beatAge
     \/ /\ Alive(Current)
        /\ beatAge' = 0
        /\ To("check")
  /\ UNCHANGED <<launched, verdict, stored, dir, files, artifact, cancelVars,
                 workerVars, stalled>>

CheckCancel ==
  /\ At("check")
  /\ \/ cancelled /\ verdict' = "cancelled" /\ To("leave")
     \/ ~cancelled /\ To("tend") /\ UNCHANGED verdict
  /\ UNCHANGED <<launched, stored, fileVars, cancelVars, workerVars, stalled>>

\* The rest of the round.  The renewal may find the lease lost; progress is
\* copied to the job at best effort, and its failure is swallowed.
LeaseLost ==
  /\ At("tend") /\ verdict' = "failed" /\ To("leave")
  /\ UNCHANGED <<launched, stored, fileVars, cancelVars, workerVars, stalled>>
GoRound ==
  /\ At("tend") /\ To("poll")
  /\ UNCHANGED <<launched, verdict, stored, fileVars, cancelVars, workerVars,
                 stalled>>

\* Faulty variant: the deadline is only tested during the first launch.
TimeOutFirst ==
  /\ At("tend") /\ launched = 1 /\ verdict' = "timed_out" /\ To("leave")
  /\ UNCHANGED <<launched, stored, fileVars, cancelVars, workerVars, stalled>>

TimeOut ==
  /\ At("tend") /\ verdict' = "timed_out" /\ To("leave")
  /\ UNCHANGED <<launched, stored, fileVars, cancelVars, workerVars, stalled>>

\* The loop ended because the worker exited by itself.  The first unexpected
\* exit is retried; code 0 means that there is a result.
Retry ==
  /\ At("exited")
  /\ code[Current] # "ok" /\ launched < Launches
  /\ StartWorker

\* Faulty variant: any result artifact counts, whatever the exit code.
ConcludeByArtifact ==
  /\ At("exited")
  /\ code[Current] = "ok" \/ launched = Launches
  /\ \/ "result" \in files /\ To("persist") /\ UNCHANGED verdict
     \/ "result" \notin files /\ verdict' = "failed" /\ To("clean")
  /\ UNCHANGED <<launched, stored, fileVars, cancelVars, workerVars, stalled>>

Conclude ==
  /\ At("exited")
  /\ \/ code[Current] = "ok" /\ To("persist") /\ UNCHANGED verdict
     \/ /\ code[Current] # "ok" /\ launched = Launches
        /\ verdict' = "failed" /\ To("clean")
  /\ UNCHANGED <<launched, stored, fileVars, cancelVars, workerVars, stalled>>

\* Faulty variant: a result that arrived just after the cut is still taken.
LeaveWithResult ==
  /\ At("leave")
  /\ \/ ~Alive(Current) /\ code[Current] = "ok" /\ To("persist")
     \/ Alive(Current) /\ To("clean")
     \/ ~Alive(Current) /\ code[Current] # "ok" /\ To("clean")
  /\ UNCHANGED <<launched, verdict, stored, fileVars, cancelVars, workerVars,
                 stalled>>

\* The loop was left by a break.  If the worker has exited by itself by now,
\* the for loop goes on to its next launch.
Leave ==
  /\ At("leave")
  /\ Alive(Current) \/ launched = Launches
  /\ To("clean")
  /\ UNCHANGED <<launched, verdict, stored, fileVars, cancelVars, workerVars,
                 stalled>>

\* Faulty variant: the for loop goes on without looking at the worker.
LeaveRetryBlindly == At("leave") /\ launched < Launches /\ StartWorker

LeaveRetry ==
  /\ At("leave")
  /\ ~Alive(Current) /\ launched < Launches
  /\ StartWorker

Persist ==
  /\ At("persist")
  /\ \/ /\ "result" \in files
        /\ stored' = artifact
        /\ verdict' = "completed"
     \/ /\ "result" \notin files
        /\ verdict' = "failed"
        /\ UNCHANGED stored
  /\ To("clean")
  /\ UNCHANGED <<launched, fileVars, cancelVars, workerVars, stalled>>

\* The exit of TemporaryDirectory, before the worker is terminated: its files
\* are listed and unlinked, then the directory is removed; a file that a worker
\* has created in between makes that raise.
Unlink ==
  /\ At("clean")
  /\ files' = {} /\ artifact' = 0
  /\ To("rmdir")
  /\ UNCHANGED <<launched, verdict, stored, dir, beatAge, cancelVars,
                 workerVars, stalled>>

\* Faulty variant: the removal is assumed to work.
RemoveDirBlindly ==
  /\ At("rmdir")
  /\ dir' = FALSE
  /\ To("reap")
  /\ UNCHANGED <<launched, verdict, stored, files, artifact, beatAge,
                 cancelVars, workerVars, stalled>>

RemoveDir ==
  /\ At("rmdir")
  /\ \/ files = {} /\ dir' = FALSE /\ UNCHANGED verdict
     \/ files # {} /\ verdict' = "failed" /\ UNCHANGED dir
  /\ To("reap")
  /\ UNCHANGED <<launched, stored, files, artifact, beatAge, cancelVars,
                 workerVars, stalled>>

\* An exception anywhere in the try block.
Fault ==
  /\ spc \in Tried
  /\ verdict' = "failed"
  /\ To(IF dir THEN "clean" ELSE "reap")
  /\ UNCHANGED <<launched, stored, fileVars, cancelVars, workerVars, stalled>>

\* The finally block: nothing to do, a confirmed termination, or one that
\* cannot be confirmed although the signals may still work.
Reap ==
  /\ At("reap")
  /\ \A a \in Attempt : a = Current => ~Alive(a)
  /\ To("over")
  /\ UNCHANGED <<launched, verdict, stored, fileVars, cancelVars, workerVars,
                 stalled>>

Terminated(a) ==
  /\ worker' = [worker EXCEPT ![a] = "exited"]
  /\ code' = [code EXCEPT ![a] = "killed"]

\* Faulty variant: an unconfirmed termination keeps the verdict.
TerminateUnchecked(a) ==
  /\ At("reap") /\ a = Current /\ Alive(a)
  /\ \/ Terminated(a)
     \/ UNCHANGED workerVars
  /\ To("over")
  /\ UNCHANGED <<launched, verdict, stored, fileVars, cancelVars, stalled>>

Terminate(a) ==
  /\ At("reap") /\ a = Current /\ Alive(a)
  /\ \/ Terminated(a) /\ UNCHANGED verdict
     \/ Terminated(a) /\ verdict' = "failed"
     \/ UNCHANGED workerVars /\ verdict' = "failed"
  /\ To("over")
  /\ UNCHANGED <<launched, stored, fileVars, cancelVars, stalled>>

\* The server process dies: nobody cleans up and nobody terminates.
Crash ==
  /\ spc \notin {"over", "dead"}
  /\ To("dead")
  /\ UNCHANGED <<launched, verdict, stored, fileVars, cancelVars, workerVars,
                 stalled>>

-----------------------------------------------------------------------------
\* A worker.

\* Faulty variant: a heartbeat that has stopped is not noticed.
StopSignMissing == cancelFile \/ "heartbeat" \notin files

\* What the watch thread and the progress callback look at.
StopSign == cancelFile \/ "heartbeat" \notin files \/ beatAge > Limit

WorkerOnly == UNCHANGED <<superVars, fileVars, cancelVars, stalled>>
Exit(a, c) ==
  /\ worker' = [worker EXCEPT ![a] = "exited"]
  /\ code' = [code EXCEPT ![a] = c]
Move(a, from, to) ==
  /\ worker[a] = from
  /\ worker' = [worker EXCEPT ![a] = to]
  /\ UNCHANGED code

Boot(a) == Move(a, "boot", "scan") /\ WorkerOnly

\* The watch thread: os._exit(2), whatever the scan is doing.
Watch(a) ==
  /\ worker[a] \in Working \ {"boot"}
  /\ StopSign
  /\ Exit(a, "stop")
  /\ WorkerOnly

\* publish_progress: the same look at the signs ...
Report(a) ==
  /\ \/ ~StopSign /\ Move(a, "scan", "publish")
     \/ StopSign /\ worker[a] = "scan" /\ Exit(a, "stop")
  /\ WorkerOnly

\* ... and the publication.  If it fails, after three attempts or because the
\* workspace is gone, the callback raises and the scan with it.
Publish(a) ==
  /\ dir
  /\ Move(a, "publish", "scan")
  /\ files' = files \cup {"progress"}
  /\ UNCHANGED <<superVars, dir, artifact, beatAge, cancelVars, stalled>>
PublishFails(a) ==
  /\ worker[a] = "publish"
  /\ Exit(a, "unpublished")
  /\ WorkerOnly

\* The scan is over: its result is written beside result.json ...
WriteResult(a) ==
  /\ dir
  /\ Move(a, "scan", "place")
  /\ files' = files \cup {"partial"}
  /\ UNCHANGED <<superVars, dir, artifact, beatAge, cancelVars, stalled>>

\* ... put in its place, and the interpreter exits.
PlaceResult(a) ==
  /\ "partial" \in files
  /\ Move(a, "place", "placed")
  /\ files' = (files \ {"partial"}) \cup {"result"}
  /\ artifact' = a
  /\ UNCHANGED <<superVars, dir, beatAge, cancelVars, stalled>>
Finish(a) ==
  /\ worker[a] = "placed"
  /\ Exit(a, "ok")
  /\ WorkerOnly

\* An error of the scan, of the result's size or of a write; or the system
\* kills the process.
WorkerFails(a) ==
  /\ Alive(a)
  /\ Exit(a, "error")
  /\ WorkerOnly

-----------------------------------------------------------------------------
\* Cancellation and time.

\* request_cancel while the job runs: event and flag first, the file second.
RequestCancel ==
  /\ spc # "over"
  /\ cancelled' = TRUE /\ signalling' = TRUE
  /\ UNCHANGED <<superVars, fileVars, cancelFile, workerVars, stalled>>
Signal ==
  /\ signalling
  /\ signalling' = FALSE
  /\ cancelFile' \in {TRUE, cancelFile}   \* an OSError is logged
  /\ UNCHANGED <<superVars, fileVars, cancelled, workerVars, stalled>>

Tick ==
  /\ "heartbeat" \in files
  /\ beatAge <= Limit
  /\ beatAge' = beatAge + 1
  /\ stalled' = IF beatAge = Limit /\ spc \in Loop \cup {"launch"}
                THEN TRUE ELSE stalled
  /\ UNCHANGED <<superVars, dir, files, artifact, cancelVars, workerVars>>

-----------------------------------------------------------------------------

Supervise ==
  \/ Begin \/ Setup \/ Launch \/ Poll \/ CheckCancel \/ LeaseLost \/ GoRound
  \/ TimeOut \/ Retry \/ Conclude \/ Leave \/ LeaveRetry \/ Persist
  \/ Unlink \/ RemoveDir \/ Reap \/ (\E a \in Attempt : Terminate(a))
Scan(a) ==
  \/ Boot(a) \/ Report(a) \/ Publish(a) \/ PublishFails(a)
  \/ WriteResult(a) \/ PlaceResult(a) \/ Finish(a) \/ WorkerFails(a)

Next ==
  \/ Supervise \/ Fault \/ Crash
  \/ \E a \in Attempt : Scan(a) \/ Watch(a)
  \/ RequestCancel \/ Signal \/ Tick

Spec == Init /\ [][Next]_vars

\* The supervisor's thread keeps running, and a loop that goes round for ever
\* meets its deadline; a process that was started comes up, and its watch
\* thread looks once a second; time passes.  A scan may hang.
Fairness ==
  /\ WF_vars(Supervise) /\ SF_vars(TimeOut)
  /\ \A a \in Attempt : WF_vars(Boot(a)) /\ WF_vars(Watch(a))
  /\ WF_vars(Tick)

FairSpec == Spec /\ Fairness
=============================================================================
