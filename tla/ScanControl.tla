---------------------------- MODULE ScanControl ----------------------------
(***************************************************************************)
(* Admission, dispatch and supervision of repository scans:                *)
(* backend/services/scan_control.py with the database it drives            *)
(* (scan_jobs, scan_dispatches, scan_leases), the lease service, the part  *)
(* of scanner_runner.py that persists a result, the cancel endpoint and    *)
(* the watchdog of the application's lifespan.                             *)
(*                                                                         *)
(* A thread is a server thread that serves POST /scan and then runs the    *)
(* background task dispatch_scan; a canceller is a thread that serves      *)
(* POST /scans/{id}/cancel; each process also runs one watchdog.  A step   *)
(* is what happens between two points where another actor can intervene:   *)
(* a transaction commits its writes atomically, and a read whose result is *)
(* used by a later write is a step of its own.                             *)
(*                                                                         *)
(* Time is counted in ticks and kept as ages, saturated just above TTL.    *)
(***************************************************************************)
EXTENDS Naturals, FiniteSets

CONSTANTS
  Procs,       \* server processes (API replicas)
  Threads,     \* their request threads; a worker_identity names one
  Cancellers,  \* their threads that serve a cancellation
  Home,        \* the process of each thread and canceller
  Jobs,        \* ids of scan jobs
  Repos,       \* repository paths
  RepoOf,      \* the repository of each job
  Grace,       \* SUPERVISOR_GRACE_SECONDS, in ticks
  TTL,         \* claim and lease lifetime: timeout + 60 s, in ticks
  Prompt,      \* supervision steps that are never more than Grace late
  MaxCrashes,  \* bound on process crashes
  MaxFaults,   \* bound on failed database transactions
  NoThread, NoJob, NoRepo

ASSUME ThreadsAssumption ==
  /\ Home \in [Threads \cup Cancellers -> Procs]
  /\ RepoOf \in [Jobs -> Repos]
  /\ NoThread \notin Threads /\ NoJob \notin Jobs /\ NoRepo \notin Repos

\* The lease outlives the grace period: timeout + 60 s > 45 s, timeout >= 1 s.
ASSUME TimeAssumption == Grace \in Nat /\ TTL \in Nat /\ Grace < TTL

ASSUME BoundsAssumption == MaxCrashes \in Nat /\ MaxFaults \in Nat

VARIABLES
  status,     \* scan_jobs.status; "none" before the row exists
  results,    \* how often a result's assets were written for the job
  dstate,     \* scan_dispatches.state
  claimedBy,  \* scan_dispatches.claimed_by
  hb,         \* age of heartbeat_at; the claim expires when it exceeds TTL
  cancelReq,  \* cancellation_requested_at is set
  attempts,   \* scan_dispatches.attempt_count
  lease,      \* the job's scan_leases row: "none", "held" or "released"
  holder,     \* its worker_id
  leaseAge,   \* age of its last acquisition or renewal; expired above TTL
  up,         \* processes that run
  slot,       \* _active of each process, as the thread of its Control
  pc, tj,     \* control point of a thread and the job it works on
  want,       \* the repository a thread found without an active job
  cancelEv,   \* Control.cancel is set
  verdict,    \* supervise's local status
  tries,      \* worker launches, the variable attempt of supervise
  cpc, cjob,  \* control point and job of a canceller
  seen,       \* the dispatch state and job status a canceller has read
  sweep,      \* verdicts reconcile_abandoned_scans has read but not written
  crashes, faults

jobVars    == <<status, results>>
dispVars   == <<dstate, claimedBy, hb, cancelReq, attempts>>
leaseVars  == <<lease, holder, leaseAge>>
threadVars == <<pc, tj, want, cancelEv, verdict, tries>>
cancelVars == <<cpc, cjob, seen>>
faultVars  == <<crashes, faults>>
dbVars     == <<jobVars, dispVars, leaseVars>>
vars == <<jobVars, dispVars, leaseVars, up, slot, threadVars, cancelVars,
          sweep, faultVars>>

-----------------------------------------------------------------------------
\* Vocabulary.

Active   == {"queued", "running"}
Terminal == {"completed", "failed", "cancelled", "timed_out"}
Status   == {"none"} \cup Active \cup Terminal
Open     == {"pending", "claimed", "cancel_requested"}
DState   == {"none"} \cup Open \cup Terminal
Sweepers == Procs \cup Cancellers

\* Control points from the committed claim to the end of supervise's finally.
Supervising == {"start", "check", "tend", "stop", "persist", "write",
                "finish", "finwrite", "finalize"}
\* Control points at which a thread's Control is its process's _active.
Holding == {"lease", "claim", "release"} \cup Supervising
PC == {"idle", "insert", "notify", "dispatch", "reserve", "unlease"}
        \cup Holding

NoSweep == [j \in Jobs |-> "none"]
NotSeen == <<"none", "none">>

ASSUME PromptAssumption == Prompt \subseteq Supervising

Older(age) == IF age > TTL THEN age ELSE age + 1

ActiveJobs(r) == {j \in Jobs : RepoOf[j] = r /\ status[j] \in Active}
FreshJobs(r)  == {j \in Jobs : RepoOf[j] = r /\ status[j] = "none"}

Goto(t, l) == pc' = [pc EXCEPT ![t] = l]

\* Request and Control of the threads in S are gone.
Quit(S) ==
  /\ pc' = [t \in Threads |-> IF t \in S THEN "idle" ELSE pc[t]]
  /\ tj' = [t \in Threads |-> IF t \in S THEN NoJob ELSE tj[t]]
  /\ want' = [t \in Threads |-> IF t \in S THEN NoRepo ELSE want[t]]
  /\ cancelEv' = [t \in Threads |-> IF t \in S THEN FALSE ELSE cancelEv[t]]
  /\ verdict' = [t \in Threads |-> IF t \in S THEN "failed" ELSE verdict[t]]
  /\ tries' = [t \in Threads |-> IF t \in S THEN 0 ELSE tries[t]]
At(t, l)   == up[Home[t]] /\ pc[t] = l

\* release(): the in-memory slot is cleared first, if it is still this Control.
FreeSlot(t) == slot' = [slot EXCEPT ![Home[t]] = IF @ = t THEN NoThread ELSE @]

Init ==
  /\ status = [j \in Jobs |-> "none"]
  /\ results = [j \in Jobs |-> 0]
  /\ dstate = [j \in Jobs |-> "none"]
  /\ claimedBy = [j \in Jobs |-> NoThread]
  /\ hb = [j \in Jobs |-> 0]
  /\ cancelReq = [j \in Jobs |-> FALSE]
  /\ attempts = [j \in Jobs |-> 0]
  /\ lease = [j \in Jobs |-> "none"]
  /\ holder = [j \in Jobs |-> NoThread]
  /\ leaseAge = [j \in Jobs |-> 0]
  /\ up = [p \in Procs |-> TRUE]
  /\ slot = [p \in Procs |-> NoThread]
  /\ pc = [t \in Threads |-> "idle"]
  /\ tj = [t \in Threads |-> NoJob]
  /\ want = [t \in Threads |-> NoRepo]
  /\ cancelEv = [t \in Threads |-> FALSE]
  /\ verdict = [t \in Threads |-> "failed"]
  /\ tries = [t \in Threads |-> 0]
  /\ cpc = [c \in Cancellers |-> "idle"]
  /\ cjob = [c \in Cancellers |-> NoJob]
  /\ seen = [c \in Cancellers |-> NotSeen]
  /\ sweep = [x \in Sweepers |-> NoSweep]
  /\ crashes = 0
  /\ faults = 0

-----------------------------------------------------------------------------
\* POST /scan: enqueue_scan, then the dispatcher wake-up.

\* Faulty variant: the reuse path answers without the id of the active job.
EnqueueCheckNoId(t, r) ==
  /\ At(t, "idle")
  /\ IF ActiveJobs(r) # {}
     THEN Goto(t, "notify") /\ UNCHANGED want
     ELSE /\ FreshJobs(r) # {}
          /\ want' = [want EXCEPT ![t] = r]
          /\ Goto(t, "insert")
  /\ UNCHANGED <<dbVars, up, slot, tj, cancelEv, verdict, tries, cancelVars,
                 sweep, faultVars>>

\* Read the newest active job of the repository.  The second conjunct of the
\* second disjunct is the model's bound: every pending insert has a row left.
EnqueueCheck(t, r) ==
  /\ At(t, "idle")
  /\ \/ \E j \in ActiveJobs(r) :
          /\ tj' = [tj EXCEPT ![t] = j]
          /\ Goto(t, "notify")
          /\ UNCHANGED want
     \/ /\ ActiveJobs(r) = {}
        /\ Cardinality({u \in Threads : want[u] = r})
             < Cardinality(FreshJobs(r))
        /\ want' = [want EXCEPT ![t] = r]
        /\ Goto(t, "insert")
        /\ UNCHANGED tj
  /\ UNCHANGED <<dbVars, up, slot, cancelEv, verdict, tries, cancelVars,
                 sweep, faultVars>>

\* Job and dispatch row are inserted in one transaction; no constraint relates
\* the new row to other jobs of the same repository.
EnqueueInsert(t) ==
  /\ At(t, "insert")
  /\ \E j \in FreshJobs(want[t]) :
       /\ status' = [status EXCEPT ![j] = "queued"]
       /\ dstate' = [dstate EXCEPT ![j] = "pending"]
       /\ tj' = [tj EXCEPT ![t] = j]
  /\ want' = [want EXCEPT ![t] = NoRepo]
  /\ Goto(t, "notify")
  /\ UNCHANGED <<results, claimedBy, hb, cancelReq, attempts, leaseVars, up,
                 slot, cancelEv, verdict, tries, cancelVars, sweep, faultVars>>

\* The audit record is written and dispatch_scan is added as background task.
Notify(t) ==
  /\ At(t, "notify")
  /\ Goto(t, "dispatch")
  /\ UNCHANGED <<dbVars, up, slot, tj, want, cancelEv, verdict, tries,
                 cancelVars, sweep, faultVars>>

\* dispatch_scan looks at the job's status in a transaction of its own.
DispatchRead(t) ==
  /\ At(t, "dispatch")
  /\ IF status[tj[t]] = "queued"
     THEN Goto(t, "reserve") /\ UNCHANGED <<tj, want, cancelEv, verdict, tries>>
     ELSE Quit({t})
  /\ UNCHANGED <<dbVars, up, slot, cancelVars, sweep, faultVars>>

\* Faulty variant: the busy slot is not looked at.
ReserveAlways(t) ==
  /\ At(t, "reserve")
  /\ slot' = [slot EXCEPT ![Home[t]] = t]
  /\ Goto(t, "lease")
  /\ UNCHANGED <<dbVars, up, tj, want, cancelEv, verdict, tries, cancelVars,
                 sweep, faultVars>>

\* reserve(): one Control per process; a busy slot is a 409 and the job stays
\* queued.
Reserve(t) ==
  /\ At(t, "reserve")
  /\ \/ /\ slot[Home[t]] = NoThread
        /\ slot' = [slot EXCEPT ![Home[t]] = t]
        /\ Goto(t, "lease")
        /\ UNCHANGED <<tj, want, cancelEv, verdict, tries>>
     \/ /\ slot[Home[t]] # NoThread
        /\ Quit({t})
        /\ UNCHANGED slot
  /\ UNCHANGED <<dbVars, up, cancelVars, sweep, faultVars>>

\* Faulty variants: the row is replaced once it is released, or once it expired.
LeaseFreeOnceReleased(j) == lease[j] \in {"none", "released"}
LeaseFreeOnceExpired(j) ==
  LeaseFreeOnceReleased(j) \/ leaseAge[j] > TTL

\* acquire_lease succeeds only while the job has no lease row at all.  The
\* session does not autoflush: an expired row it has marked for deletion is still
\* found by the query for an unreleased one, and is refused; for a released one
\* the flush emits the INSERT of the new row before the DELETE of the old, and
\* the UNIQUE scan_job_id raises.
LeaseFree(j) == lease[j] = "none"

\* The lease is taken in a transaction of its own; a refusal (409, or 503 when
\* the constraint raises) goes through release(control).
AcquireLease(t) ==
  LET j == tj[t] IN
  /\ At(t, "lease")
  /\ \/ /\ LeaseFree(j)
        /\ lease' = [lease EXCEPT ![j] = "held"]
        /\ holder' = [holder EXCEPT ![j] = t]
        /\ leaseAge' = [leaseAge EXCEPT ![j] = 0]
        /\ Goto(t, "claim")
        /\ UNCHANGED slot
     \/ /\ ~LeaseFree(j)
        /\ FreeSlot(t)
        /\ Goto(t, "unlease")
        /\ UNCHANGED leaseVars
  /\ UNCHANGED <<jobVars, dispVars, up, tj, want, cancelEv, verdict, tries,
                 cancelVars, sweep, faultVars>>

\* Faulty variant: whatever has not been claimed yet can be.
ClaimableUnlessClaimed(j) == dstate[j] # "claimed" \/ hb[j] > TTL

\* The eligibility of claim_dispatch: pending, or claimed and expired.
Claimable(j) ==
  \/ dstate[j] = "pending"
  \/ dstate[j] = "claimed" /\ hb[j] > TTL

\* Faulty variant: a refused claim returns without release(control).
ClaimKeepingSlot(t) ==
  LET j == tj[t] IN
  /\ At(t, "claim")
  /\ IF Claimable(j)
     THEN /\ dstate' = [dstate EXCEPT ![j] = "claimed"]
          /\ claimedBy' = [claimedBy EXCEPT ![j] = t]
          /\ hb' = [hb EXCEPT ![j] = 0]
          /\ attempts' = [attempts EXCEPT ![j] = @ + 1]
          /\ status' = [status EXCEPT ![j] = "running"]
          /\ Goto(t, "start")
     ELSE Goto(t, "idle") /\ UNCHANGED <<dstate, claimedBy, hb, attempts, status>>
  /\ UNCHANGED <<results, cancelReq, leaseVars, up, slot, tj, want, cancelEv,
                 verdict, tries, cancelVars, sweep, faultVars>>

\* The claim and the job's transition to running commit together.
Claim(t) ==
  LET j == tj[t] IN
  /\ At(t, "claim")
  /\ \/ /\ Claimable(j)
        /\ dstate' = [dstate EXCEPT ![j] = "claimed"]
        /\ claimedBy' = [claimedBy EXCEPT ![j] = t]
        /\ hb' = [hb EXCEPT ![j] = 0]
        /\ attempts' = [attempts EXCEPT ![j] = @ + 1]
        /\ status' = [status EXCEPT ![j] = "running"]
        /\ Goto(t, "start")
        /\ UNCHANGED slot
     \/ /\ ~Claimable(j)
        /\ FreeSlot(t)
        /\ Goto(t, "unlease")
        /\ UNCHANGED <<dstate, claimedBy, hb, attempts, status>>
  /\ UNCHANGED <<results, cancelReq, leaseVars, up, tj, want, cancelEv,
                 verdict, tries, cancelVars, sweep, faultVars>>

-----------------------------------------------------------------------------
\* supervise(): the worker process, its monitoring loop and the epilogue.

Cancelled(t) == cancelEv[t] \/ cancelReq[tj[t]]

\* Supervision steps change nothing of the database unless they say so.
Local == UNCHANGED <<up, slot, tj, want, cancelEv, cancelVars, sweep, faultVars>>

Launch(t) ==
  /\ At(t, "start")
  /\ IF Cancelled(t)
     THEN /\ verdict' = [verdict EXCEPT ![t] = "cancelled"]
          /\ Goto(t, "finish")
          /\ UNCHANGED tries
     ELSE /\ tries' = [tries EXCEPT ![t] = 1]
          /\ Goto(t, "check")
          /\ UNCHANGED verdict
  /\ UNCHANGED dbVars /\ Local

\* The head of the monitoring loop: the worker has left a result, has exited
\* in another way, or still runs; then the cancellation flags are read.
WorkerDone(t) ==
  /\ At(t, "check")
  /\ Goto(t, "persist")
  /\ UNCHANGED <<dbVars, verdict, tries>> /\ Local

\* A non-zero exit is retried once; exit 0 without a readable result is not.
WorkerBroken(t) ==
  /\ At(t, "check")
  /\ \/ /\ tries[t] = 1
        /\ tries' = [tries EXCEPT ![t] = 2]
        /\ UNCHANGED <<pc, verdict>>
     \/ /\ verdict' = [verdict EXCEPT ![t] = "failed"]
        /\ Goto(t, "finish")
        /\ UNCHANGED tries
  /\ UNCHANGED dbVars /\ Local

SeeCancel(t) ==
  /\ At(t, "check")
  /\ IF Cancelled(t)
     THEN /\ verdict' = [verdict EXCEPT ![t] = "cancelled"]
          /\ Goto(t, "stop")
     ELSE /\ Goto(t, "tend")
          /\ UNCHANGED verdict
  /\ UNCHANGED <<dbVars, tries>> /\ Local

\* renew_claim: lease and dispatch are renewed together or not at all.
LeaseLive(t) ==
  /\ lease[tj[t]] = "held" /\ holder[tj[t]] = t /\ leaseAge[tj[t]] <= TTL
ClaimLive(t) ==
  /\ dstate[tj[t]] = "claimed" /\ claimedBy[tj[t]] = t /\ hb[tj[t]] <= TTL

Renew(t) ==
  /\ At(t, "tend")
  /\ IF LeaseLive(t) /\ ClaimLive(t)
     THEN /\ hb' = [hb EXCEPT ![tj[t]] = 0]
          /\ leaseAge' = [leaseAge EXCEPT ![tj[t]] = 0]
          /\ Goto(t, "check")
          /\ UNCHANGED verdict
     ELSE /\ verdict' = [verdict EXCEPT ![t] = "failed"]
          /\ Goto(t, "stop")
          /\ UNCHANGED <<hb, leaseAge>>
  /\ UNCHANGED <<jobVars, dstate, claimedBy, cancelReq, attempts, lease,
                 holder, tries>>
  /\ Local

\* No heartbeat is due: the loop goes round, or its deadline has passed.
Pass(t) ==
  /\ At(t, "tend")
  /\ Goto(t, "check")
  /\ UNCHANGED <<dbVars, verdict, tries>> /\ Local

\* Faulty variant: the deadline returns at once, without a look at the worker.
TimeOutReturning(t) ==
  /\ At(t, "tend")
  /\ verdict' = [verdict EXCEPT ![t] = "timed_out"]
  /\ Goto(t, "finish")
  /\ UNCHANGED <<dbVars, tries>> /\ Local

TimeOut(t) ==
  /\ At(t, "tend")
  /\ verdict' = [verdict EXCEPT ![t] = "timed_out"]
  /\ Goto(t, "stop")
  /\ UNCHANGED <<dbVars, tries>> /\ Local

\* The loop was left by a break.  A worker that still runs is terminated; if
\* it has exited by itself in the meantime, the for loop starts it again.
Stop(t) ==
  /\ At(t, "stop")
  /\ \/ /\ Goto(t, "finish")
        /\ UNCHANGED tries
     \/ /\ tries[t] = 1
        /\ tries' = [tries EXCEPT ![t] = 2]
        /\ Goto(t, "check")
  /\ UNCHANGED <<dbVars, verdict>> /\ Local

\* Faulty variant: the job is completed before its assets are written.
PersistCheckEarly(t) ==
  /\ At(t, "persist")
  /\ IF status[tj[t]] \in Active
     THEN /\ status' = [status EXCEPT ![tj[t]] = "completed"]
          /\ Goto(t, "write")
          /\ UNCHANGED verdict
     ELSE /\ verdict' = [verdict EXCEPT ![t] = "failed"]
          /\ Goto(t, "finish")
          /\ UNCHANGED status
  /\ UNCHANGED <<results, dispVars, leaseVars, tries>> /\ Local

\* persist_scan_result, first transaction: the checks, under a row lock that
\* the commit gives up.  A result that is already there is not written again.
PersistCheck(t) ==
  LET j == tj[t] IN
  /\ At(t, "persist")
  /\ \/ /\ results[j] > 0
        /\ verdict' = [verdict EXCEPT ![t] = "completed"]
        /\ Goto(t, "finish")
        /\ UNCHANGED status
     \/ /\ results[j] = 0 /\ status[j] \notin Active
        /\ verdict' = [verdict EXCEPT ![t] = "failed"]
        /\ Goto(t, "finish")
        /\ UNCHANGED status
     \/ /\ results[j] = 0 /\ status[j] \in Active
        /\ status' = [status EXCEPT ![j] = "running"]
        /\ Goto(t, "write")
        /\ UNCHANGED verdict
  /\ UNCHANGED <<results, dispVars, leaseVars, tries>> /\ Local

\* Second transaction: assets and the completed status, unconditionally.
PersistWrite(t) ==
  /\ At(t, "write")
  /\ status' = [status EXCEPT ![tj[t]] = "completed"]
  /\ results' = [results EXCEPT ![tj[t]] = @ + 1]
  /\ verdict' = [verdict EXCEPT ![t] = "completed"]
  /\ Goto(t, "finish")
  /\ UNCHANGED <<dispVars, leaseVars, tries>> /\ Local

\* The removal of the workspace raises, or the worker's termination cannot be
\* confirmed: the verdict is failed, also over a result that is stored.
CleanupFails(t) ==
  /\ At(t, "finish")
  /\ tries[t] > 0
  /\ verdict' = [verdict EXCEPT ![t] = "failed"]
  /\ UNCHANGED <<dbVars, pc, tries>> /\ Local

\* Faulty variant: supervise goes straight to finalize_dispatch.
FinishSkipped(t) ==
  /\ At(t, "finish")
  /\ Goto(t, "finalize")
  /\ UNCHANGED <<dbVars, verdict, tries>> /\ Local

\* _finish_if_active reads the job ...
FinishRead(t) ==
  /\ At(t, "finish")
  /\ Goto(t, IF status[tj[t]] \in Active THEN "finwrite" ELSE "finalize")
  /\ UNCHANGED <<dbVars, verdict, tries>> /\ Local

\* ... and writes the verdict over whatever is there by then.
FinishWrite(t) ==
  /\ At(t, "finwrite")
  /\ status' = [status EXCEPT ![tj[t]] = verdict[t]]
  /\ Goto(t, "finalize")
  /\ UNCHANGED <<results, dispVars, leaseVars, verdict, tries>> /\ Local

\* finalize_dispatch closes the dispatch row if it is still claimed by t.
Finalize(t) ==
  LET j == tj[t] IN
  /\ At(t, "finalize")
  /\ IF claimedBy[j] = t
     THEN /\ dstate' = [dstate EXCEPT ![j] = verdict[t]]
          /\ claimedBy' = [claimedBy EXCEPT ![j] = NoThread]
     ELSE UNCHANGED <<dstate, claimedBy>>
  /\ Goto(t, "release")
  /\ UNCHANGED <<jobVars, hb, cancelReq, attempts, leaseVars, verdict, tries>>
  /\ Local

\* release(): the slot under _lock, then the lease in a transaction.
ReleaseSlot(t) ==
  /\ At(t, "release")
  /\ FreeSlot(t)
  /\ Goto(t, "unlease")
  /\ UNCHANGED <<dbVars, up, tj, want, cancelEv, verdict, tries, cancelVars,
                 sweep, faultVars>>

ReleaseLease(t) ==
  LET j == tj[t] IN
  /\ At(t, "unlease")
  /\ IF lease[j] = "held" /\ holder[j] = t
     THEN /\ lease' = [lease EXCEPT ![j] = "released"]
          /\ holder' = [holder EXCEPT ![j] = NoThread]
     ELSE UNCHANGED <<lease, holder>>
  /\ Quit({t})
  /\ UNCHANGED <<jobVars, dispVars, leaseAge, up, slot, cancelVars, sweep,
                 faultVars>>

-----------------------------------------------------------------------------
\* POST /scans/{id}/cancel.

CAt(c, l) == up[Home[c]] /\ cpc[c] = l

\* The endpoint finds the job active; request_cancel signals a local Control.
CancelSignal(c, j) ==
  /\ CAt(c, "idle")
  /\ status[j] \in Active
  /\ cancelEv' = [t \in Threads |->
                    cancelEv[t] \/ (slot[Home[c]] = t /\ tj[t] = j)]
  /\ cpc' = [cpc EXCEPT ![c] = "read"]
  /\ cjob' = [cjob EXCEPT ![c] = j]
  /\ UNCHANGED <<dbVars, up, slot, pc, tj, want, verdict, tries, seen, sweep,
                 faultVars>>

\* The dispatch and the job are read; a closed dispatch ends the request.
CancelRead(c) ==
  /\ CAt(c, "read")
  /\ IF dstate[cjob[c]] \in Open
     THEN /\ seen' = [seen EXCEPT ![c] = <<dstate[cjob[c]], status[cjob[c]]>>]
          /\ cpc' = [cpc EXCEPT ![c] = "write"]
          /\ UNCHANGED cjob
     ELSE /\ cpc' = [cpc EXCEPT ![c] = "idle"]
          /\ cjob' = [cjob EXCEPT ![c] = NoJob]
          /\ UNCHANGED seen
  /\ UNCHANGED <<dbVars, up, slot, threadVars, sweep, faultVars>>

\* Faulty variant: only the dispatch of a queued job is cancelled.
CancelWriteDispatchOnly(c) ==
  /\ CAt(c, "write")
  /\ dstate' = [dstate EXCEPT ![cjob[c]] = "cancelled"]
  /\ cancelReq' = [cancelReq EXCEPT ![cjob[c]] = TRUE]
  /\ seen' = [seen EXCEPT ![c] = NotSeen]
  /\ cpc' = [cpc EXCEPT ![c] = "idle"]
  /\ cjob' = [cjob EXCEPT ![c] = NoJob]
  /\ UNCHANGED <<jobVars, claimedBy, hb, attempts, leaseVars, up, slot,
                 threadVars, sweep, faultVars>>

\* Only attributes that differ from what was read are written: a dispatch seen
\* in cancel_requested keeps its row, a job seen queued is cancelled.
CancelWrite(c) ==
  LET j == cjob[c] IN
  /\ CAt(c, "write")
  /\ IF seen[c][2] = "queued"
     THEN /\ status' = [status EXCEPT ![j] = "cancelled"]
          /\ dstate' = [dstate EXCEPT ![j] = "cancelled"]
     ELSE /\ dstate' = IF seen[c][1] = "cancel_requested" THEN dstate
                       ELSE [dstate EXCEPT ![j] = "cancel_requested"]
          /\ UNCHANGED status
  /\ cancelReq' = [cancelReq EXCEPT ![j] = TRUE]
  /\ seen' = [seen EXCEPT ![c] = NotSeen]
  /\ IF status'[j] = "running"
     THEN cpc' = [cpc EXCEPT ![c] = "sweep"] /\ UNCHANGED cjob
     ELSE /\ cpc' = [cpc EXCEPT ![c] = "idle"]
          /\ cjob' = [cjob EXCEPT ![c] = NoJob]
  /\ UNCHANGED <<results, claimedBy, hb, attempts, leaseVars, up, slot,
                 threadVars, sweep, faultVars>>

-----------------------------------------------------------------------------
\* reconcile_abandoned_scans, by a process's watchdog or at the end of a
\* cancellation: a read of the running jobs, then a write of what was decided.

SweepDue(x) ==
  \/ x \in Procs /\ up[x] /\ sweep[x] = NoSweep
  \/ x \in Cancellers /\ CAt(x, "sweep")

\* Faulty variants: the grace period is one tick short, or only jobs whose
\* lease is still held are looked at.
AbandonedEarly(j)  == status[j] = "running" /\ hb[j] >= Grace
AbandonedLeased(j) == status[j] = "running" /\ hb[j] > Grace /\ lease[j] = "held"

Abandoned(j) == status[j] = "running" /\ hb[j] > Grace

\* late: the abandoned jobs that are also past their deadline.
SweepRead(x) ==
  /\ SweepDue(x)
  /\ \E late \in SUBSET {j \in Jobs : Abandoned(j)} :
       sweep' = [sweep EXCEPT ![x] = [j \in Jobs |->
                   IF ~Abandoned(j) THEN "none"
                   ELSE IF cancelReq[j] THEN "cancelled"
                   ELSE IF j \in late THEN "timed_out" ELSE "failed"]]
  /\ cpc' = [c \in Cancellers |->
               IF c # x THEN cpc[c]
               ELSE IF sweep'[x] = NoSweep THEN "idle" ELSE "sweepwrite"]
  /\ cjob' = [c \in Cancellers |-> IF c = x THEN NoJob ELSE cjob[c]]
  /\ UNCHANGED <<dbVars, up, slot, threadVars, seen, faultVars>>

SweepWrite(x) ==
  LET closed == {j \in Jobs : sweep[x][j] # "none"} IN
  /\ closed # {}
  /\ status' = [j \in Jobs |-> IF j \in closed THEN sweep[x][j] ELSE status[j]]
  /\ dstate' = [j \in Jobs |-> IF j \in closed THEN sweep[x][j] ELSE dstate[j]]
  /\ claimedBy' = [j \in Jobs |-> IF j \in closed THEN NoThread
                                  ELSE claimedBy[j]]
  /\ lease' = [j \in Jobs |-> IF j \in closed /\ lease[j] = "held"
                              THEN "released" ELSE lease[j]]
  /\ holder' = [j \in Jobs |-> IF j \in closed THEN NoThread ELSE holder[j]]
  /\ sweep' = [sweep EXCEPT ![x] = NoSweep]
  /\ cpc' = [c \in Cancellers |-> IF c = x THEN "idle" ELSE cpc[c]]
  /\ UNCHANGED <<results, hb, cancelReq, attempts, leaseAge, up, slot,
                 threadVars, cjob, seen, faultVars>>

-----------------------------------------------------------------------------
\* Failures and time.

\* A transaction of thread t raises.  In dispatch_scan nothing catches it once
\* the slot is reserved, so the slot stays taken; in supervise it decides the
\* verdict, or skips the rest of the epilogue.
DbFault(t) ==
  /\ up[Home[t]]
  /\ faults < MaxFaults
  /\ faults' = faults + 1
  /\ \/ /\ pc[t] \in {"insert", "notify", "dispatch", "claim", "unlease"}
        /\ Quit({t})
        /\ UNCHANGED slot
     \/ /\ pc[t] = "lease"
        /\ FreeSlot(t)
        /\ Goto(t, "unlease")
        /\ UNCHANGED <<tj, want, cancelEv, verdict, tries>>
     \/ /\ pc[t] \in {"start", "check", "tend", "persist", "write"}
        /\ verdict' = [verdict EXCEPT ![t] = "failed"]
        /\ Goto(t, "finish")
        /\ UNCHANGED <<slot, tj, want, cancelEv, tries>>
     \/ /\ pc[t] \in {"finish", "finwrite", "finalize"}
        /\ Goto(t, "release")
        /\ UNCHANGED <<slot, tj, want, cancelEv, verdict, tries>>
  /\ UNCHANGED <<dbVars, up, cancelVars, sweep, crashes>>

\* A process dies with its threads, its slot and everything they had read.
\* Worker processes it leaves behind stop by themselves and write nothing to
\* the database.
Crash(p) ==
  /\ up[p]
  /\ crashes < MaxCrashes
  /\ crashes' = crashes + 1
  /\ up' = [up EXCEPT ![p] = FALSE]
  /\ slot' = [slot EXCEPT ![p] = NoThread]
  /\ Quit({t \in Threads : Home[t] = p})
  /\ cpc' = [c \in Cancellers |-> IF Home[c] = p THEN "idle" ELSE cpc[c]]
  /\ cjob' = [c \in Cancellers |-> IF Home[c] = p THEN NoJob ELSE cjob[c]]
  /\ seen' = [c \in Cancellers |-> IF Home[c] = p THEN NotSeen ELSE seen[c]]
  /\ sweep' = [x \in Sweepers |->
                 IF x = p \/ (x \in Cancellers /\ Home[x] = p)
                 THEN NoSweep ELSE sweep[x]]
  /\ UNCHANGED <<dbVars, faults>>

\* The lifespan's start: reconcile_expired_leases, then the watchdog.
Restart(p) ==
  LET stale == {j \in Jobs : lease[j] = "held" /\ leaseAge[j] > TTL} IN
  /\ ~up[p]
  /\ up' = [up EXCEPT ![p] = TRUE]
  /\ lease' = [j \in Jobs |-> IF j \in stale THEN "released" ELSE lease[j]]
  /\ holder' = [j \in Jobs |-> IF j \in stale THEN NoThread ELSE holder[j]]
  /\ UNCHANGED <<jobVars, dispVars, leaseAge, slot, threadVars, cancelVars,
                 sweep, faultVars>>

\* One tick.  A thread at a prompt control point acts before its heartbeat is
\* older than the grace period.
Tick ==
  /\ \A t \in Threads : pc[t] \in Prompt => hb[tj[t]] < Grace
  /\ hb' = [j \in Jobs |-> IF claimedBy[j] = NoThread THEN hb[j]
                           ELSE Older(hb[j])]
  /\ leaseAge' = [j \in Jobs |-> IF lease[j] = "held" THEN Older(leaseAge[j])
                                 ELSE leaseAge[j]]
  /\ UNCHANGED <<jobVars, dstate, claimedBy, cancelReq, attempts, lease,
                 holder, up, slot, threadVars, cancelVars, sweep, faultVars>>

-----------------------------------------------------------------------------

Admit(t) == Notify(t) \/ DispatchRead(t) \/ Reserve(t) \/ AcquireLease(t)
              \/ Claim(t)
Supervise(t) ==
  \/ Launch(t) \/ WorkerDone(t) \/ WorkerBroken(t) \/ SeeCancel(t)
  \/ Renew(t) \/ Pass(t) \/ TimeOut(t) \/ Stop(t)
  \/ PersistCheck(t) \/ PersistWrite(t) \/ FinishRead(t) \/ FinishWrite(t)
  \/ Finalize(t) \/ ReleaseSlot(t) \/ ReleaseLease(t)
Thread(t) == EnqueueInsert(t) \/ Admit(t) \/ Supervise(t)
Cancel(c) == CancelRead(c) \/ CancelWrite(c)
Reconcile(x) == SweepRead(x) \/ SweepWrite(x)

Next ==
  \/ \E t \in Threads, r \in Repos : EnqueueCheck(t, r)
  \/ \E t \in Threads : Thread(t) \/ CleanupFails(t) \/ DbFault(t)
  \/ \E c \in Cancellers, j \in Jobs : CancelSignal(c, j)
  \/ \E c \in Cancellers : Cancel(c)
  \/ \E x \in Sweepers : Reconcile(x)
  \/ \E p \in Procs : Crash(p) \/ Restart(p)
  \/ Tick

Spec == Init /\ [][Next]_vars

\* Threads that run keep running, a started request is served, the watchdog
\* comes round every ten seconds, time passes, a dead process is restarted.
\* TimeOut is strongly fair: the loop tests its deadline on every round, and
\* a loop that goes round for ever meets it.  Nothing makes a user post.
Fairness ==
  /\ \A t \in Threads : WF_vars(Thread(t)) /\ SF_vars(TimeOut(t))
  /\ \A c \in Cancellers : WF_vars(Cancel(c))
  /\ \A x \in Sweepers : WF_vars(Reconcile(x))
  /\ \A p \in Procs : WF_vars(Restart(p))
  /\ WF_vars(Tick)

FairSpec == Spec /\ Fairness
=============================================================================
