-------------------------- MODULE ScanProperties --------------------------
(***************************************************************************)
(* What ScanControl is expected to guarantee, and what its documentation   *)
(* says of it.                                                             *)
(***************************************************************************)
EXTENDS ScanControl

\* Every variable of ScanControl keeps its type.
TypeJobs ==
  /\ status \in [Jobs -> Status]
  /\ results \in [Jobs -> Nat]
  /\ dstate \in [Jobs -> DState]
  /\ claimedBy \in [Jobs -> Threads \cup {NoThread}]
  /\ hb \in [Jobs -> 0..(TTL + 1)]
  /\ cancelReq \in [Jobs -> BOOLEAN]
  /\ attempts \in [Jobs -> Nat]
TypeLeases ==
  /\ lease \in [Jobs -> {"none", "held", "released"}]
  /\ holder \in [Jobs -> Threads \cup {NoThread}]
  /\ leaseAge \in [Jobs -> 0..(TTL + 1)]
TypeThreads ==
  /\ pc \in [Threads -> PC]
  /\ tj \in [Threads -> Jobs \cup {NoJob}]
  /\ \A t \in Threads : pc[t] \notin {"idle", "insert"} => tj[t] \in Jobs
  /\ want \in [Threads -> Repos \cup {NoRepo}]
  /\ \A t \in Threads : pc[t] = "insert" => want[t] \in Repos
  /\ cancelEv \in [Threads -> BOOLEAN]
  /\ verdict \in [Threads -> Terminal]
  /\ tries \in [Threads -> 0..2]
TypeCancels ==
  /\ cpc \in [Cancellers -> {"idle", "read", "write", "sweep", "sweepwrite"}]
  /\ cjob \in [Cancellers -> Jobs \cup {NoJob}]
  /\ \A c \in Cancellers : cpc[c] \in {"read", "write"} => cjob[c] \in Jobs
  /\ seen \in [Cancellers -> DState \X Status]
TypeProcs ==
  /\ up \in [Procs -> BOOLEAN]
  /\ slot \in [Procs -> Threads \cup {NoThread}]
  /\ sweep \in [Sweepers -> [Jobs -> Terminal \cup {"none"}]]
  /\ crashes \in 0..MaxCrashes
  /\ faults \in 0..MaxFaults
TypeOK ==
  TypeJobs /\ TypeLeases /\ TypeThreads /\ TypeCancels /\ TypeProcs

-----------------------------------------------------------------------------
\* Admission.

\* Two scans never run in one process: a thread between reserve() and
\* release() owns the slot of its process.
OneScanPerProcess ==
  \A t \in Threads : pc[t] \in Holding => slot[Home[t]] = t

\* No two threads supervise the same job, however late they are, although
\* claims can expire and be taken over.
SingleSupervisor ==
  \A t, u \in Threads :
    t # u /\ pc[t] \in Supervising /\ pc[u] \in Supervising => tj[t] # tj[u]

\* A job is claimed at most once, and a result is stored at most once per
\* claim, so assets are never duplicated.
AtMostOnce == \A j \in Jobs : attempts[j] <= 1 /\ results[j] <= attempts[j]

\* The outbox row, the lease and the supervisor agree with the job, whatever is
\* committed between the reads and the writes of dispatchers, cancellations and
\* sweeps: what is shown as queued can be claimed, what runs has an owner whom
\* the watchdog can hold to account, and, while nothing fails, an open claim and
\* an unreleased lease belong to a thread that is on its way to close them.
QueuedIsClaimable ==
  \A j \in Jobs : status[j] = "queued" =>
    dstate[j] = "pending" /\ claimedBy[j] = NoThread /\ attempts[j] = 0
RunningIsOwned ==
  \A j \in Jobs : status[j] = "running" =>
    dstate[j] \in {"claimed", "cancel_requested"} /\ claimedBy[j] # NoThread
ClaimHasOwner ==
  crashes = 0 /\ faults = 0 => \A j \in Jobs :
    /\ claimedBy[j] # NoThread =>
         tj[claimedBy[j]] = j /\ pc[claimedBy[j]] \in Supervising
    /\ lease[j] = "held" =>
         /\ tj[holder[j]] = j
         /\ pc[holder[j]] \in Holding \cup {"unlease"}
OutboxAgrees == QueuedIsClaimable /\ RunningIsOwned /\ ClaimHasOwner

-----------------------------------------------------------------------------
\* Outcomes.

\* A cancelled scan that no worker has claimed is never claimed afterwards:
\* once the request is recorded, the number of claims is final.
CancelStopsClaims ==
  [][\A j \in Jobs : cancelReq[j] => attempts'[j] = attempts[j]]_vars

\* A scan shown as completed has its result.
CompletedHasResult ==
  \A j \in Jobs : status[j] = "completed" => results[j] = 1

\* When supervisors keep up, only a cancellation that read the job before it
\* was claimed can disown a result that is stored.
ResultIsShown ==
  \A j \in Jobs : results[j] > 0 =>
    status[j] = "completed" \/ (status[j] = "cancelled" /\ cancelReq[j])

\* The thread that supervises each job.
Supervises(t, j) == pc[t] \in Supervising /\ tj[t] = j
SupervisorOf == [j \in Jobs |->
  IF \E t \in Threads : Supervises(t, j)
  THEN CHOOSE t \in Threads : Supervises(t, j) ELSE NoThread]

\* The claim protocol implements its abstract promise: whatever crashes, stalls
\* or is cancelled, a job is given to one supervisor and stored by it once.
Once == INSTANCE OneShotScan WITH
  Job <- Jobs, Runner <- Threads, Nobody <- NoThread,
  given <- {j \in Jobs : attempts[j] > 0},
  runner <- SupervisorOf,
  delivered <- {j \in Jobs : results[j] > 0}
OneShot == Once!Spec

\* When supervisors keep up and nobody cancels, the job's row goes through the
\* documented life and no outcome is ever revised.
Stage(s) == IF s \in {"failed", "cancelled", "timed_out"} THEN "closed" ELSE s
Life == INSTANCE ScanLifecycle WITH
  Job <- Jobs,
  stage <- [j \in Jobs |-> Stage(status[j])],
  hasResult <- [j \in Jobs |-> results[j] > 0]
Lifecycle == Life!Spec

\* Where the outline sees a thread that is at control point l.
StepOf(l) ==
  IF l \in {"start", "check", "tend", "stop"} THEN l
  ELSE IF l \in {"persist", "write"} THEN "hand_in"
  ELSE IF l \in {"finish", "finwrite", "finalize"} THEN "over"
  ELSE "idle"

\* Each thread supervises as SupervisionOutline says, which WorkerSupervision
\* implements with processes and files.
Course(t) == INSTANCE SupervisionOutline WITH
  Launches <- 2,
  step <- StepOf(pc[t]),
  verdict <- IF pc[t] \in Supervising THEN verdict[t] ELSE "failed",
  launches <- IF pc[t] \in Supervising THEN tries[t] ELSE 0
FollowsOutline ==
  /\ \A t \in Threads : Course(t)!Init
  /\ [][\A t \in Threads : [Course(t)!Next]_(Course(t)!outlineVars)]_vars

-----------------------------------------------------------------------------
\* Progress.

\* A running scan comes to an end, whatever becomes of its supervisor.
RunningTerminates ==
  \A j \in Jobs : status[j] = "running" ~> status[j] \in Terminal

\* A recorded cancellation takes effect.
CancelTakesEffect == \A j \in Jobs : cancelReq[j] ~> status[j] \in Terminal

\* A process that is scanning becomes free for the next scan.
SlotIsFreed == \A p \in Procs : slot[p] # NoThread ~> slot[p] = NoThread

-----------------------------------------------------------------------------
\* Statements of the documentation that the code does not keep.

\* backend/tests/test_scan_admission.py:49: "Repeated start requests must not
\* create duplicate queued scans."
NoDuplicateScan ==
  \A j, k \in Jobs : j # k /\ RepoOf[j] = RepoOf[k] =>
    ~(status[j] \in Active /\ status[k] \in Active)

\* backend/services/scan_control.py:398: "A stale process must not be allowed
\* to persist a result after this transition."
NoStaleResult ==
  [][\A j \in Jobs : status[j] \in Terminal => results'[j] = results[j]]_vars

\* backend/services/scan_lease.py:5-6: "a worker that crashes or is replaced
\* releases nothing, but the lease expires automatically."
ExpiredLeaseIsRecoverable ==
  [][\A t \in Threads :
       AcquireLease(t) /\ leaseAge[tj[t]] > TTL => holder'[tj[t]] = t]_vars

\* docs/IMPLEMENTATION.md:170: "A process crash cannot leave a job permanently
\* active."
NeverActiveForever == \A j \in Jobs : status[j] \in Active ~> status[j] \in Terminal
=============================================================================
