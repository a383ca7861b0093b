--------------------------- MODULE ScanOnceProofs ---------------------------
(***************************************************************************)
(* A scan job is executed at most once, its outbox row and its owner agree *)
(* with it, and a completed job has a result, for every value of the       *)
(* constants of ScanControl.  With a supervisor that keeps up no stored    *)
(* result is disowned, and without cancellations the job's row goes        *)
(* through ScanLifecycle.                                                  *)
(***************************************************************************)
EXTENDS ScanSafetyProofs

USE DEF jobVars, dispVars, leaseVars, threadVars, cancelVars, faultVars, dbVars

-----------------------------------------------------------------------------
\* A job is executed at most once: ScanControl implements OneShotScan.

\* Control points of the threads that have acquired their job's lease.
Leased == {"claim", "release"} \cup Supervising

\* The inductive invariant: a lease row, once there, never goes away, so only
\* one thread ever gets past acquire_lease for a job.
LeaseGuards ==
  /\ \A t \in Threads : pc[t] \in Leased => lease[tj[t]] # "none"
  /\ \A j \in Jobs : lease[j] = "none" => attempts[j] = 0
OneLeased ==
  \A t, u \in Threads :
    t # u /\ pc[t] \in Leased /\ pc[u] \in Leased => tj[t] # tj[u]
AttemptCounted ==
  \A t \in Threads :
    /\ pc[t] = "claim" => attempts[tj[t]] = 0
    /\ pc[t] \in Supervising => attempts[tj[t]] = 1
    /\ pc[t] = "write" => results[tj[t]] = 0
OnceInv == LeaseGuards /\ OneLeased /\ AttemptCounted /\ AtMostOnce

\* A step that neither acquires a lease nor claims a job nor stores a result:
\* threads go on with what they have or drop it.
GoesOn(u, l) ==
  /\ pc[u] \in Leased
  /\ l = "claim" => pc[u] = "claim"
  /\ l \in Supervising => pc[u] \in Supervising
  /\ l = "write" => results[tj[u]] = 0
Calm ==
  /\ UNCHANGED <<attempts, results>>
  /\ \A j \in Jobs : lease'[j] = "none" <=> lease[j] = "none"
  /\ \A u \in Threads : pc'[u] \in Leased =>
       tj'[u] = tj[u] /\ GoesOn(u, pc'[u])

LEMMA LeasedHasJob ==
  ASSUME TypeOK PROVE \A t \in Threads : pc[t] \in Leased => tj[t] \in Jobs
  BY DEF TypeOK, TypeThreads, Leased, Supervising

LEMMA SupervisingLeased == Supervising \subseteq Leased /\ "write" \in Supervising
                             /\ "claim" \notin Supervising
  BY DEF Leased, Supervising

LEMMA OnceCalm == ASSUME TypeOK, OnceInv, Calm PROVE OnceInv'
<1>1. LeaseGuards'
  BY LeasedHasJob DEF OnceInv, LeaseGuards, Calm, GoesOn
<1>2. OneLeased'
  BY DEF OnceInv, OneLeased, Calm, GoesOn
<1>3. AttemptCounted'
  BY SupervisingLeased DEF OnceInv, AttemptCounted, Calm, GoesOn, Leased
<1>4. AtMostOnce'
  BY DEF OnceInv, AtMostOnce, Calm
<1> QED BY <1>1, <1>2, <1>3, <1>4 DEF OnceInv

-----------------------------------------------------------------------------
\* The steps that are calm.

LEMMA CalmGoto ==
  ASSUME TypeOK, OnceInv, NEW t \in Threads, NEW l, Goto(t, l),
         UNCHANGED <<tj, attempts, results>>,
         \A j \in Jobs : lease'[j] = "none" <=> lease[j] = "none",
         l \in Leased => GoesOn(t, l)
  PROVE  Calm
<1>1. \A u \in Threads \ {t} : pc'[u] = pc[u] /\ tj'[u] = tj[u]
  BY DEF Goto, TypeOK, TypeThreads
<1>2. pc'[t] = l
  BY DEF Goto, TypeOK, TypeThreads
<1>3. ASSUME NEW u \in Threads \ {t}, pc'[u] \in Leased
      PROVE  tj'[u] = tj[u] /\ GoesOn(u, pc'[u])
  BY <1>1, <1>3 DEF GoesOn, OnceInv, AttemptCounted
<1> QED BY <1>2, <1>3 DEF Calm

\* Nobody moves towards a lease, or some threads are gone.
LEMMA CalmStill ==
  ASSUME TypeOK, OnceInv, UNCHANGED <<attempts, results>>,
         \A j \in Jobs : lease'[j] = "none" <=> lease[j] = "none",
         UNCHANGED <<pc, tj>> \/ \E S : Quit(S)
  PROVE  Calm
<1> SUFFICES ASSUME NEW u \in Threads, pc'[u] \in Leased
             PROVE  tj'[u] = tj[u] /\ GoesOn(u, pc'[u])
  BY DEF Calm
<1>1. pc'[u] = pc[u] /\ tj'[u] = tj[u]
  BY DEF Quit, Leased, Supervising
<1> QED BY <1>1 DEF GoesOn, OnceInv, AttemptCounted

LEMMA CalmAdmit ==
  ASSUME TypeOK, OnceInv, NEW t \in Threads,
         Notify(t) \/ DispatchRead(t) \/ Reserve(t)
  PROVE  Calm
<1>1. UNCHANGED <<attempts, results, lease>>
  BY DEF Notify, DispatchRead, Reserve
<1>2. \/ \E l : Goto(t, l) /\ l \notin Leased /\ UNCHANGED tj
      \/ Quit({t})
  BY DEF Notify, DispatchRead, Reserve, Leased, Supervising
<1> QED BY <1>1, <1>2, CalmGoto, CalmStill

LEMMA CalmSupervise ==
  ASSUME TypeOK, OnceInv, NEW t \in Threads, Supervise(t), ~PersistWrite(t)
  PROVE  Calm
<1>0. pc[t] \in Supervising => pc[t] \in Leased
  BY SupervisingLeased
<1>1. ASSUME NEW l, Goto(t, l), UNCHANGED <<tj, attempts, results, lease>>,
             pc[t] \in Supervising, l \in Supervising \ {"write"}
      PROVE  Calm
  BY <1>0, <1>1, CalmGoto DEF GoesOn, Supervising
<1>2. CASE Launch(t) \/ WorkerDone(t) \/ SeeCancel(t) \/ Pass(t) \/ TimeOut(t)
  BY <1>1, <1>2 DEF Launch, WorkerDone, SeeCancel, Pass, TimeOut, At, Local,
                    Supervising
<1>3. CASE WorkerBroken(t)
  <2>1. Goto(t, "check") \/ Goto(t, "finish")
    BY <1>3 DEF WorkerBroken, At, Goto, TypeOK, TypeThreads
  <2> QED BY <1>1, <1>3, <2>1 DEF WorkerBroken, At, Local, Supervising
<1>4. CASE Renew(t) \/ Stop(t)
  BY <1>1, <1>4 DEF Renew, Stop, At, Local, Supervising
<1>5. CASE FinishRead(t) \/ FinishWrite(t)
  BY <1>1, <1>5 DEF FinishRead, FinishWrite, At, Local, Supervising
<1>6. CASE PersistCheck(t)
  <2>1. UNCHANGED <<tj, attempts, results, lease>> /\ pc[t] = "persist"
    BY <1>6 DEF PersistCheck, Local, At
  <2>2. CASE Goto(t, "finish")
    BY <1>1, <2>1, <2>2 DEF Supervising
  <2>3. CASE Goto(t, "write") /\ results[tj[t]] = 0
    BY <2>1, <2>3, CalmGoto DEF GoesOn, Leased, Supervising
  <2> QED BY <1>6, <2>2, <2>3 DEF PersistCheck
<1>7. CASE Finalize(t)
  <2>1. UNCHANGED <<tj, attempts, results, lease>> /\ pc[t] = "finalize"
    BY <1>7 DEF Finalize, Local, At
  <2> QED BY <1>7, <2>1, CalmGoto DEF Finalize, GoesOn, Leased, Supervising
<1>8. CASE ReleaseSlot(t)
  <2>1. UNCHANGED <<tj, attempts, results, lease>>
    BY <1>8 DEF ReleaseSlot
  <2> QED BY <1>8, <2>1, CalmGoto DEF ReleaseSlot, Leased, Supervising
<1>9. CASE ReleaseLease(t)
  <2>1. UNCHANGED <<attempts, results>> /\ Quit({t})
    BY <1>9 DEF ReleaseLease
  <2>2. \A j \in Jobs : lease'[j] = "none" <=> lease[j] = "none"
    BY <1>9 DEF ReleaseLease, TypeOK, TypeLeases
  <2> QED BY <2>1, <2>2, CalmStill
<1> QED BY <1>2, <1>3, <1>4, <1>5, <1>6, <1>7, <1>8, <1>9 DEF Supervise

LEMMA CalmFault ==
  ASSUME TypeOK, OnceInv, NEW t \in Threads, DbFault(t)
  PROVE  Calm
<1>1. UNCHANGED <<attempts, results, lease>>
  BY DEF DbFault
<1>2. CASE Quit({t})
  BY <1>1, <1>2, CalmStill
<1>3. CASE Goto(t, "unlease") /\ UNCHANGED tj
  BY <1>1, <1>3, CalmGoto DEF Leased, Supervising
<1>4. CASE /\ pc[t] \in Supervising
           /\ Goto(t, "finish") \/ Goto(t, "release")
           /\ UNCHANGED tj
  BY <1>1, <1>4, CalmGoto DEF GoesOn, Leased, Supervising
<1> QED BY <1>2, <1>3, <1>4 DEF DbFault, Supervising

LEMMA CalmOthers ==
  ASSUME TypeOK, OnceInv,
         \/ \E c \in Cancellers : Cancel(c) \/ \E j \in Jobs : CancelSignal(c, j)
         \/ \E x \in Sweepers : Reconcile(x)
         \/ \E p \in Procs : Crash(p) \/ Restart(p)
         \/ \E t \in Threads : CleanupFails(t)
         \/ Tick
         \/ UNCHANGED vars
  PROVE  Calm
<1>1. UNCHANGED <<attempts, results>>
  BY DEF Cancel, CancelSignal, CancelRead, CancelWrite, Reconcile, SweepRead,
         SweepWrite, Crash, Restart, CleanupFails, Local, Tick, vars
<1>2. UNCHANGED <<pc, tj>> \/ \E S : Quit(S)
  BY DEF Cancel, CancelSignal, CancelRead, CancelWrite, Reconcile, SweepRead,
         SweepWrite, Crash, Restart, CleanupFails, Local, Tick, vars
<1>3. \A j \in Jobs : lease'[j] = "none" <=> lease[j] = "none"
  <2>1. ASSUME NEW x \in Sweepers, SweepWrite(x)
        PROVE  \A j \in Jobs : lease'[j] = "none" <=> lease[j] = "none"
    BY <2>1 DEF SweepWrite
  <2>2. ASSUME NEW p \in Procs, Restart(p)
        PROVE  \A j \in Jobs : lease'[j] = "none" <=> lease[j] = "none"
    BY <2>2 DEF Restart
  <2>3. \/ UNCHANGED lease
        \/ \E x \in Sweepers : SweepWrite(x)
        \/ \E p \in Procs : Restart(p)
    BY DEF Cancel, CancelSignal, CancelRead, CancelWrite, Reconcile, SweepRead,
           Crash, CleanupFails, Tick, vars
  <2> QED BY <2>1, <2>2, <2>3
<1> QED BY <1>1, <1>2, <1>3, CalmStill

\* Only three actions matter to the claim protocol.
Acquired(t) == AcquireLease(t) /\ LeaseFree(tj[t])
Claimed(t)  == Claim(t) /\ Claimable(tj[t])

LEMMA CalmNext ==
  ASSUME TypeOK, OnceInv, [Next]_vars
  PROVE  Calm \/ \E t \in Threads : Acquired(t) \/ Claimed(t) \/ PersistWrite(t)
<1>1. ASSUME NEW t \in Threads, NEW r \in Repos, EnqueueCheck(t, r) PROVE Calm
  <2>1. UNCHANGED <<attempts, results, lease>>
    BY <1>1 DEF EnqueueCheck
  <2>2. \A u \in Threads : pc'[u] \in Leased => u # t /\ pc'[u] = pc[u]
    BY <1>1 DEF EnqueueCheck, Goto, Leased, Supervising, TypeOK, TypeThreads
  <2>3. \A u \in Threads \ {t} : tj'[u] = tj[u]
    BY <1>1 DEF EnqueueCheck, TypeOK, TypeThreads
  <2> QED BY <2>1, <2>2, <2>3 DEF Calm, GoesOn, OnceInv, AttemptCounted
<1>2. ASSUME NEW t \in Threads, EnqueueInsert(t) PROVE Calm
  <2>1. UNCHANGED <<attempts, results, lease>>
    BY <1>2 DEF EnqueueInsert
  <2>2. \A u \in Threads : pc'[u] \in Leased => u # t /\ pc'[u] = pc[u]
    BY <1>2 DEF EnqueueInsert, Goto, Leased, Supervising, TypeOK, TypeThreads
  <2>3. \A u \in Threads \ {t} : tj'[u] = tj[u]
    BY <1>2 DEF EnqueueInsert, TypeOK, TypeThreads
  <2> QED BY <2>1, <2>2, <2>3 DEF Calm, GoesOn, OnceInv, AttemptCounted
<1>3. ASSUME NEW t \in Threads, AcquireLease(t), ~LeaseFree(tj[t]) PROVE Calm
  <2>1. UNCHANGED <<tj, attempts, results, lease>> /\ Goto(t, "unlease")
    BY <1>3 DEF AcquireLease
  <2> QED BY <2>1, CalmGoto DEF Leased, Supervising
<1>4. ASSUME NEW t \in Threads, Claim(t), ~Claimable(tj[t]) PROVE Calm
  <2>1. UNCHANGED <<tj, attempts, results, lease>> /\ Goto(t, "unlease")
    BY <1>4 DEF Claim
  <2> QED BY <2>1, CalmGoto DEF Leased, Supervising
<1>5. ASSUME NEW t \in Threads, Thread(t)
      PROVE  Calm \/ Acquired(t) \/ Claimed(t) \/ PersistWrite(t)
  BY <1>2, <1>3, <1>4, <1>5, CalmAdmit, CalmSupervise
  DEF Thread, Admit, Acquired, Claimed
<1> QED BY <1>1, <1>5, CalmFault, CalmOthers DEF Next

-----------------------------------------------------------------------------
\* The three steps that are not.

LEMMA OnceAcquire ==
  ASSUME TypeOK, OnceInv, NEW t \in Threads, Acquired(t)
  PROVE  OnceInv'
<1> DEFINE j == tj[t]
<1>1. /\ j \in Jobs /\ lease[j] = "none" /\ attempts[j] = 0
      /\ UNCHANGED <<tj, attempts, results>>
  <2>1. j \in Jobs
    BY HasJob DEF Acquired, AcquireLease, TypeOK, PC, Holding
  <2> QED BY <2>1 DEF Acquired, AcquireLease, LeaseFree, OnceInv, LeaseGuards
<1>2. /\ lease'[j] = "held"
      /\ \A k \in Jobs \ {j} : lease'[k] = lease[k]
  BY <1>1 DEF Acquired, AcquireLease, TypeOK, TypeLeases
<1>3. pc'[t] = "claim" /\ \A u \in Threads \ {t} : pc'[u] = pc[u]
  BY DEF Acquired, AcquireLease, Goto, TypeOK, TypeThreads
<1>4. \A u \in Threads \ {t} : pc[u] \in Leased => tj[u] \in Jobs /\ tj[u] # j
  BY <1>1, LeasedHasJob DEF OnceInv, LeaseGuards
<1> HIDE DEF j
<1>5. LeaseGuards'
  BY <1>1, <1>2, <1>3, <1>4 DEF j, OnceInv, LeaseGuards
<1>6. OneLeased'
  BY <1>1, <1>3, <1>4 DEF j, OnceInv, OneLeased
<1>7. AttemptCounted'
  BY <1>1, <1>3, SupervisingLeased DEF j, OnceInv, AttemptCounted
<1>8. AtMostOnce'
  BY <1>1 DEF OnceInv, AtMostOnce
<1> QED BY <1>5, <1>6, <1>7, <1>8 DEF OnceInv

LEMMA OnceClaim ==
  ASSUME TypeOK, OnceInv, NEW t \in Threads, Claimed(t)
  PROVE  OnceInv'
<1> DEFINE j == tj[t]
<1>1. /\ pc[t] = "claim" /\ j \in Jobs /\ lease[j] # "none" /\ attempts[j] = 0
      /\ UNCHANGED <<tj, results, lease>>
  BY LeasedHasJob DEF Claimed, Claim, At, Leased, OnceInv, LeaseGuards,
                      AttemptCounted
<1>2. /\ attempts'[j] = 1
      /\ \A k \in Jobs \ {j} : attempts'[k] = attempts[k]
  BY <1>1 DEF Claimed, Claim, TypeOK, TypeJobs
<1>3. pc'[t] = "start" /\ \A u \in Threads \ {t} : pc'[u] = pc[u]
  BY DEF Claimed, Claim, Goto, TypeOK, TypeThreads
<1>4. \A u \in Threads \ {t} : pc[u] \in Leased => tj[u] \in Jobs /\ tj[u] # j
  BY <1>1, LeasedHasJob DEF OnceInv, OneLeased, Leased
<1> HIDE DEF j
<1>5. LeaseGuards'
  BY <1>1, <1>2, <1>3 DEF j, OnceInv, LeaseGuards
<1>6. OneLeased'
  BY <1>1, <1>3, <1>4 DEF j, OnceInv, OneLeased
<1>7. AttemptCounted'
  BY <1>1, <1>2, <1>3, <1>4, SupervisingLeased
  DEF j, OnceInv, AttemptCounted, Leased
<1>8. AtMostOnce'
  BY <1>1, <1>2 DEF OnceInv, AtMostOnce, TypeOK, TypeJobs
<1> QED BY <1>5, <1>6, <1>7, <1>8 DEF OnceInv

LEMMA OnceWrite ==
  ASSUME TypeOK, OnceInv, NEW t \in Threads, PersistWrite(t)
  PROVE  OnceInv'
<1> DEFINE j == tj[t]
<1>1. /\ pc[t] = "write" /\ pc[t] \in Supervising /\ pc[t] \in Leased
      /\ UNCHANGED <<tj, attempts, lease>>
  BY DEF PersistWrite, At, Leased, Supervising, Local
<1>2. j \in Jobs /\ attempts[j] = 1 /\ results[j] = 0
  BY <1>1, LeasedHasJob DEF OnceInv, AttemptCounted
<1>3. /\ results'[j] = 1
      /\ \A k \in Jobs \ {j} : results'[k] = results[k]
  BY <1>2 DEF PersistWrite, TypeOK, TypeJobs
<1>4. pc'[t] = "finish" /\ \A u \in Threads \ {t} : pc'[u] = pc[u]
  BY DEF PersistWrite, Goto, TypeOK, TypeThreads
<1>5. \A u \in Threads \ {t} : pc[u] \in Leased => tj[u] \in Jobs /\ tj[u] # j
  BY <1>1, LeasedHasJob DEF OnceInv, OneLeased
<1> HIDE DEF j
<1>6. LeaseGuards'
  BY <1>1, <1>4 DEF OnceInv, LeaseGuards, Leased, Supervising
<1>7. OneLeased'
  BY <1>1, <1>4 DEF OnceInv, OneLeased
<1>8. AttemptCounted'
  BY <1>1, <1>2, <1>3, <1>4, <1>5, SupervisingLeased
  DEF j, OnceInv, AttemptCounted
<1>9. AtMostOnce'
  BY <1>1, <1>2, <1>3 DEF OnceInv, AtMostOnce
<1> QED BY <1>6, <1>7, <1>8, <1>9 DEF OnceInv

LEMMA OnceInit == Init => OnceInv
  BY DEF Init, OnceInv, LeaseGuards, OneLeased, AttemptCounted, AtMostOnce,
         Leased, Supervising

LEMMA OnceNext == ASSUME TypeOK, OnceInv, [Next]_vars PROVE OnceInv'
  BY CalmNext, OnceCalm, OnceAcquire, OnceClaim, OnceWrite

THEOREM OnceInvariant == Spec => []OnceInv
<1>1. TypeOK /\ OnceInv /\ [Next]_vars => OnceInv'
  BY OnceNext
<1> QED BY <1>1, OnceInit, TypeCorrect, PTL DEF Spec

\* A job is claimed once and its assets are written once, however many
\* dispatchers, crashes, stalls and expired leases there are.
THEOREM ScannedAtMostOnce == Spec => []AtMostOnce
<1>1. OnceInv => AtMostOnce
  BY DEF OnceInv
<1> QED BY <1>1, OnceInvariant, PTL

\* No two threads ever supervise the same job.
THEOREM SupervisorIsUnique == Spec => []SingleSupervisor
<1>1. OnceInv => SingleSupervisor
  BY SupervisingLeased DEF OnceInv, OneLeased, SingleSupervisor
<1> QED BY <1>1, OnceInvariant, PTL

-----------------------------------------------------------------------------
\* The refinement.  OneShotScan's runner of a job is its unique supervisor.

LEMMA SupervisorType == SupervisorOf \in [Jobs -> Threads \cup {NoThread}]
<1> SUFFICES ASSUME NEW j \in Jobs PROVE SupervisorOf[j] \in Threads \cup {NoThread}
  BY DEF SupervisorOf
<1>1. CASE \E t \in Threads : Supervises(t, j)
  BY <1>1 DEF SupervisorOf
<1>2. CASE ~\E t \in Threads : Supervises(t, j)
  BY <1>2 DEF SupervisorOf
<1> QED BY <1>1, <1>2

LEMMA SupervisorIs ==
  ASSUME OneLeased, NEW t \in Threads, NEW j \in Jobs, Supervises(t, j)
  PROVE  SupervisorOf[j] = t
<1>1. \A u \in Threads : Supervises(u, j) => u = t
  BY SupervisingLeased DEF OneLeased, Supervises
<1> QED BY <1>1 DEF SupervisorOf

LEMMA SupervisorNone ==
  ASSUME NEW j \in Jobs, \A t \in Threads : ~Supervises(t, j)
  PROVE  SupervisorOf[j] = NoThread
  BY DEF SupervisorOf

\* The same facts about the next state.
LEMMA SupervisorIsNext ==
  ASSUME OneLeased', NEW t \in Threads, NEW j \in Jobs, Supervises(t, j)'
  PROVE  SupervisorOf'[j] = t
<1>1. \A u \in Threads : Supervises(u, j)' => u = t
  BY SupervisingLeased DEF OneLeased, Supervises
<1> QED BY <1>1 DEF SupervisorOf

LEMMA SupervisorNoneNext ==
  ASSUME NEW j \in Jobs, \A t \in Threads : ~Supervises(t, j)'
  PROVE  SupervisorOf'[j] = NoThread
  BY DEF SupervisorOf

\* Supervision of some jobs ends: OneShotScan's Leave, or a stutter.
LEMMA LeaveStep ==
  ASSUME OneLeased, OneLeased', UNCHANGED <<attempts, results>>,
         \A t \in Threads : pc'[t] \in Supervising =>
           pc[t] \in Supervising /\ tj'[t] = tj[t]
  PROVE  [Once!Next]_Once!onceVars
<1> DEFINE S == {j \in Jobs : SupervisorOf'[j] # SupervisorOf[j]}
<1>1. ASSUME NEW j \in Jobs
      PROVE  SupervisorOf'[j] = SupervisorOf[j] \/ SupervisorOf'[j] = NoThread
  <2>1. CASE \E t \in Threads : Supervises(t, j)'
    <3>1. PICK t \in Threads : Supervises(t, j)'
      BY <2>1
    <3>2. Supervises(t, j)
      BY <3>1 DEF Supervises
    <3> QED BY <3>1, <3>2, SupervisorIs, SupervisorIsNext
  <2>2. CASE \A t \in Threads : ~Supervises(t, j)'
    BY <2>2, SupervisorNoneNext
  <2> QED BY <2>1, <2>2
<1>2. SupervisorOf' = [j \in Jobs |-> IF j \in S THEN NoThread ELSE SupervisorOf[j]]
  BY <1>1 DEF SupervisorOf
<1>3. UNCHANGED <<{j \in Jobs : attempts[j] > 0}, {j \in Jobs : results[j] > 0}>>
  OBVIOUS
<1>4. CASE S = {}
  <2>1. SupervisorOf' = SupervisorOf
    BY <1>2, <1>4 DEF SupervisorOf
  <2> QED BY <1>3, <2>1 DEF Once!onceVars
<1>5. CASE S # {}
  <2>1. S \in SUBSET Jobs
    OBVIOUS
  <2>2. Once!Leave(S)
    BY <1>2, <1>3, <1>5 DEF Once!Leave
  <2> QED BY <2>1, <2>2 DEF Once!Next
<1> QED BY <1>4, <1>5

\* A committed claim gives the job to its dispatcher.
LEMMA GiveStep ==
  ASSUME TypeOK, OnceInv, OnceInv', NEW t \in Threads, Claimed(t)
  PROVE  Once!Next
<1> DEFINE j == tj[t]
<1>1. /\ pc[t] = "claim" /\ j \in Jobs /\ attempts[j] = 0
      /\ UNCHANGED <<tj, results>>
  BY LeasedHasJob DEF Claimed, Claim, At, Leased, OnceInv, AttemptCounted
<1>2. attempts' = [attempts EXCEPT ![j] = 1]
  BY <1>1 DEF Claimed, Claim, TypeOK, TypeJobs
<1>3. pc'[t] = "start" /\ \A u \in Threads \ {t} : pc'[u] = pc[u]
  BY DEF Claimed, Claim, Goto, TypeOK, TypeThreads
<1>4. \A u \in Threads, k \in Jobs :
        Supervises(u, k)' <=> Supervises(u, k) \/ (u = t /\ k = j)
  BY <1>1, <1>3 DEF Supervises, Supervising
<1> HIDE DEF j
<1>5. SupervisorOf'[j] = t
  BY <1>1, <1>4, SupervisorIsNext DEF OnceInv
<1>6. ASSUME NEW k \in Jobs \ {j} PROVE SupervisorOf'[k] = SupervisorOf[k]
  <2>1. \A u \in Threads : Supervises(u, k)' <=> Supervises(u, k)
    BY <1>4
  <2>2. CASE \E u \in Threads : Supervises(u, k)
    <3>1. PICK u \in Threads : Supervises(u, k)
      BY <2>2
    <3>2. Supervises(u, k)'
      BY <2>1, <3>1
    <3> QED BY <3>1, <3>2, SupervisorIs, SupervisorIsNext DEF OnceInv
  <2>3. CASE \A u \in Threads : ~Supervises(u, k)
    BY <2>1, <2>3, SupervisorNone, SupervisorNoneNext
  <2> QED BY <2>2, <2>3
<1>7. SupervisorOf' = [SupervisorOf EXCEPT ![j] = t]
  <2>1. /\ SupervisorOf = [k \in Jobs |-> SupervisorOf[k]]
        /\ SupervisorOf' = [k \in Jobs |-> SupervisorOf'[k]]
    BY DEF SupervisorOf
  <2> QED BY <1>1, <1>5, <1>6, <2>1
<1>8. {k \in Jobs : attempts'[k] > 0} = {k \in Jobs : attempts[k] > 0} \cup {j}
  BY <1>1, <1>2 DEF TypeOK, TypeJobs
<1>9. j \notin {k \in Jobs : attempts[k] > 0}
  BY <1>1
<1> QED BY <1>1, <1>7, <1>8, <1>9 DEF Once!Next, Once!Give

\* Storing the assets delivers the result of the job's only supervisor.
LEMMA DeliverStep ==
  ASSUME TypeOK, OnceInv, OnceInv', NEW t \in Threads, PersistWrite(t)
  PROVE  Once!Next
<1> DEFINE j == tj[t]
<1>1. pc[t] = "write" /\ pc[t] \in Supervising /\ UNCHANGED <<tj, attempts>>
  BY DEF PersistWrite, At, Supervising, Local
<1>2. j \in Jobs /\ results[j] = 0
  BY <1>1, LeasedHasJob, SupervisingLeased DEF OnceInv, AttemptCounted
<1>3. results' = [results EXCEPT ![j] = 1]
  BY <1>2 DEF PersistWrite, TypeOK, TypeJobs
<1>4. pc'[t] \in Supervising /\ \A u \in Threads \ {t} : pc'[u] = pc[u]
  BY DEF PersistWrite, Goto, TypeOK, TypeThreads, Supervising
<1>5. \A u \in Threads, k \in Jobs : Supervises(u, k)' <=> Supervises(u, k)
  BY <1>1, <1>4 DEF Supervises
<1> HIDE DEF j
<1>6. SupervisorOf[j] # NoThread
  <2>1. Supervises(t, j)
    BY <1>1 DEF j, Supervises
  <2> QED BY <1>2, <2>1, SupervisorIs, ThreadsAssumption DEF OnceInv
<1>7. SupervisorOf' = SupervisorOf
  <2>1. ASSUME NEW k \in Jobs PROVE SupervisorOf'[k] = SupervisorOf[k]
    <3>1. CASE \E u \in Threads : Supervises(u, k)
      <4>1. PICK u \in Threads : Supervises(u, k)
        BY <3>1
      <4>2. Supervises(u, k)'
        BY <1>5, <4>1
      <4> QED BY <4>1, <4>2, SupervisorIs, SupervisorIsNext DEF OnceInv
    <3>2. CASE \A u \in Threads : ~Supervises(u, k)
      BY <1>5, <3>2, SupervisorNone, SupervisorNoneNext
    <3> QED BY <3>1, <3>2
  <2>2. /\ SupervisorOf = [k \in Jobs |-> SupervisorOf[k]]
        /\ SupervisorOf' = [k \in Jobs |-> SupervisorOf'[k]]
    BY DEF SupervisorOf
  <2> QED BY <2>1, <2>2
<1>8. {k \in Jobs : results'[k] > 0} = {k \in Jobs : results[k] > 0} \cup {j}
  BY <1>2, <1>3 DEF TypeOK, TypeJobs
<1>9. j \notin {k \in Jobs : results[k] > 0}
  BY <1>2
<1>10. UNCHANGED {k \in Jobs : attempts[k] > 0}
  BY <1>1
<1> QED BY <1>2, <1>6, <1>7, <1>8, <1>9, <1>10 DEF Once!Next, Once!Deliver

LEMMA OneShotInit == Init => Once!Init
<1> SUFFICES ASSUME Init PROVE Once!Init OBVIOUS
<1>1. SupervisorOf = [j \in Jobs |-> NoThread]
  BY DEF Init, SupervisorOf, Supervises, Supervising
<1> QED BY <1>1 DEF Init, Once!Init

LEMMA OneShotNext ==
  ASSUME TypeOK, OnceInv, OnceInv', [Next]_vars
  PROVE  [Once!Next]_Once!onceVars
<1>1. ASSUME NEW t \in Threads, Acquired(t) PROVE [Once!Next]_Once!onceVars
  <2>1. UNCHANGED <<attempts, results, tj>>
    BY <1>1 DEF Acquired, AcquireLease
  <2>2. \A u \in Threads : pc'[u] \in Supervising => pc'[u] = pc[u]
    BY <1>1 DEF Acquired, AcquireLease, Goto, Supervising, TypeOK, TypeThreads
  <2> QED BY <2>1, <2>2, LeaveStep DEF OnceInv
<1>2. CASE Calm
  BY <1>2, LeaveStep, SupervisingLeased DEF OnceInv, Calm, GoesOn
<1> QED BY <1>1, <1>2, CalmNext, GiveStep, DeliverStep

\* The claim protocol keeps its promise: leases, claims, heartbeats, sweeps and
\* crashes together implement a job that is given away once.
THEOREM ImplementsOneShot == Spec => OneShot
<1>1. TypeOK /\ OnceInv /\ OnceInv' /\ [Next]_vars => [Once!Next]_Once!onceVars
  BY OneShotNext
<1> QED BY <1>1, OneShotInit, TypeCorrect, OnceInvariant, PTL
        DEF Spec, OneShot, Once!Spec

-----------------------------------------------------------------------------
\* Which steps write the rows.

rowVars == <<status, results, dstate, claimedBy, attempts>>

\* The steps that write a row: all others leave the rows alone.
Writes ==
  \/ \E t \in Threads : \/ EnqueueInsert(t) \/ Claim(t) \/ PersistCheck(t)
                        \/ PersistWrite(t) \/ FinishWrite(t) \/ Finalize(t)
  \/ \E c \in Cancellers : CancelWrite(c)
  \/ \E x \in Sweepers : SweepWrite(x)

LEMMA RowsWritten == ASSUME [Next]_vars PROVE Writes \/ UNCHANGED rowVars
<1> USE DEF rowVars
<1>1. ASSUME NEW t \in Threads, Admit(t) PROVE Writes \/ UNCHANGED rowVars
  BY <1>1 DEF Admit, Notify, DispatchRead, Reserve, AcquireLease, Writes
<1>2. ASSUME NEW t \in Threads, Supervise(t) PROVE Writes \/ UNCHANGED rowVars
  BY <1>2 DEF Supervise, Launch, WorkerDone, WorkerBroken, SeeCancel, Renew, Pass, TimeOut,
              Stop, FinishRead, ReleaseSlot, ReleaseLease, Writes
<1>3. ASSUME NEW t \in Threads,
             CleanupFails(t) \/ DbFault(t) \/ \E r \in Repos : EnqueueCheck(t, r)
      PROVE  UNCHANGED rowVars
  BY <1>3 DEF CleanupFails, DbFault, EnqueueCheck
<1>4. ASSUME NEW c \in Cancellers, Cancel(c) \/ \E j \in Jobs : CancelSignal(c, j)
      PROVE  Writes \/ UNCHANGED rowVars
  BY <1>4 DEF Cancel, CancelRead, CancelSignal, Writes
<1>5. ASSUME NEW x \in Sweepers, Reconcile(x) PROVE Writes \/ UNCHANGED rowVars
  BY <1>5 DEF Reconcile, SweepRead, Writes
<1>6. ASSUME \/ Tick \/ UNCHANGED vars \/ \E p \in Procs : Crash(p) \/ Restart(p)
      PROVE  UNCHANGED rowVars
  BY <1>6 DEF Tick, vars, Crash, Restart
<1>7. ASSUME NEW t \in Threads, Thread(t) PROVE Writes \/ UNCHANGED rowVars
  BY <1>1, <1>2, <1>7 DEF Thread, Writes
<1> QED BY <1>3, <1>4, <1>5, <1>6, <1>7 DEF Next

\* How a thread may move: it enters admission, goes on with its job, or is gone.
Working == PC \ {"idle", "insert"}
Moves ==
  \/ \E t \in Threads, r \in Repos : EnqueueCheck(t, r)
  \/ \E t \in Threads : EnqueueInsert(t)
  \/ \E t \in Threads, l \in PC : pc[t] \in Working /\ Goto(t, l) /\ UNCHANGED tj
  \/ \E S : Quit(S)
  \/ UNCHANGED <<pc, tj>>

LEMMA ThreadsMove == ASSUME TypeOK, [Next]_vars PROVE Moves
<1>1. ASSUME NEW t \in Threads, NEW l \in PC, NEW k \in Working, pc[t] = k, Goto(t, l),
             UNCHANGED tj
      PROVE  Moves
  BY <1>1 DEF Moves
<1> USE DEF At, Local, Working, PC, Holding, Supervising
<1>2. ASSUME NEW t \in Threads, Admit(t) PROVE Moves
  <2>1. CASE Notify(t) \/ DispatchRead(t) \/ Reserve(t)
    BY <1>1, <1>2, <2>1 DEF Notify, DispatchRead, Reserve, Moves
  <2>2. CASE AcquireLease(t) \/ Claim(t)
    BY <1>1, <1>2, <2>2 DEF AcquireLease, Claim
  <2> QED BY <1>2, <2>1, <2>2 DEF Admit
<1>3. ASSUME NEW t \in Threads, Supervise(t) PROVE Moves
  <2>1. CASE Launch(t) \/ WorkerDone(t) \/ SeeCancel(t) \/ Renew(t) \/ Pass(t)
    BY <1>1, <2>1 DEF Launch, WorkerDone, SeeCancel, Renew, Pass
  <2>2. CASE WorkerBroken(t)
    BY <1>1, <2>2 DEF WorkerBroken, Moves
  <2>3. CASE TimeOut(t) \/ Stop(t) \/ PersistCheck(t) \/ PersistWrite(t)
    BY <1>1, <2>3 DEF TimeOut, Stop, PersistCheck, PersistWrite
  <2>4. CASE FinishRead(t) \/ FinishWrite(t) \/ Finalize(t) \/ ReleaseSlot(t)
    BY <1>1, <2>4 DEF FinishRead, FinishWrite, Finalize, ReleaseSlot
  <2>5. CASE ReleaseLease(t)
    BY <2>5 DEF ReleaseLease, Moves
  <2> QED BY <1>3, <2>1, <2>2, <2>3, <2>4, <2>5 DEF Supervise
<1>4. ASSUME NEW t \in Threads, DbFault(t) PROVE Moves
  <2>1. CASE Quit({t})
    BY <2>1 DEF Moves
  <2>2. CASE pc[t] \in Working /\ UNCHANGED tj /\ \E l \in PC : Goto(t, l)
    BY <2>2 DEF Moves
  <2> QED BY <1>4, <2>1, <2>2 DEF DbFault
<1>5. ASSUME \/ \E c \in Cancellers : Cancel(c) \/ \E j \in Jobs : CancelSignal(c, j)
             \/ \E x \in Sweepers : Reconcile(x)
             \/ \E p \in Procs : Crash(p) \/ Restart(p)
             \/ \E t \in Threads : CleanupFails(t)
             \/ Tick
             \/ UNCHANGED vars
      PROVE  Moves
  BY <1>5 DEF Cancel, CancelSignal, CancelRead, CancelWrite, Reconcile, SweepRead,
              SweepWrite, Crash, Restart, CleanupFails, Tick, vars, Moves
<1>6. ASSUME NEW t \in Threads, Thread(t) PROVE Moves
  BY <1>2, <1>3, <1>6 DEF Thread, Moves
<1> QED BY <1>4, <1>5, <1>6 DEF Next, Moves

\* A working thread works on the job it had, or on one it has just found or
\* inserted.
LEMMA SameWork ==
  ASSUME TypeOK, Moves, NEW u \in Threads, pc'[u] \in Working
  PROVE  \/ pc[u] \in Working /\ tj'[u] = tj[u]
         \/ tj'[u] \in Jobs /\ status'[tj'[u]] # "none"
<1>1. CASE \E t \in Threads, r \in Repos : EnqueueCheck(t, r)
  BY <1>1 DEF EnqueueCheck, ActiveJobs, Active, Goto, TypeOK, TypeThreads, TypeJobs,
              Working, PC, Holding, Supervising
<1>2. CASE \E t \in Threads : EnqueueInsert(t)
  <2>1. PICK t \in Threads : EnqueueInsert(t)
    BY <1>2
  <2>2. PICK j \in Jobs : status' = [status EXCEPT ![j] = "queued"]
                          /\ tj' = [tj EXCEPT ![t] = j]
    BY <2>1 DEF EnqueueInsert, FreshJobs
  <2>3. status'[j] = "queued"
    BY <2>2 DEF TypeOK, TypeJobs
  <2>4. u # t => pc'[u] = pc[u] /\ tj'[u] = tj[u]
    BY <2>1, <2>2 DEF EnqueueInsert, Goto, TypeOK, TypeThreads
  <2>5. u = t => tj'[u] = j
    BY <2>2 DEF TypeOK, TypeThreads
  <2> QED BY <2>3, <2>4, <2>5
<1>3. CASE \E t \in Threads, l \in PC : pc[t] \in Working /\ Goto(t, l) /\ UNCHANGED tj
  BY <1>3 DEF Goto, TypeOK, TypeThreads
<1>4. CASE \E S : Quit(S)
  BY <1>4 DEF Quit, Working
<1>5. CASE UNCHANGED <<pc, tj>>
  BY <1>5
<1> QED BY <1>1, <1>2, <1>3, <1>4, <1>5 DEF Moves

-----------------------------------------------------------------------------
\* Jobs are inserted once and leave the queue once.

\* A job does not lose its row, nor go back to the queue; it becomes active only
\* when it is inserted or claimed.
StatusMoves ==
  \A j \in Jobs :
    /\ status'[j] = "none" => status[j] = "none"
    /\ status'[j] = "queued" => status[j] \in {"none", "queued"}
    /\ status'[j] \in Active =>
         \/ status[j] \in Active \cup {"none"}
         \/ \E t \in Threads : pc[t] = "claim" /\ tj[t] = j /\ pc'[t] # "finalize"

LEMMA StatusMonotone == ASSUME TypeOK, Writes \/ UNCHANGED rowVars PROVE StatusMoves
<1> USE DEF Active, Terminal
<1>1. ASSUME NEW t \in Threads, EnqueueInsert(t) PROVE StatusMoves
  BY <1>1 DEF EnqueueInsert, FreshJobs, StatusMoves, TypeOK, TypeJobs
<1>2. ASSUME NEW t \in Threads, Claim(t) PROVE StatusMoves
  <2>1. pc[t] = "claim" /\ pc'[t] # "finalize"
    BY <1>2 DEF Claim, At, Goto, TypeOK, TypeThreads
  <2>2. \A j \in Jobs : status'[j] = status[j] \/ (j = tj[t] /\ status'[j] = "running")
    BY <1>2 DEF Claim, TypeOK, TypeJobs
  <2> QED BY <2>1, <2>2 DEF StatusMoves
<1>3. ASSUME NEW t \in Threads, PersistCheck(t) PROVE StatusMoves
  BY <1>3 DEF PersistCheck, StatusMoves, TypeOK, TypeJobs
<1>4. ASSUME NEW t \in Threads, PersistWrite(t) \/ FinishWrite(t) \/ Finalize(t)
      PROVE  StatusMoves
  BY <1>4 DEF PersistWrite, FinishWrite, Finalize, StatusMoves, TypeOK, TypeJobs, TypeThreads
<1>5. ASSUME NEW c \in Cancellers, CancelWrite(c) PROVE StatusMoves
  BY <1>5 DEF CancelWrite, StatusMoves, TypeOK, TypeJobs
<1>6. ASSUME NEW x \in Sweepers, SweepWrite(x) PROVE StatusMoves
  BY <1>6 DEF SweepWrite, StatusMoves, TypeOK, TypeJobs, TypeProcs
<1>7. CASE UNCHANGED rowVars
  BY <1>7 DEF rowVars, StatusMoves
<1> QED BY <1>1, <1>2, <1>3, <1>4, <1>5, <1>6, <1>7 DEF Writes

\* What threads, cancellations and sweeps hold on to was there when they read
\* it: their jobs have rows, a cancellation that saw a job out of the queue and a
\* sweep that judged one act on jobs that have left it.
WorkIsKnown == \A t \in Threads : pc[t] \in Working => status[tj[t]] # "none"
CancelIsKnown ==
  \A c \in Cancellers :
    /\ cpc[c] \in {"read", "write"} => status[cjob[c]] # "none"
    /\ cpc[c] = "write" /\ seen[c][2] # "queued" => status[cjob[c]] # "queued"
SweepIsKnown ==
  \A x \in Sweepers, j \in Jobs :
    sweep[x][j] # "none" => status[j] \notin {"none", "queued"}
Known == WorkIsKnown /\ CancelIsKnown /\ SweepIsKnown

LEMMA KnownInit == Init => Known
  BY DEF Init, Known, WorkIsKnown, CancelIsKnown, SweepIsKnown, Working, NoSweep

\* What a watchdog or a cancellation has judged is what it last read.
LEMMA SweepMoves ==
  ASSUME TypeOK, [Next]_vars, NEW x \in Sweepers
  PROVE  sweep'[x] = sweep[x] \/ sweep'[x] = NoSweep \/ SweepRead(x)
<1>1. ASSUME NEW y \in Sweepers, Reconcile(y)
      PROVE  sweep'[x] = sweep[x] \/ sweep'[x] = NoSweep \/ SweepRead(x)
  <2>1. y # x => sweep'[x] = sweep[x]
    BY <1>1 DEF Reconcile, SweepRead, SweepWrite, TypeOK, TypeProcs
  <2>2. SweepWrite(x) => sweep'[x] = NoSweep
    BY DEF SweepWrite, TypeOK, TypeProcs
  <2> QED BY <1>1, <2>1, <2>2 DEF Reconcile
<1>2. ASSUME NEW p \in Procs, Crash(p) \/ Restart(p)
      PROVE  sweep'[x] = sweep[x] \/ sweep'[x] = NoSweep
  BY <1>2 DEF Crash, Restart
<1>3. ASSUME NEW t \in Threads, Thread(t) PROVE UNCHANGED sweep
  <2>1. CASE EnqueueInsert(t) \/ Admit(t)
    BY <2>1 DEF EnqueueInsert, Admit, Notify, DispatchRead, Reserve, AcquireLease, Claim
  <2>2. CASE Supervise(t)
    BY <2>2 DEF Supervise, Launch, WorkerDone, WorkerBroken, SeeCancel, Renew, Pass,
         TimeOut, Stop, PersistCheck, PersistWrite, FinishRead, FinishWrite, Finalize,
         ReleaseSlot, ReleaseLease, Local
  <2> QED BY <1>3, <2>1, <2>2 DEF Thread
<1>4. ASSUME \/ \E t \in Threads : \/ CleanupFails(t) \/ DbFault(t)
                                   \/ \E r \in Repos : EnqueueCheck(t, r)
             \/ \E c \in Cancellers : Cancel(c) \/ \E k \in Jobs : CancelSignal(c, k)
             \/ Tick \/ UNCHANGED vars
      PROVE  UNCHANGED sweep
  BY <1>4 DEF Local, CleanupFails, DbFault, EnqueueCheck, Cancel, CancelRead, CancelWrite,
       CancelSignal, Tick, vars
<1> QED BY <1>1, <1>2, <1>3, <1>4 DEF Next

LEMMA KnownNext == ASSUME TypeOK, Known, [Next]_vars PROVE Known'
<1>1. StatusMoves /\ Moves
  BY RowsWritten, StatusMonotone, ThreadsMove
<1>2. WorkIsKnown'
  <2> SUFFICES ASSUME NEW u \in Threads, pc'[u] \in Working
               PROVE  status'[tj'[u]] # "none"
    BY DEF WorkIsKnown
  <2>1. CASE pc[u] \in Working /\ tj'[u] = tj[u]
    <3>1. tj[u] \in Jobs /\ status[tj[u]] # "none"
      BY <2>1 DEF Known, WorkIsKnown, TypeOK, TypeThreads, Working
    <3> QED BY <1>1, <2>1, <3>1 DEF StatusMoves
  <2> QED BY <1>1, <2>1, SameWork
<1>3. CancelIsKnown'
  <2> SUFFICES ASSUME NEW c \in Cancellers, cpc'[c] \in {"read", "write"}
               PROVE  /\ status'[cjob'[c]] # "none"
                      /\ cpc'[c] = "write" /\ seen'[c][2] # "queued" =>
                           status'[cjob'[c]] # "queued"
    BY DEF CancelIsKnown
  <2>1. CASE UNCHANGED <<cpc[c], cjob[c], seen[c]>>
    <3>1. cjob[c] \in Jobs
      BY <2>1 DEF TypeOK, TypeCancels
    <3> QED BY <1>1, <2>1, <3>1 DEF Known, CancelIsKnown, StatusMoves
  <2>2. CASE \E j \in Jobs : CancelSignal(c, j)
    BY <2>2 DEF CancelSignal, Active, TypeOK, TypeCancels
  <2>3. CASE CancelRead(c)
    BY <2>3 DEF CancelRead, CAt, Known, CancelIsKnown, TypeOK, TypeCancels
  <2>4. CASE CancelWrite(c)
    BY <2>4 DEF CancelWrite, TypeOK, TypeCancels
  <2>5. \/ UNCHANGED <<cpc[c], cjob[c], seen[c]>>
        \/ \E j \in Jobs : CancelSignal(c, j)
        \/ CancelRead(c) \/ CancelWrite(c)
    <3>1. ASSUME NEW d \in Cancellers, Cancel(d) \/ \E j \in Jobs : CancelSignal(d, j), d # c
          PROVE  UNCHANGED <<cpc[c], cjob[c], seen[c]>>
      BY <3>1 DEF Cancel, CancelRead, CancelWrite, CancelSignal, TypeOK, TypeCancels
    <3>2. ASSUME NEW x \in Sweepers, Reconcile(x)
          PROVE  UNCHANGED <<cpc[c], cjob[c], seen[c]>>
      BY <3>2 DEF Reconcile, SweepRead, SweepWrite, TypeOK, TypeCancels
    <3>3. ASSUME NEW p \in Procs, Crash(p) \/ Restart(p)
          PROVE  UNCHANGED <<cpc[c], cjob[c], seen[c]>>
      BY <3>3 DEF Crash, Restart
    <3>4. ASSUME NEW t \in Threads, Thread(t) \/ CleanupFails(t) \/ DbFault(t)
                                      \/ \E r \in Repos : EnqueueCheck(t, r)
          PROVE  UNCHANGED <<cpc[c], cjob[c], seen[c]>>
      BY <3>4 DEF Thread, EnqueueInsert, Admit, Notify, DispatchRead, Reserve,
           AcquireLease, Claim, Supervise, Launch, WorkerDone, WorkerBroken, SeeCancel, Renew,
           Pass, TimeOut, Stop, PersistCheck, PersistWrite, FinishRead, FinishWrite, Finalize,
           ReleaseSlot, ReleaseLease, Local, CleanupFails, DbFault, EnqueueCheck
    <3>5. Tick \/ UNCHANGED vars => UNCHANGED <<cpc[c], cjob[c], seen[c]>>
      BY DEF Tick, vars
    <3> QED BY <3>1, <3>2, <3>3, <3>4, <3>5 DEF Next, Cancel
  <2> QED BY <2>1, <2>2, <2>3, <2>4, <2>5
<1>4. SweepIsKnown'
  <2> SUFFICES ASSUME NEW x \in Sweepers, NEW j \in Jobs, sweep'[x][j] # "none"
               PROVE  status'[j] \notin {"none", "queued"}
    BY DEF SweepIsKnown
  <2>1. CASE sweep[x][j] # "none"
    BY <1>1, <2>1 DEF Known, SweepIsKnown, StatusMoves
  <2>2. CASE SweepRead(x)
    BY <2>2 DEF SweepRead, Abandoned, TypeOK, TypeProcs
  <2>3. sweep[x][j] # "none" \/ SweepRead(x)
    BY SweepMoves DEF NoSweep
  <2> QED BY <2>1, <2>2, <2>3
<1> QED BY <1>2, <1>3, <1>4 DEF Known

-----------------------------------------------------------------------------
\* The outbox row agrees with the job.

\* A job without a row has no trace of a claim, and a supervisor that goes to
\* finalize_dispatch leaves a job that is over.
UnbornIsClean ==
  \A j \in Jobs : status[j] = "none" => claimedBy[j] = NoThread /\ attempts[j] = 0
FinalizeIsOver ==
  \A t \in Threads : pc[t] = "finalize" => status[tj[t]] \notin Active
RowsAgree == UnbornIsClean /\ QueuedIsClaimable /\ RunningIsOwned
OutboxInv == Known /\ RowsAgree /\ FinalizeIsOver

\* What may become of the row of one job without breaking the agreement.
RowKept(j) ==
  \/ status'[j] \in Terminal
  \/ status'[j] = "running" /\ claimedBy'[j] # NoThread
       /\ dstate'[j] \in {"claimed", "cancel_requested"}
  \/ /\ status[j] = "none" /\ status'[j] = "queued" /\ dstate'[j] = "pending"
     /\ UNCHANGED <<claimedBy[j], attempts[j]>>
  \/ UNCHANGED <<status[j], claimedBy[j], attempts[j], dstate[j]>>
  \/ /\ status[j] \notin {"none", "queued"} /\ dstate'[j] = "cancel_requested"
     /\ UNCHANGED <<status[j], claimedBy[j], attempts[j]>>

LEMMA RowsKept ==
  ASSUME RowsAgree, \A j \in Jobs : RowKept(j) PROVE RowsAgree'
  BY DEF RowsAgree, RowKept, UnbornIsClean, QueuedIsClaimable, RunningIsOwned, Terminal

LEMMA RowsNext ==
  ASSUME TypeOK, OnceInv, OutboxInv, Writes \/ UNCHANGED rowVars
  PROVE  RowsAgree'
<1> SUFFICES ASSUME NEW j \in Jobs PROVE RowKept(j)
  BY RowsKept DEF OutboxInv
<1>0. /\ status[j] = "queued" =>
           dstate[j] = "pending" /\ claimedBy[j] = NoThread /\ attempts[j] = 0
      /\ status[j] = "running" =>
           dstate[j] \in {"claimed", "cancel_requested"} /\ claimedBy[j] # NoThread
  BY DEF OutboxInv, RowsAgree, QueuedIsClaimable, RunningIsOwned
<1>1. ASSUME NEW t \in Threads, EnqueueInsert(t) PROVE RowKept(j)
  BY <1>1 DEF EnqueueInsert, FreshJobs, RowKept, TypeOK, TypeJobs
<1>2. ASSUME NEW t \in Threads, Claim(t) PROVE RowKept(j)
  BY <1>2, ThreadsAssumption DEF Claim, RowKept, TypeOK, TypeJobs
<1>3. ASSUME NEW t \in Threads, PersistCheck(t) PROVE RowKept(j)
  <2>1. attempts[tj[t]] = 1
    BY <1>3, SupervisingLeased DEF PersistCheck, At, OnceInv, AttemptCounted, Supervising
  <2>2. UNCHANGED <<dstate, claimedBy, attempts>>
    BY <1>3 DEF PersistCheck
  <2>3. CASE status[j] = "queued" /\ j = tj[t]
    BY <1>0, <2>1, <2>3
  <2>4. CASE ~(status[j] = "queued" /\ j = tj[t])
    BY <1>3, <2>2, <2>4 DEF PersistCheck, RowKept, Active, TypeOK, TypeJobs
  <2> QED BY <2>3, <2>4
<1>4. ASSUME NEW t \in Threads, PersistWrite(t) \/ FinishWrite(t) PROVE RowKept(j)
  BY <1>4 DEF PersistWrite, FinishWrite, RowKept, Terminal, TypeOK, TypeJobs, TypeThreads
<1>5. ASSUME NEW t \in Threads, Finalize(t) PROVE RowKept(j)
  <2>1. status[tj[t]] \in Terminal
    BY <1>5 DEF Finalize, At, OutboxInv, FinalizeIsOver, Known, WorkIsKnown, Working, PC,
                Holding, Supervising, Active, Terminal, Status, TypeOK, TypeJobs, TypeThreads
  <2>2. UNCHANGED <<status, attempts>>
    BY <1>5 DEF Finalize
  <2>3. j # tj[t] => UNCHANGED <<dstate[j], claimedBy[j]>>
    BY <1>5 DEF Finalize, TypeOK, TypeJobs
  <2> QED BY <2>1, <2>2, <2>3 DEF RowKept
<1>6. ASSUME NEW c \in Cancellers, CancelWrite(c) PROVE RowKept(j)
  <2>1. /\ status[cjob[c]] # "none"
        /\ seen[c][2] # "queued" => status[cjob[c]] # "queued"
    BY <1>6 DEF CancelWrite, CAt, OutboxInv, Known, CancelIsKnown
  <2>2. UNCHANGED <<claimedBy, attempts>>
    BY <1>6 DEF CancelWrite
  <2>3. CASE j # cjob[c]
    BY <1>6, <2>2, <2>3 DEF CancelWrite, RowKept, TypeOK, TypeJobs
  <2>4. CASE j = cjob[c] /\ seen[c][2] = "queued"
    BY <1>6, <2>4 DEF CancelWrite, RowKept, Terminal, TypeOK, TypeJobs
  <2>5. CASE j = cjob[c] /\ seen[c][2] # "queued"
    BY <1>6, <2>1, <2>2, <2>5 DEF CancelWrite, RowKept, TypeOK, TypeJobs
  <2> QED BY <2>3, <2>4, <2>5
<1>7. ASSUME NEW x \in Sweepers, SweepWrite(x) PROVE RowKept(j)
  BY <1>7 DEF SweepWrite, RowKept, TypeOK, TypeJobs, TypeProcs
<1>8. CASE UNCHANGED rowVars
  BY <1>8 DEF rowVars, RowKept
<1> QED BY <1>1, <1>2, <1>3, <1>4, <1>5, <1>6, <1>7, <1>8 DEF Writes

\* finalize_dispatch is reached only through _finish_if_active, and a job that
\* is over stays so while its supervisor is there.
LEMMA FinalizeNext ==
  ASSUME TypeOK, OnceInv, OutboxInv, [Next]_vars
  PROVE  FinalizeIsOver'
<1>1. StatusMoves
  BY RowsWritten, StatusMonotone
<1> SUFFICES ASSUME NEW t \in Threads, pc'[t] = "finalize"
             PROVE  status'[tj'[t]] \notin Active
  BY DEF FinalizeIsOver
<1>2. CASE pc[t] = "finalize" /\ tj'[t] = tj[t]
  <2>1. tj[t] \in Jobs /\ status[tj[t]] \notin Active \cup {"none"}
    BY <1>2 DEF OutboxInv, FinalizeIsOver, Known, WorkIsKnown, Working, PC, Holding,
                Supervising, TypeOK, TypeThreads
  <2>2. \A u \in Threads : pc[u] = "claim" => tj[u] # tj[t]
    BY <1>2 DEF OnceInv, OneLeased, Leased, Supervising
  <2> QED BY <1>1, <1>2, <2>1, <2>2 DEF StatusMoves
<1>3. CASE FinishRead(t) \/ FinishWrite(t)
  BY <1>3 DEF FinishRead, FinishWrite, Local, At, Goto, Active, Terminal, TypeOK,
              TypeThreads, TypeJobs, PC, Holding, Supervising
<1>4. (pc[t] = "finalize" /\ tj'[t] = tj[t]) \/ FinishRead(t) \/ FinishWrite(t)
  <2>1. ASSUME NEW u \in Threads, NEW l, Goto(u, l), l # "finalize" \/ u # t, UNCHANGED tj
        PROVE  pc[t] = "finalize" /\ tj'[t] = tj[t]
    BY <2>1 DEF Goto, TypeOK, TypeThreads
  <2>2. ASSUME NEW S, Quit(S) PROVE pc[t] = "finalize" /\ tj'[t] = tj[t]
    BY <2>2 DEF Quit
  <2>3. ASSUME NEW u \in Threads,
               EnqueueInsert(u) \/ \E r \in Repos : EnqueueCheck(u, r)
        PROVE  pc[t] = "finalize" /\ tj'[t] = tj[t]
    BY <2>3 DEF EnqueueInsert, EnqueueCheck, At, Goto, TypeOK, TypeThreads
  <2>4. ASSUME NEW u \in Threads, Admit(u)
        PROVE  pc[t] = "finalize" /\ tj'[t] = tj[t]
    BY <2>1, <2>2, <2>4 DEF Admit, Notify, DispatchRead, Reserve, AcquireLease, Claim
  <2>5. ASSUME NEW u \in Threads, Supervise(u), ~(FinishRead(t) \/ FinishWrite(t))
        PROVE  pc[t] = "finalize" /\ tj'[t] = tj[t]
    <3>1. CASE WorkerBroken(u)
      BY <2>1, <3>1 DEF WorkerBroken, Local
    <3>2. CASE Launch(u) \/ WorkerDone(u) \/ SeeCancel(u) \/ Renew(u) \/ Pass(u) \/ TimeOut(u)
      BY <2>1, <3>2 DEF Launch, WorkerDone, SeeCancel, Renew, Pass, TimeOut, Local
    <3>3. CASE Stop(u) \/ PersistCheck(u) \/ PersistWrite(u) \/ Finalize(u) \/ ReleaseSlot(u)
      BY <2>1, <3>3 DEF Stop, PersistCheck, PersistWrite, Finalize, ReleaseSlot, Local
    <3>4. CASE FinishRead(u) \/ FinishWrite(u)
      BY <2>1, <2>5, <3>4 DEF FinishRead, FinishWrite, Local
    <3>5. CASE ReleaseLease(u)
      BY <2>2, <3>5 DEF ReleaseLease
    <3> QED BY <2>5, <3>1, <3>2, <3>3, <3>4, <3>5 DEF Supervise
  <2>6. ASSUME NEW u \in Threads, CleanupFails(u) \/ DbFault(u)
        PROVE  pc[t] = "finalize" /\ tj'[t] = tj[t]
    BY <2>1, <2>2, <2>6 DEF CleanupFails, DbFault, Local
  <2>7. ASSUME \/ \E c \in Cancellers : Cancel(c) \/ \E j \in Jobs : CancelSignal(c, j)
               \/ \E x \in Sweepers : Reconcile(x)
               \/ \E p \in Procs : Crash(p) \/ Restart(p)
               \/ Tick
               \/ UNCHANGED vars
        PROVE  pc[t] = "finalize" /\ tj'[t] = tj[t]
    BY <2>2, <2>7 DEF Cancel, CancelSignal, CancelRead, CancelWrite, Reconcile, SweepRead,
                SweepWrite, Crash, Restart, Tick, vars
  <2> QED BY <2>3, <2>4, <2>5, <2>6, <2>7 DEF Next, Thread
<1> QED BY <1>2, <1>3, <1>4

THEOREM OutboxInvariant == Spec => []OutboxInv
<1>1. Init => OutboxInv
  <2>1. Init => RowsAgree /\ FinalizeIsOver
    BY DEF Init, RowsAgree, UnbornIsClean, QueuedIsClaimable, RunningIsOwned, FinalizeIsOver
  <2> QED BY <2>1, KnownInit DEF OutboxInv
<1>2. TypeOK /\ OnceInv /\ OutboxInv /\ [Next]_vars => OutboxInv'
  BY KnownNext, RowsWritten, RowsNext, FinalizeNext DEF OutboxInv
<1> QED BY <1>1, <1>2, OnceInvariant, TypeCorrect, PTL DEF Spec

-----------------------------------------------------------------------------
\* While nothing fails, a claim and a lease have an owner on its way.

\* Where a thread is that supervises, or holds a lease: a step without a failure
\* keeps it there, or it gives back what it has.
OnItsWay == Holding \cup {"unlease"}
Stays(t) == /\ tj'[t] = tj[t]
            /\ pc[t] \in Supervising => pc'[t] \in Supervising \/ Finalize(t)
            /\ pc[t] \in OnItsWay => pc'[t] \in OnItsWay

LEMMA OwnersStay ==
  ASSUME TypeOK, [Next]_vars, crashes' = 0, faults' = 0,
         NEW t \in Threads, pc[t] \in OnItsWay
  PROVE  Stays(t) \/ ReleaseLease(t)
<1>0. pc[t] \in Supervising => pc[t] \in OnItsWay
  BY DEF OnItsWay, Holding
<1>1. ASSUME NEW u \in Threads, NEW l, Goto(u, l), u # t, UNCHANGED tj PROVE Stays(t)
  BY <1>1, <1>0 DEF Goto, Stays
<1>2. ASSUME NEW l \in Supervising, Goto(t, l), UNCHANGED tj PROVE Stays(t)
  BY <1>2 DEF Goto, Stays, OnItsWay, Holding, TypeOK, TypeThreads
<1>3. ASSUME NEW l \in {"claim", "release", "unlease"}, Goto(t, l), UNCHANGED tj,
             pc[t] \notin Supervising \/ Finalize(t)
      PROVE  Stays(t)
  BY <1>3 DEF Goto, Stays, OnItsWay, Holding, TypeOK, TypeThreads
<1>4. ASSUME UNCHANGED <<pc[t], tj[t]>> PROVE Stays(t)
  BY <1>4 DEF Stays
<1>5. ASSUME NEW u \in Threads, u # t, Quit({u}) PROVE Stays(t)
  BY <1>4, <1>5 DEF Quit
<1>6. ASSUME NEW u \in Threads, EnqueueInsert(u) \/ \E r \in Repos : EnqueueCheck(u, r)
      PROVE  Stays(t)
  BY <1>4, <1>6 DEF EnqueueInsert, EnqueueCheck, At, Goto, OnItsWay, Holding, Supervising,
                    TypeOK, TypeThreads
<1>7. ASSUME NEW u \in Threads, Admit(u) PROVE Stays(t)
  <2>1. CASE u # t
    BY <1>1, <1>5, <1>7, <2>1
    DEF Admit, Notify, DispatchRead, Reserve, AcquireLease, Claim
  <2>2. CASE u = t
    BY <1>2, <1>3, <1>7, <2>2
    DEF Admit, Notify, DispatchRead, Reserve, AcquireLease, Claim, At, OnItsWay, Holding,
        Supervising
  <2> QED BY <2>1, <2>2
<1>8. ASSUME NEW u \in Threads, u # t, Supervise(u) PROVE Stays(t)
  <2>1. CASE WorkerBroken(u)
    BY <1>1, <1>4, <1>8, <2>1 DEF WorkerBroken, Local
  <2>2. CASE Launch(u) \/ WorkerDone(u) \/ SeeCancel(u) \/ Renew(u) \/ Pass(u) \/ TimeOut(u)
    BY <1>1, <1>8, <2>2 DEF Launch, WorkerDone, SeeCancel, Renew, Pass, TimeOut, Local
  <2>3. CASE Stop(u) \/ PersistCheck(u) \/ PersistWrite(u) \/ Finalize(u) \/ ReleaseSlot(u)
    BY <1>1, <1>8, <2>3 DEF Stop, PersistCheck, PersistWrite, Finalize, ReleaseSlot, Local
  <2>4. CASE FinishRead(u) \/ FinishWrite(u)
    BY <1>1, <1>8, <2>4 DEF FinishRead, FinishWrite, Local
  <2>5. CASE ReleaseLease(u)
    BY <1>5, <1>8, <2>5 DEF ReleaseLease
  <2> QED BY <1>8, <2>1, <2>2, <2>3, <2>4, <2>5 DEF Supervise
<1>9. ASSUME Supervise(t) PROVE Stays(t) \/ ReleaseLease(t)
  <2> USE DEF Supervising
  <2>1. CASE WorkerBroken(t)
    BY <1>2, <1>4, <2>1 DEF WorkerBroken, Local
  <2>2. CASE Launch(t) \/ WorkerDone(t) \/ SeeCancel(t) \/ Renew(t) \/ Pass(t) \/ TimeOut(t)
    BY <1>2, <2>2 DEF Launch, WorkerDone, SeeCancel, Renew, Pass, TimeOut, Local
  <2>3. CASE Stop(t) \/ PersistCheck(t) \/ PersistWrite(t)
    BY <1>2, <2>3 DEF Stop, PersistCheck, PersistWrite, Local
  <2>4. CASE FinishRead(t) \/ FinishWrite(t)
    BY <1>2, <2>4 DEF FinishRead, FinishWrite, Local
  <2>5. CASE Finalize(t) \/ ReleaseSlot(t)
    BY <1>3, <2>5 DEF Finalize, ReleaseSlot, Local, At
  <2> QED BY <1>9, <2>1, <2>2, <2>3, <2>4, <2>5 DEF Supervise
<1>10. ASSUME NEW u \in Threads, DbFault(u) PROVE FALSE
  BY <1>10, BoundsAssumption DEF DbFault, TypeOK, TypeProcs
<1>11. ASSUME NEW p \in Procs, Crash(p) PROVE FALSE
  BY <1>11, BoundsAssumption DEF Crash, TypeOK, TypeProcs
<1>12. ASSUME \/ \E c \in Cancellers : Cancel(c) \/ \E j \in Jobs : CancelSignal(c, j)
              \/ \E x \in Sweepers : Reconcile(x)
              \/ \E p \in Procs : Restart(p)
              \/ \E u \in Threads : CleanupFails(u)
              \/ Tick
              \/ UNCHANGED vars
       PROVE  Stays(t)
  BY <1>4, <1>12
  DEF Cancel, CancelSignal, CancelRead, CancelWrite, Reconcile, SweepRead, SweepWrite,
      Restart, CleanupFails, Local, Tick, vars
<1> QED BY <1>6, <1>7, <1>8, <1>9, <1>10, <1>11, <1>12 DEF Next, Thread

\* Claims and leases only come into being with their owner.
LEMMA OwnersBegin ==
  ASSUME TypeOK, [Next]_vars, NEW j \in Jobs
  PROVE  /\ \/ claimedBy'[j] \in {claimedBy[j], NoThread}
            \/ \E t \in Threads : tj'[t] = j /\ pc'[t] = "start" /\ claimedBy'[j] = t
         /\ \/ lease'[j] = "held" => lease[j] = "held" /\ holder'[j] = holder[j]
            \/ \E t \in Threads : tj'[t] = j /\ pc'[t] = "claim" /\ holder'[j] = t
<1> DEFINE A == \/ claimedBy'[j] \in {claimedBy[j], NoThread}
                \/ \E t \in Threads : tj'[t] = j /\ pc'[t] = "start" /\ claimedBy'[j] = t
           B == \/ lease'[j] = "held" => lease[j] = "held" /\ holder'[j] = holder[j]
                \/ \E t \in Threads : tj'[t] = j /\ pc'[t] = "claim" /\ holder'[j] = t
<1>1. A
  <2>1. ASSUME NEW t \in Threads, Claim(t) PROVE A
    BY <2>1 DEF Claim, Goto, TypeOK, TypeJobs, TypeThreads
  <2>2. ASSUME NEW t \in Threads,
               \/ EnqueueInsert(t) \/ PersistCheck(t) \/ PersistWrite(t)
               \/ FinishWrite(t) \/ Finalize(t)
        PROVE  A
    BY <2>2 DEF EnqueueInsert, PersistCheck, PersistWrite, FinishWrite, Finalize, TypeOK,
                TypeJobs
  <2>3. ASSUME \/ \E c \in Cancellers : CancelWrite(c)
               \/ \E x \in Sweepers : SweepWrite(x)
               \/ UNCHANGED rowVars
        PROVE  A
    BY <2>3 DEF CancelWrite, SweepWrite, rowVars
  <2> QED BY <2>1, <2>2, <2>3, RowsWritten DEF Writes
<1>2. B
  <2>1. ASSUME NEW t \in Threads, AcquireLease(t) PROVE B
    BY <2>1 DEF AcquireLease, Goto, TypeOK, TypeLeases, TypeThreads
  <2>2. ASSUME NEW t \in Threads, ReleaseLease(t) PROVE B
    BY <2>2 DEF ReleaseLease, TypeOK, TypeLeases
  <2>3. ASSUME NEW x \in Sweepers, SweepWrite(x) PROVE B
    BY <2>3 DEF SweepWrite
  <2>4. ASSUME NEW p \in Procs, Restart(p) PROVE B
    BY <2>4 DEF Restart
  <2>5. ASSUME UNCHANGED <<lease, holder>> PROVE B
    BY <2>5
  <2>6. \/ UNCHANGED <<lease, holder>>
        \/ \E t \in Threads : AcquireLease(t) \/ ReleaseLease(t)
        \/ \E x \in Sweepers : SweepWrite(x)
        \/ \E p \in Procs : Restart(p)
    <3>1. ASSUME NEW t \in Threads, Thread(t), ~AcquireLease(t), ~ReleaseLease(t)
          PROVE  UNCHANGED <<lease, holder>>
      BY <3>1 DEF Thread, EnqueueInsert, Admit, Notify, DispatchRead, Reserve, Claim,
           Supervise, Launch, WorkerDone, WorkerBroken, SeeCancel, Renew, Pass, TimeOut, Stop,
           PersistCheck, PersistWrite, FinishRead, FinishWrite, Finalize, ReleaseSlot, Local
    <3>2. ASSUME \/ \E t \in Threads : \/ CleanupFails(t) \/ DbFault(t)
                                       \/ \E r \in Repos : EnqueueCheck(t, r)
                 \/ \E c \in Cancellers : Cancel(c) \/ \E k \in Jobs : CancelSignal(c, k)
                 \/ \E x \in Sweepers : SweepRead(x)
                 \/ \E p \in Procs : Crash(p)
                 \/ Tick \/ UNCHANGED vars
          PROVE  UNCHANGED <<lease, holder>>
      BY <3>2 DEF CleanupFails, DbFault, EnqueueCheck, Cancel, CancelRead, CancelWrite,
           CancelSignal, SweepRead, Crash, Tick, vars
    <3> QED BY <3>1, <3>2 DEF Next, Reconcile
  <2> QED BY <2>1, <2>2, <2>3, <2>4, <2>5, <2>6
<1> QED BY <1>1, <1>2

LEMMA FailuresCount ==
  ASSUME TypeOK, [Next]_vars, crashes' = 0, faults' = 0 PROVE crashes = 0 /\ faults = 0
<1>0. crashes \in Nat /\ faults \in Nat
  BY BoundsAssumption DEF TypeOK, TypeProcs
<1>1. ASSUME NEW t \in Threads, Thread(t) PROVE UNCHANGED <<crashes, faults>>
  BY <1>1 DEF Thread, EnqueueInsert, Admit, Notify, DispatchRead, Reserve, AcquireLease,
       Claim, Supervise, Launch, WorkerDone, WorkerBroken, SeeCancel, Renew, Pass, TimeOut,
       Stop, PersistCheck, PersistWrite, FinishRead, FinishWrite, Finalize, ReleaseSlot,
       ReleaseLease, Local
<1>2. ASSUME \/ \E t \in Threads : CleanupFails(t) \/ \E r \in Repos : EnqueueCheck(t, r)
             \/ \E c \in Cancellers : Cancel(c) \/ \E k \in Jobs : CancelSignal(c, k)
             \/ \E x \in Sweepers : Reconcile(x)
             \/ \E p \in Procs : Restart(p)
             \/ Tick \/ UNCHANGED vars
      PROVE  UNCHANGED <<crashes, faults>>
  BY <1>2 DEF CleanupFails, Local, EnqueueCheck, Cancel, CancelRead, CancelWrite,
       CancelSignal, Reconcile, SweepRead, SweepWrite, Restart, Tick, vars
<1>3. ASSUME NEW t \in Threads, DbFault(t) PROVE FALSE
  BY <1>0, <1>3 DEF DbFault
<1>4. ASSUME NEW p \in Procs, Crash(p) PROVE FALSE
  BY <1>0, <1>4 DEF Crash
<1>5. UNCHANGED <<crashes, faults>>
  BY <1>1, <1>2, <1>3, <1>4 DEF Next
<1> QED BY <1>5

\* The owner of an unreleased lease is a thread.
HeldHasHolder ==
  crashes = 0 /\ faults = 0 => \A j \in Jobs : lease[j] = "held" => holder[j] \in Threads
OwnerInv == ClaimHasOwner /\ HeldHasHolder

LEMMA OwnerNext ==
  ASSUME TypeOK, OwnerInv, [Next]_vars PROVE OwnerInv'
<1> SUFFICES ASSUME crashes' = 0, faults' = 0, NEW j \in Jobs
             PROVE  /\ claimedBy'[j] # NoThread =>
                         tj'[claimedBy'[j]] = j /\ pc'[claimedBy'[j]] \in Supervising
                    /\ lease'[j] = "held" =>
                         /\ holder'[j] \in Threads
                         /\ tj'[holder'[j]] = j
                         /\ pc'[holder'[j]] \in Holding \cup {"unlease"}
  BY DEF OwnerInv, ClaimHasOwner, HeldHasHolder
<1>1. crashes = 0 /\ faults = 0
  BY FailuresCount
<1>2. ASSUME claimedBy'[j] # NoThread
      PROVE  tj'[claimedBy'[j]] = j /\ pc'[claimedBy'[j]] \in Supervising
  <2>1. CASE claimedBy'[j] = claimedBy[j]
    <3> DEFINE t == claimedBy[j]
    <3>1. t \in Threads /\ tj[t] = j /\ pc[t] \in Supervising
      BY <1>1, <1>2, <2>1 DEF OwnerInv, ClaimHasOwner, TypeOK, TypeJobs
    <3>2. pc[t] \in OnItsWay /\ pc[t] # "unlease"
      BY <3>1 DEF OnItsWay, Holding, Supervising
    <3>3. ~ReleaseLease(t)
      BY <3>2 DEF ReleaseLease, At
    <3>4. ~Finalize(t)
      BY <1>2, <2>1, <3>1 DEF Finalize, TypeOK, TypeJobs
    <3>5. Stays(t)
      BY <3>1, <3>2, <3>3, OwnersStay
    <3> QED BY <2>1, <3>1, <3>4, <3>5 DEF Stays
  <2>2. CASE \E t \in Threads : tj'[t] = j /\ pc'[t] = "start" /\ claimedBy'[j] = t
    BY <2>2 DEF Supervising
  <2> QED BY <1>2, <2>1, <2>2, OwnersBegin
<1>3. ASSUME lease'[j] = "held"
      PROVE  /\ holder'[j] \in Threads
             /\ tj'[holder'[j]] = j /\ pc'[holder'[j]] \in OnItsWay
  <2>1. CASE lease[j] = "held" /\ holder'[j] = holder[j]
    <3> DEFINE t == holder[j]
    <3>1. t \in Threads /\ tj[t] = j /\ pc[t] \in OnItsWay
      BY <1>1, <2>1 DEF OwnerInv, ClaimHasOwner, HeldHasHolder, OnItsWay
    <3>2. ~ReleaseLease(t)
      BY <1>3, <2>1, <3>1 DEF ReleaseLease, TypeOK, TypeLeases
    <3>3. Stays(t)
      BY <3>1, <3>2, OwnersStay
    <3> QED BY <2>1, <3>1, <3>3 DEF Stays
  <2>2. CASE \E t \in Threads : tj'[t] = j /\ pc'[t] = "claim" /\ holder'[j] = t
    BY <2>2 DEF OnItsWay, Holding
  <2> QED BY <1>3, <2>1, <2>2, OwnersBegin
<1> QED BY <1>2, <1>3 DEF OnItsWay

\* The outbox row, the lease and the supervisor agree with the job after every
\* step, whatever dispatchers, cancellations and sweeps commit in between:
\* claim_dispatch, request_cancel, reconcile_abandoned_scans, finalize_dispatch.
THEOREM OutboxAlwaysAgrees == Spec => []OutboxAgrees
<1>1. Init => OwnerInv
  BY ThreadsAssumption DEF Init, OwnerInv, ClaimHasOwner, HeldHasHolder
<1>2. Spec => []OwnerInv
  BY <1>1, OwnerNext, TypeCorrect, PTL DEF Spec
<1>3. OutboxInv /\ OwnerInv => OutboxAgrees
  BY DEF OutboxInv, RowsAgree, OwnerInv, OutboxAgrees
<1> QED BY <1>2, <1>3, OutboxInvariant, PTL

-----------------------------------------------------------------------------
\* What is shown as completed has a result.

\* Who decides that a job is completed has stored its result or seen it stored.
VerdictBacked ==
  \A t \in Threads : verdict[t] = "completed" => pc[t] \in Working /\ results[tj[t]] > 0
NeverSweptCompleted == \A x \in Sweepers, j \in Jobs : sweep[x][j] # "completed"
CompletedBacked == \A j \in Jobs : status[j] = "completed" => results[j] > 0
ResultInv == VerdictBacked /\ NeverSweptCompleted /\ CompletedBacked

LEMMA ResultsGrow ==
  ASSUME TypeOK, [Next]_vars PROVE \A j \in Jobs : results'[j] >= results[j]
<1>1. ASSUME NEW t \in Threads, PersistWrite(t)
      PROVE  \A j \in Jobs : results'[j] >= results[j]
  BY <1>1 DEF PersistWrite, TypeOK, TypeJobs
<1>2. UNCHANGED results => \A j \in Jobs : results'[j] >= results[j]
  BY DEF TypeOK, TypeJobs
<1>3. (\E t \in Threads : PersistWrite(t)) \/ UNCHANGED results
  BY RowsWritten
  DEF Writes, EnqueueInsert, Claim, PersistCheck, FinishWrite, Finalize, Local, CancelWrite,
      SweepWrite, rowVars
<1> QED BY <1>1, <1>2, <1>3

\* A completed verdict is one a thread had and takes with it, or one whose result
\* is stored.
VerdictKept(t) ==
  /\ verdict[t] = "completed"
  /\ pc[t] \in Working => pc'[t] \in Working /\ tj'[t] = tj[t]
VerdictStored(t) == pc'[t] \in Working /\ tj'[t] \in Jobs /\ results'[tj'[t]] > 0

LEMMA VerdictMoves ==
  ASSUME TypeOK, [Next]_vars, NEW t \in Threads, verdict'[t] = "completed"
  PROVE  VerdictKept(t) \/ VerdictStored(t)
<1> DEFINE Good == VerdictKept(t) \/ VerdictStored(t)
<1> USE DEF Working, PC, Holding, Supervising
<1>1. ASSUME UNCHANGED <<verdict[t], pc[t], tj[t]>> PROVE Good
  BY <1>1 DEF VerdictKept
<1>2. ASSUME NEW u \in Threads, NEW l \in Working, Goto(u, l), UNCHANGED <<tj, verdict>>
      PROVE  Good
  BY <1>2 DEF Goto, VerdictKept, TypeOK, TypeThreads
<1>3. ASSUME NEW S, Quit(S) PROVE Good
  BY <1>1, <1>3 DEF Quit
<1>4. ASSUME NEW u \in Threads, NEW l \in Working, NEW v, Goto(u, l), UNCHANGED tj,
             v # "completed", verdict' = [verdict EXCEPT ![u] = v]
      PROVE  Good
  BY <1>4 DEF Goto, VerdictKept, TypeOK, TypeThreads
<1>5. ASSUME NEW u \in Threads, EnqueueInsert(u) \/ \E r \in Repos : EnqueueCheck(u, r)
      PROVE  Good
  <2>1. verdict' = verdict
    BY <1>5 DEF EnqueueInsert, EnqueueCheck
  <2>2. CASE u = t
    <3>1. pc[t] \notin Working
      BY <1>5, <2>2 DEF EnqueueInsert, EnqueueCheck, At
    <3> QED BY <2>1, <3>1 DEF VerdictKept
  <2>3. CASE u # t
    <3>1. pc'[t] = pc[t]
      BY <1>5, <2>3 DEF EnqueueInsert, EnqueueCheck, Goto, TypeOK, TypeThreads
    <3>2. tj'[t] = tj[t]
      BY <1>5, <2>3 DEF EnqueueInsert, EnqueueCheck, TypeOK, TypeThreads
    <3> QED BY <1>1, <2>1, <3>1, <3>2
  <2> QED BY <2>2, <2>3
<1>6. ASSUME NEW u \in Threads, Admit(u) PROVE Good
  BY <1>2, <1>3, <1>6 DEF Admit, Notify, DispatchRead, Reserve, AcquireLease, Claim
<1>7. ASSUME NEW u \in Threads, Supervise(u) PROVE Good
  <2>1. CASE Launch(u) \/ WorkerDone(u) \/ SeeCancel(u)
    BY <1>2, <1>4, <2>1 DEF Launch, WorkerDone, SeeCancel, Local
  <2>2. CASE Renew(u) \/ Pass(u) \/ TimeOut(u)
    BY <1>2, <1>4, <2>2 DEF Renew, Pass, TimeOut, Local
  <2>3. CASE WorkerBroken(u)
    BY <1>1, <1>4, <2>3 DEF WorkerBroken, Local
  <2>4. CASE Stop(u) \/ FinishRead(u) \/ FinishWrite(u)
    <3>1. UNCHANGED <<tj, verdict>>
      BY <2>4 DEF Stop, FinishRead, FinishWrite, Local
    <3>2. \E l \in Working : Goto(u, l)
      BY <2>4 DEF Stop, FinishRead, FinishWrite
    <3> QED BY <1>2, <3>1, <3>2
  <2>5. CASE Finalize(u) \/ ReleaseSlot(u)
    BY <1>2, <2>5 DEF Finalize, ReleaseSlot, Local
  <2>6. CASE ReleaseLease(u)
    BY <1>3, <2>6 DEF ReleaseLease
  <2>7. CASE PersistCheck(u)
    <3>1. CASE results[tj[u]] > 0 /\ u = t
      BY <2>7, <3>1 DEF PersistCheck, Local, At, Goto, VerdictStored, TypeOK, TypeThreads
    <3>2. CASE u # t
      BY <2>7, <3>2, <1>1 DEF PersistCheck, Local, Goto, TypeOK, TypeThreads
    <3>3. CASE results[tj[u]] = 0
      BY <2>7, <3>3, <1>2, <1>4 DEF PersistCheck, Local
    <3> QED BY <2>7, <3>1, <3>2, <3>3 DEF PersistCheck
  <2>8. CASE PersistWrite(u)
    <3>1. CASE u = t
      <4>1. tj[t] \in Jobs /\ pc'[t] = "finish" /\ tj'[t] = tj[t]
        BY <2>8, <3>1 DEF PersistWrite, Local, At, Goto, TypeOK, TypeThreads
      <4>2. results'[tj[t]] > 0
        BY <2>8, <3>1, <4>1 DEF PersistWrite, TypeOK, TypeJobs
      <4> QED BY <4>1, <4>2 DEF VerdictStored
    <3>2. CASE u # t
      BY <2>8, <3>2, <1>1 DEF PersistWrite, Local, Goto, TypeOK, TypeThreads
    <3> QED BY <3>1, <3>2
  <2> QED BY <1>7, <2>1, <2>2, <2>3, <2>4, <2>5, <2>6, <2>7, <2>8 DEF Supervise
<1>8. ASSUME NEW u \in Threads, CleanupFails(u) PROVE Good
  BY <1>8 DEF CleanupFails, Local, VerdictKept, TypeOK, TypeThreads
<1>9. ASSUME NEW u \in Threads, DbFault(u) PROVE Good
  BY <1>2, <1>3, <1>4, <1>9 DEF DbFault
<1>10. ASSUME NEW p \in Procs, Crash(p) PROVE Good
  BY <1>3, <1>10 DEF Crash
<1>11. ASSUME \/ \E c \in Cancellers : Cancel(c) \/ \E j \in Jobs : CancelSignal(c, j)
              \/ \E x \in Sweepers : Reconcile(x)
              \/ \E p \in Procs : Restart(p)
              \/ Tick
              \/ UNCHANGED vars
       PROVE  Good
  BY <1>1, <1>11
  DEF Cancel, CancelSignal, CancelRead, CancelWrite, Reconcile, SweepRead, SweepWrite,
      Restart, Tick, vars
<1> QED BY <1>5, <1>6, <1>7, <1>8, <1>9, <1>10, <1>11 DEF Next, Thread

LEMMA ResultNext ==
  ASSUME TypeOK, ResultInv, [Next]_vars PROVE ResultInv'
<1>1. \A j \in Jobs : results[j] \in Nat /\ results'[j] \in Nat /\ results'[j] >= results[j]
  BY ResultsGrow, TypeNext DEF TypeOK, TypeJobs
<1>2. VerdictBacked'
  <2> SUFFICES ASSUME NEW t \in Threads, verdict'[t] = "completed"
               PROVE  pc'[t] \in Working /\ results'[tj'[t]] > 0
    BY DEF VerdictBacked
  <2>1. CASE VerdictKept(t)
    <3>1. pc[t] \in Working /\ results[tj[t]] > 0 /\ tj[t] \in Jobs
      BY <2>1 DEF VerdictKept, ResultInv, VerdictBacked, Working, TypeOK, TypeThreads
    <3> QED BY <1>1, <2>1, <3>1 DEF VerdictKept
  <2> QED BY <2>1, VerdictMoves DEF VerdictStored
<1>3. NeverSweptCompleted'
  <2> SUFFICES ASSUME NEW x \in Sweepers, NEW j \in Jobs PROVE sweep'[x][j] # "completed"
    BY DEF NeverSweptCompleted
  <2>1. CASE sweep'[x] = sweep[x]
    BY <2>1 DEF ResultInv, NeverSweptCompleted
  <2>2. CASE sweep'[x] = NoSweep
    BY <2>2 DEF NoSweep
  <2>3. CASE SweepRead(x)
    BY <2>3 DEF SweepRead, TypeOK, TypeProcs
  <2> QED BY <2>1, <2>2, <2>3, SweepMoves
<1>4. CompletedBacked'
  <2> SUFFICES ASSUME NEW j \in Jobs, status'[j] = "completed" PROVE results'[j] > 0
    BY DEF CompletedBacked
  <2>1. CASE status[j] = "completed"
    BY <1>1, <2>1 DEF ResultInv, CompletedBacked
  <2>2. ASSUME NEW t \in Threads, PersistWrite(t) PROVE status[j] = "completed" \/ results'[j] > 0
    BY <2>2 DEF PersistWrite, TypeOK, TypeJobs
  <2>3. ASSUME NEW t \in Threads, FinishWrite(t) PROVE status[j] = "completed" \/ results'[j] > 0
    BY <2>3, <1>1 DEF FinishWrite, ResultInv, VerdictBacked, TypeOK, TypeJobs
  <2>4. ASSUME NEW x \in Sweepers, SweepWrite(x) PROVE status[j] = "completed"
    BY <2>4 DEF SweepWrite, ResultInv, NeverSweptCompleted
  <2>5. ASSUME \/ \E t \in Threads : EnqueueInsert(t) \/ Claim(t) \/ PersistCheck(t) \/ Finalize(t)
               \/ \E c \in Cancellers : CancelWrite(c)
               \/ UNCHANGED rowVars
        PROVE  status[j] = "completed"
    BY <2>5 DEF EnqueueInsert, Claim, PersistCheck, Finalize, CancelWrite, rowVars, TypeOK,
                TypeJobs
  <2> QED BY <2>1, <2>2, <2>3, <2>4, <2>5, RowsWritten DEF Writes
<1> QED BY <1>2, <1>3, <1>4 DEF ResultInv

\* The verdicts, the sweeps and the rows go together in every reachable state.
THEOREM ResultInvariant == Spec => []ResultInv
<1>1. Init => ResultInv
  BY DEF Init, ResultInv, VerdictBacked, NeverSweptCompleted, CompletedBacked, NoSweep
<1> QED BY <1>1, ResultNext, TypeCorrect, PTL DEF Spec

\* A job that is shown as completed has its result, stored once, whoever wrote
\* the status last: persist_scan_result, _finish_if_active with a verdict decided
\* before other transactions, or a sweep.
THEOREM CompletedKeepsResult == Spec => []CompletedHasResult
<1>1. TypeOK /\ OnceInv /\ ResultInv => CompletedHasResult
  BY DEF TypeOK, TypeJobs, OnceInv, AtMostOnce, ResultInv, CompletedBacked,
         CompletedHasResult
<1> QED BY <1>1, ResultInvariant, OnceInvariant, TypeCorrect, PTL
-----------------------------------------------------------------------------
\* The outcome of a scan whose supervisor keeps up: its inductive invariant.  Such a
\* supervisor is never found by a sweep; so what a sweep has found has no supervisor
\* and will not get one, and a verdict that is about to be written is not written
\* over a result.
Timely == \A t \in Threads : pc[t] \in Supervising => hb[tj[t]] <= Grace
FinwriteIsEmpty == \A t \in Threads : pc[t] = "finwrite" => results[tj[t]] = 0
RunningIsClaimed == \A j \in Jobs : status[j] = "running" => attempts[j] > 0
Unsupervised(j) == \A t \in Threads : pc[t] \in Supervising => tj[t] # j
SweptIsOver ==
  \A x \in Sweepers, j \in Jobs :
    sweep[x][j] # "none" => results[j] = 0 /\ attempts[j] > 0 /\ Unsupervised(j)
OutcomeInv ==
  Timely /\ FinwriteIsEmpty /\ RunningIsClaimed /\ SweptIsOver /\ ResultIsShown

\* What was proved before about every reachable state.
Sound == TypeOK /\ OnceInv /\ OutboxInv /\ ResultInv

LEMMA SupervisingHasJob ==
  ASSUME TypeOK PROVE \A t \in Threads : pc[t] \in Supervising => tj[t] \in Jobs
  BY LeasedHasJob, SupervisingLeased

\* Only a claim makes a supervisor.
LEMMA SupervisorsCome ==
  ASSUME Sound, [Next]_vars, NEW u \in Threads, pc'[u] \in Supervising
  PROVE  \/ pc[u] \in Supervising /\ tj'[u] = tj[u]
         \/ Claimed(u)
<1>1. CASE Calm
  BY <1>1, SupervisingLeased DEF Calm, GoesOn
<1>2. ASSUME NEW t \in Threads, Acquired(t)
      PROVE  pc[u] \in Supervising /\ tj'[u] = tj[u]
  BY <1>2 DEF Acquired, AcquireLease, LeaseFree, Goto, Sound, TypeOK, TypeThreads, Supervising
<1>3. ASSUME NEW t \in Threads, Claimed(t)
      PROVE  \/ pc[u] \in Supervising /\ tj'[u] = tj[u]
             \/ Claimed(u)
  BY <1>3 DEF Claimed, Claim, Goto, Sound, TypeOK, TypeThreads
<1>4. ASSUME NEW t \in Threads, PersistWrite(t)
      PROVE  pc[u] \in Supervising /\ tj'[u] = tj[u]
  BY <1>4 DEF PersistWrite, Local, At, Goto, Sound, TypeOK, TypeThreads, Supervising
<1> QED BY <1>1, <1>2, <1>3, <1>4, CalmNext DEF Sound

\* Who writes heartbeats and cancellation requests.
LEMMA HeartbeatsMove ==
  ASSUME [Next]_vars
  PROVE  /\ UNCHANGED hb \/ Tick \/ \E t \in Threads : Claim(t) \/ Renew(t)
         /\ UNCHANGED cancelReq \/ \E c \in Cancellers : CancelWrite(c)
<1> DEFINE Good == /\ UNCHANGED hb \/ Tick \/ \E t \in Threads : Claim(t) \/ Renew(t)
                   /\ UNCHANGED cancelReq \/ \E c \in Cancellers : CancelWrite(c)
<1>1. ASSUME NEW t \in Threads, Thread(t) PROVE Good
  <2>1. CASE EnqueueInsert(t) \/ Admit(t)
    BY <2>1 DEF EnqueueInsert, Admit, Notify, DispatchRead, Reserve, AcquireLease, Claim
  <2>2. CASE Supervise(t)
    BY <2>2 DEF Supervise, Launch, WorkerDone, WorkerBroken, SeeCancel, Renew, Pass,
         TimeOut, Stop, PersistCheck, PersistWrite, FinishRead, FinishWrite, Finalize,
         ReleaseSlot, ReleaseLease, Local
  <2> QED BY <1>1, <2>1, <2>2 DEF Thread
<1>2. ASSUME NEW t \in Threads,
             CleanupFails(t) \/ DbFault(t) \/ \E r \in Repos : EnqueueCheck(t, r)
      PROVE  Good
  BY <1>2 DEF CleanupFails, DbFault, EnqueueCheck
<1>3. ASSUME NEW c \in Cancellers, Cancel(c) \/ \E j \in Jobs : CancelSignal(c, j)
      PROVE  Good
  BY <1>3 DEF Cancel, CancelRead, CancelSignal, CancelWrite
<1>4. ASSUME NEW x \in Sweepers, Reconcile(x) PROVE Good
  BY <1>4 DEF Reconcile, SweepRead, SweepWrite
<1>5. ASSUME NEW p \in Procs, Crash(p) \/ Restart(p) PROVE Good
  BY <1>5 DEF Crash, Restart
<1>6. Tick \/ UNCHANGED vars => Good
  BY DEF Tick, vars
<1> QED BY <1>1, <1>2, <1>3, <1>4, <1>5, <1>6 DEF Next

\* Who stores results and counts claims.
LEMMA ResultsMove ==
  ASSUME Sound, [Next]_vars, NEW j \in Jobs
  PROVE  /\ \/ results'[j] = results[j]
            \/ \E t \in Threads : PersistWrite(t) /\ tj[t] = j
         /\ attempts'[j] >= attempts[j]
<1> USE DEF Sound, TypeOK, TypeJobs
<1>1. CASE Calm
  BY <1>1 DEF Calm
<1>2. ASSUME NEW t \in Threads, Acquired(t) \/ Claimed(t)
      PROVE  results'[j] = results[j] /\ attempts'[j] >= attempts[j]
  BY <1>2 DEF Acquired, AcquireLease, Claimed, Claim
<1>3. ASSUME NEW t \in Threads, PersistWrite(t)
      PROVE  /\ results'[j] = results[j] \/ tj[t] = j
             /\ attempts'[j] >= attempts[j]
  BY <1>3 DEF PersistWrite
<1> QED BY <1>1, <1>2, <1>3, CalmNext

LEMMA TimelyNext ==
  ASSUME Prompt = Supervising, Sound, Timely, [Next]_vars PROVE Timely'
<1> SUFFICES ASSUME NEW u \in Threads, pc'[u] \in Supervising PROVE hb'[tj'[u]] <= Grace
  BY DEF Timely
<1>1. CASE Claimed(u)
  <2>1. tj[u] \in Jobs /\ tj' = tj
    BY <1>1, LeasedHasJob DEF Claimed, Claim, At, Leased, Sound
  <2>2. hb'[tj[u]] = 0
    BY <1>1, <2>1 DEF Claimed, Claim, Sound, TypeOK, TypeJobs
  <2> QED BY <2>1, <2>2, TimeAssumption
<1>2. CASE pc[u] \in Supervising /\ tj'[u] = tj[u]
  <2> PICK j \in Jobs : j = tj[u]
    BY <1>2, SupervisingHasJob DEF Sound
  <2>1. hb[j] <= Grace /\ hb[j] \in Nat
    BY <1>2 DEF Timely, Sound, TypeOK, TypeJobs
  <2>2. CASE UNCHANGED hb
    BY <1>2, <2>1, <2>2
  <2>3. CASE Tick
    <3>1. hb[j] < Grace
      BY <1>2, <2>3 DEF Tick
    <3>2. hb'[j] = hb[j] \/ hb'[j] = Older(hb[j])
      BY <2>3 DEF Tick
    <3> QED BY <1>2, <2>1, <3>1, <3>2, TimeAssumption DEF Older
  <2>4. ASSUME NEW t \in Threads, Claim(t) \/ Renew(t) PROVE hb'[j] = hb[j] \/ hb'[j] = 0
    BY <2>4 DEF Claim, Renew, Sound, TypeOK, TypeJobs
  <2> QED BY <1>2, <2>1, <2>2, <2>3, <2>4, HeartbeatsMove, TimeAssumption
<1> QED BY <1>1, <1>2, SupervisorsCome

LEMMA ClaimedNext ==
  ASSUME Sound, RunningIsClaimed, [Next]_vars PROVE RunningIsClaimed'
<1> SUFFICES ASSUME NEW j \in Jobs, status'[j] = "running" PROVE attempts'[j] > 0
  BY DEF RunningIsClaimed
<1>0. attempts[j] \in Nat /\ attempts'[j] \in Nat /\ attempts'[j] >= attempts[j]
  BY ResultsMove, TypeNext DEF Sound, TypeOK, TypeJobs
<1> USE DEF Sound, TypeOK, TypeJobs
<1>1. CASE status[j] = "running"
  BY <1>0, <1>1 DEF RunningIsClaimed
<1>2. ASSUME NEW t \in Threads, Claim(t), status[j] # "running" PROVE attempts'[j] > 0
  BY <1>0, <1>2 DEF Claim
<1>3. ASSUME NEW t \in Threads, PersistCheck(t), status[j] # "running"
      PROVE  attempts'[j] > 0
  <2>1. attempts[tj[t]] = 1
    BY <1>3 DEF PersistCheck, At, OnceInv, AttemptCounted, Supervising
  <2>2. j = tj[t]
    BY <1>3 DEF PersistCheck
  <2> QED BY <1>0, <2>1, <2>2
<1>4. ASSUME NEW t \in Threads,
             EnqueueInsert(t) \/ PersistWrite(t) \/ FinishWrite(t) \/ Finalize(t)
      PROVE  status[j] = "running"
  BY <1>4 DEF EnqueueInsert, PersistWrite, FinishWrite, Finalize, TypeThreads, Terminal
<1>5. ASSUME NEW c \in Cancellers, CancelWrite(c) PROVE status[j] = "running"
  BY <1>5 DEF CancelWrite
<1>6. ASSUME NEW x \in Sweepers, SweepWrite(x) PROVE status[j] = "running"
  BY <1>6 DEF SweepWrite, TypeProcs, Terminal
<1>7. CASE UNCHANGED rowVars
  BY <1>1, <1>7 DEF rowVars
<1> QED BY <1>1, <1>2, <1>3, <1>4, <1>5, <1>6, <1>7, RowsWritten DEF Writes

LEMMA SweptNext ==
  ASSUME Sound, OutcomeInv, [Next]_vars PROVE SweptIsOver'
<1> SUFFICES ASSUME NEW x \in Sweepers, NEW j \in Jobs, sweep'[x][j] # "none"
             PROVE  results'[j] = 0 /\ attempts'[j] > 0 /\ Unsupervised(j)'
  BY DEF SweptIsOver
<1>1. CASE SweepRead(x)
  <2>1. status[j] = "running" /\ hb[j] > Grace
    BY <1>1 DEF SweepRead, Abandoned, Sound, TypeOK, TypeProcs
  <2>2. results[j] = 0 /\ attempts[j] > 0
    BY <2>1 DEF OutcomeInv, ResultIsShown, RunningIsClaimed, Sound, TypeOK, TypeJobs
  <2>3. Unsupervised(j)
    BY <2>1, TimeAssumption DEF OutcomeInv, Timely, Unsupervised, Sound, TypeOK, TypeJobs
  <2> QED BY <1>1, <2>2, <2>3 DEF SweepRead, Unsupervised
<1>2. CASE sweep'[x] = sweep[x]
  <2>1. results[j] = 0 /\ attempts[j] > 0 /\ Unsupervised(j)
    BY <1>2 DEF OutcomeInv, SweptIsOver
  <2>2. ~\E t \in Threads : PersistWrite(t) /\ tj[t] = j
    BY <2>1 DEF PersistWrite, At, Unsupervised, Supervising
  <2>3. results'[j] = 0
    BY <2>1, <2>2, ResultsMove
  <2>4. attempts'[j] > 0
    BY <2>1, ResultsMove, TypeNext DEF Sound, TypeOK, TypeJobs
  <2>5. ~\E t \in Threads : Claimed(t) /\ tj[t] = j
    BY <2>1 DEF Claimed, Claim, At, Sound, OnceInv, AttemptCounted
  <2>6. Unsupervised(j)'
    BY <2>1, <2>5, SupervisorsCome DEF Unsupervised, Claimed, Claim
  <2> QED BY <2>3, <2>4, <2>6
<1>3. CASE sweep'[x] = NoSweep
  BY <1>3 DEF NoSweep
<1> QED BY <1>1, <1>2, <1>3, SweepMoves DEF Sound

LEMMA ShownNext ==
  ASSUME Sound, OutcomeInv, [Next]_vars PROVE ResultIsShown'
<1> DEFINE Shown(j) == \/ status[j] = "completed"
                       \/ status[j] = "cancelled" /\ cancelReq[j]
<1> SUFFICES ASSUME NEW j \in Jobs, results'[j] > 0 PROVE Shown(j)'
  BY DEF ResultIsShown
<1> USE DEF Sound, TypeOK, TypeJobs
<1>1. ASSUME NEW t \in Threads, PersistWrite(t), tj[t] = j PROVE Shown(j)'
  BY <1>1 DEF PersistWrite
<1>2. CASE results'[j] = results[j]
  <2>0. results[j] > 0 /\ Shown(j)
    BY <1>2 DEF OutcomeInv, ResultIsShown
  <2>1. cancelReq[j] => cancelReq'[j]
    <3>1. ASSUME NEW c \in Cancellers, CancelWrite(c), cancelReq[j] PROVE cancelReq'[j]
      BY <3>1 DEF CancelWrite
    <3> QED BY <3>1, HeartbeatsMove
  <2>2. ASSUME status'[j] = status[j] PROVE Shown(j)'
    BY <2>0, <2>1, <2>2
  <2>3. ASSUME NEW t \in Threads, EnqueueInsert(t) PROVE Shown(j)'
    BY <2>0, <2>2, <2>3 DEF EnqueueInsert, FreshJobs
  <2>4. ASSUME NEW t \in Threads, Claim(t) PROVE Shown(j)'
    <3>1. attempts[tj[t]] = 0
      BY <2>4 DEF Claim, At, OnceInv, AttemptCounted
    <3>2. attempts[j] # 0
      BY <2>0 DEF OnceInv, AtMostOnce
    <3> QED BY <2>2, <2>4, <3>1, <3>2 DEF Claim
  <2>5. ASSUME NEW t \in Threads, PersistCheck(t) PROVE Shown(j)'
    BY <2>0, <2>2, <2>5 DEF PersistCheck
  <2>6. ASSUME NEW t \in Threads, PersistWrite(t) PROVE Shown(j)'
    BY <2>2, <2>6 DEF PersistWrite
  <2>7. ASSUME NEW t \in Threads, FinishWrite(t) PROVE Shown(j)'
    <3>1. results[tj[t]] = 0
      BY <2>7 DEF FinishWrite, At, OutcomeInv, FinwriteIsEmpty
    <3> QED BY <2>0, <2>2, <2>7, <3>1 DEF FinishWrite
  <2>8. ASSUME NEW t \in Threads, Finalize(t) PROVE Shown(j)'
    BY <2>2, <2>8 DEF Finalize
  <2>9. ASSUME NEW c \in Cancellers, CancelWrite(c) PROVE Shown(j)'
    BY <2>2, <2>9 DEF CancelWrite
  <2>10. ASSUME NEW x \in Sweepers, SweepWrite(x) PROVE Shown(j)'
    <3>1. sweep[x][j] = "none"
      BY <2>0 DEF OutcomeInv, SweptIsOver
    <3> QED BY <2>2, <2>10, <3>1 DEF SweepWrite
  <2>11. CASE UNCHANGED rowVars
    BY <2>2, <2>11 DEF rowVars
  <2> QED BY <2>3, <2>4, <2>5, <2>6, <2>7, <2>8, <2>9, <2>10, <2>11, RowsWritten DEF Writes
<1> QED BY <1>1, <1>2, ResultsMove

\* Control points between a transaction that has read the job as active and the
\* one that writes its outcome: only that read leads there.
Pending == {"write", "finwrite"}

LEMMA PendingMoves ==
  ASSUME TypeOK, [Next]_vars, NEW t \in Threads, pc'[t] \in Pending
  PROVE  \/ pc'[t] = pc[t] /\ tj'[t] = tj[t]
         \/ PersistCheck(t)
         \/ FinishRead(t)
<1> DEFINE Stayed == pc'[t] = pc[t] /\ tj'[t] = tj[t]
<1>1. ASSUME NEW u \in Threads, NEW l, Goto(u, l), l \notin Pending \/ u # t, UNCHANGED tj
      PROVE  Stayed
  BY <1>1 DEF Goto, TypeOK, TypeThreads
<1>2. ASSUME NEW S, Quit(S) PROVE Stayed
  BY <1>2 DEF Quit, Pending
<1>3. ASSUME NEW u \in Threads, EnqueueInsert(u) \/ \E r \in Repos : EnqueueCheck(u, r)
      PROVE  Stayed
  BY <1>3 DEF Pending, EnqueueInsert, EnqueueCheck, At, Goto, TypeOK, TypeThreads
<1>4. ASSUME NEW u \in Threads, Admit(u) PROVE Stayed
  BY <1>1, <1>2, <1>4 DEF Pending, Admit, Notify, DispatchRead, Reserve, AcquireLease, Claim
<1>5. ASSUME NEW u \in Threads, Supervise(u), ~(PersistCheck(t) \/ FinishRead(t)) PROVE Stayed
  <2>1. CASE WorkerBroken(u)
    BY <1>1, <2>1 DEF Pending, WorkerBroken, Local
  <2>2. CASE Launch(u) \/ WorkerDone(u) \/ SeeCancel(u) \/ Renew(u) \/ Pass(u) \/ TimeOut(u)
    BY <1>1, <2>2 DEF Pending, Launch, WorkerDone, SeeCancel, Renew, Pass, TimeOut, Local
  <2>3. CASE Stop(u) \/ PersistWrite(u) \/ FinishWrite(u)
    BY <1>1, <2>3 DEF Pending, Stop, PersistWrite, FinishWrite, Local
  <2>4. CASE Finalize(u) \/ ReleaseSlot(u)
    BY <1>1, <2>4 DEF Pending, Finalize, ReleaseSlot, Local
  <2>5. CASE PersistCheck(u) \/ FinishRead(u)
    BY <1>1, <1>5, <2>5 DEF Pending, PersistCheck, FinishRead, Local
  <2>6. CASE ReleaseLease(u)
    BY <1>2, <2>6 DEF ReleaseLease
  <2> QED BY <1>5, <2>1, <2>2, <2>3, <2>4, <2>5, <2>6 DEF Supervise
<1>6. ASSUME NEW u \in Threads, CleanupFails(u) \/ DbFault(u) PROVE Stayed
  BY <1>1, <1>2, <1>6 DEF Pending, CleanupFails, DbFault, Local
<1>7. ASSUME \/ \E c \in Cancellers : Cancel(c) \/ \E j \in Jobs : CancelSignal(c, j)
             \/ \E x \in Sweepers : Reconcile(x)
             \/ \E p \in Procs : Crash(p) \/ Restart(p)
             \/ Tick
             \/ UNCHANGED vars
      PROVE  Stayed
  BY <1>2, <1>7 DEF Cancel, CancelSignal, CancelRead, CancelWrite, Reconcile, SweepRead,
              SweepWrite, Crash, Restart, Tick, vars
<1> QED BY <1>3, <1>4, <1>5, <1>6, <1>7 DEF Next, Thread

LEMMA FinwriteNext ==
  ASSUME Sound, OutcomeInv, [Next]_vars PROVE FinwriteIsEmpty'
<1> SUFFICES ASSUME NEW t \in Threads, pc'[t] = "finwrite" PROVE results'[tj'[t]] = 0
  BY DEF FinwriteIsEmpty
<1>1. CASE pc[t] = "finwrite" /\ tj'[t] = tj[t]
  <2>1. tj[t] \in Jobs /\ results[tj[t]] = 0
    BY <1>1, SupervisingHasJob DEF OutcomeInv, FinwriteIsEmpty, Sound, Supervising
  <2>2. ASSUME NEW u \in Threads, PersistWrite(u) PROVE tj[u] # tj[t]
    BY <1>1, <2>2 DEF PersistWrite, At, Sound, OnceInv, OneLeased, Leased, Supervising
  <2> QED BY <1>1, <2>1, <2>2, ResultsMove
<1>2. CASE FinishRead(t)
  <2>1. /\ pc[t] = "finish" /\ UNCHANGED <<tj, results>>
        /\ pc'[t] = IF status[tj[t]] \in Active THEN "finwrite" ELSE "finalize"
    BY <1>2 DEF FinishRead, Local, At, Goto, Sound, TypeOK, TypeThreads
  <2>2. status[tj[t]] \in Active /\ tj[t] \in Jobs
    BY <2>1, SupervisingHasJob DEF Sound, Supervising
  <2> QED BY <2>1, <2>2 DEF Active, OutcomeInv, ResultIsShown, Sound, TypeOK, TypeJobs
<1>3. CASE PersistCheck(t)
  BY <1>3 DEF PersistCheck, Goto, Sound, TypeOK, TypeThreads
<1> QED BY <1>1, <1>2, <1>3, PendingMoves DEF Pending, Sound

LEMMA OutcomeInit == Init => OutcomeInv
  BY DEF Init, OutcomeInv, Timely, FinwriteIsEmpty, RunningIsClaimed, SweptIsOver,
         ResultIsShown, NoSweep, Supervising

\* What the earlier modules prove of every specification of ScanControl, in one:
\* types, at most one run and result, an outbox that agrees with the jobs.
THEOREM SoundInvariant == Spec => []Sound
  BY TypeCorrect, OnceInvariant, OutboxInvariant, ResultInvariant, PTL DEF Sound

\* A supervisor that keeps up is not found by a sweep, a running job was claimed, and
\* what a sweep has found is over or without a supervisor for good.
THEOREM OutcomeInvariant ==
  ASSUME Prompt = Supervising PROVE Spec => []OutcomeInv
<1>1. Sound /\ OutcomeInv /\ [Next]_vars => OutcomeInv'
  BY TimelyNext, FinwriteNext, ClaimedNext, SweptNext, ShownNext DEF OutcomeInv
<1> QED BY <1>1, OutcomeInit, SoundInvariant, PTL DEF Spec

\* When every control point of the supervision is prompt, a stored result is
\* disowned by nothing but a cancellation that was recorded: no sweep, retry,
\* failed clean-up or late verdict of _finish_if_active revises a completed job,
\* whatever crashes and whichever transactions raise.
THEOREM ResultStaysShown ==
  ASSUME Prompt = Supervising PROVE Spec => []ResultIsShown
<1>1. OutcomeInv => ResultIsShown
  BY DEF OutcomeInv
<1> QED BY <1>1, OutcomeInvariant, PTL

-----------------------------------------------------------------------------
\* Without cancellations the row goes through ScanLifecycle.

\* A job whose outcome is about to be written still runs, and one that was never
\* claimed still waits.
PendingRuns == \A t \in Threads : pc[t] \in Pending => status[tj[t]] = "running"
UnclaimedWaits == \A j \in Jobs : attempts[j] = 0 => status[j] \in {"none", "queued"}
LifeInv == PendingRuns /\ UnclaimedWaits

\* A job that a thread supervises is not queued any more.
LEMMA SupervisedActive ==
  ASSUME Sound, NEW t \in Threads, pc[t] \in Supervising, status[tj[t]] \in Active
  PROVE  status[tj[t]] = "running"
<1>1. attempts[tj[t]] = 1 /\ tj[t] \in Jobs
  BY SupervisingHasJob DEF Sound, OnceInv, AttemptCounted
<1> QED BY <1>1 DEF Active, Sound, OutboxInv, RowsAgree, QueuedIsClaimable

LEMMA PendingNext ==
  ASSUME Cancellers = {}, Sound, OutcomeInv, LifeInv, [Next]_vars
  PROVE  PendingRuns'
<1> SUFFICES ASSUME NEW t \in Threads, pc'[t] \in Pending PROVE status'[tj'[t]] = "running"
  BY DEF PendingRuns
<1> USE DEF Sound, TypeOK, TypeJobs, TypeThreads
<1>1. CASE PersistCheck(t)
  <2>1. tj'[t] = tj[t] /\ tj[t] \in Jobs /\ pc'[t] = "write"
    BY <1>1, SupervisingHasJob DEF PersistCheck, At, Goto, Local, Supervising, Pending
  <2> QED BY <1>1, <2>1 DEF PersistCheck, Goto
<1>2. CASE FinishRead(t)
  <2>1. status' = status /\ tj' = tj /\ pc[t] = "finish" /\ status[tj[t]] \in Active
    BY <1>2 DEF FinishRead, At, Goto, Local, Pending
  <2> QED BY <2>1, SupervisedActive DEF Supervising
<1>3. CASE pc'[t] = pc[t] /\ tj'[t] = tj[t]
  <2> PICK j \in Jobs : j = tj[t]
    BY <1>3, SupervisingHasJob DEF Pending, Supervising
  <2>1. status[j] = "running" /\ pc[t] \in Supervising
    BY <1>3 DEF LifeInv, PendingRuns, Pending, Supervising
  <2>2. ASSUME NEW u \in Threads, EnqueueInsert(u) \/ Claim(u) \/ PersistCheck(u) \/ Finalize(u)
        PROVE  status'[j] = "running"
    BY <2>1, <2>2 DEF EnqueueInsert, FreshJobs, Claim, PersistCheck, Finalize
  <2>3. ASSUME NEW u \in Threads, PersistWrite(u) \/ FinishWrite(u)
        PROVE  status'[j] = "running"
    <3>1. u # t
      BY <1>3, <2>3 DEF PersistWrite, FinishWrite, Goto, At, Pending
    <3>2. tj[u] # j
      BY <2>1, <2>3, <3>1
      DEF PersistWrite, FinishWrite, At, OnceInv, OneLeased, Leased, Supervising
    <3> QED BY <2>1, <2>3, <3>2 DEF PersistWrite, FinishWrite
  <2>4. ASSUME NEW x \in Sweepers, SweepWrite(x) PROVE status'[j] = "running"
    <3>1. sweep[x][j] = "none"
      BY <2>1 DEF OutcomeInv, SweptIsOver, Unsupervised
    <3> QED BY <2>1, <2>4, <3>1 DEF SweepWrite
  <2>5. UNCHANGED rowVars => status' = status
    BY DEF rowVars
  <2>6. Writes \/ status' = status
    BY <2>5, RowsWritten
  <2>7. status'[j] = "running"
    <3>1. CASE Writes
      BY <3>1, <2>2, <2>3, <2>4 DEF Writes
    <3> QED BY <3>1, <2>1, <2>6
  <2> QED BY <1>3, <2>7
<1> QED BY <1>1, <1>2, <1>3, PendingMoves

LEMMA UnclaimedNext ==
  ASSUME Cancellers = {}, Sound, OutcomeInv, LifeInv, [Next]_vars
  PROVE  UnclaimedWaits'
<1> SUFFICES ASSUME NEW j \in Jobs, attempts'[j] = 0 PROVE status'[j] \in {"none", "queued"}
  BY DEF UnclaimedWaits
<1> USE DEF Sound, TypeOK, TypeJobs
<1>0. attempts[j] = 0 /\ status[j] \in {"none", "queued"}
  BY ResultsMove DEF LifeInv, UnclaimedWaits
<1>1. ASSUME NEW t \in Threads, EnqueueInsert(t) \/ Finalize(t)
      PROVE  status'[j] \in {"none", "queued"}
  BY <1>0, <1>1 DEF EnqueueInsert, Finalize
<1>2. ASSUME NEW t \in Threads, Claim(t) PROVE status'[j] \in {"none", "queued"}
  BY <1>0, <1>2 DEF Claim
<1>3. ASSUME NEW t \in Threads, PersistCheck(t) \/ PersistWrite(t) \/ FinishWrite(t)
      PROVE  status'[j] \in {"none", "queued"}
  <2>1. attempts[tj[t]] = 1
    BY <1>3
    DEF PersistCheck, PersistWrite, FinishWrite, At, OnceInv, AttemptCounted, Supervising
  <2> QED BY <1>0, <1>3, <2>1 DEF PersistCheck, PersistWrite, FinishWrite
<1>4. ASSUME NEW x \in Sweepers, SweepWrite(x) PROVE status'[j] \in {"none", "queued"}
  <2>1. sweep[x][j] = "none"
    BY <1>0 DEF OutcomeInv, SweptIsOver
  <2> QED BY <1>0, <1>4, <2>1 DEF SweepWrite
<1>5. CASE UNCHANGED rowVars
  BY <1>0, <1>5 DEF rowVars
<1> QED BY <1>1, <1>2, <1>3, <1>4, <1>5, RowsWritten DEF Writes

LEMMA LifeInit == Init => LifeInv
  BY DEF Init, LifeInv, PendingRuns, UnclaimedWaits, Pending

\* Without cancellations a thread on its way to a verdict finds its job running, and
\* a job that was never claimed waits in the queue.
THEOREM LifeInvariant ==
  ASSUME Prompt = Supervising, Cancellers = {} PROVE Spec => []LifeInv
<1>1. Sound /\ OutcomeInv /\ LifeInv /\ [Next]_vars => LifeInv'
  BY PendingNext, UnclaimedNext DEF LifeInv
<1> QED BY <1>1, LifeInit, SoundInvariant, OutcomeInvariant, PTL DEF Spec

\* How ScanLifecycle sees the rows.
Stages == [j \in Jobs |-> Stage(status[j])]
Stored == [j \in Jobs |-> results[j] > 0]

LEMMA SameLife ==
  ASSUME UNCHANGED <<status, results>> PROVE UNCHANGED Life!lifeVars
  BY DEF Life!lifeVars, Stage

\* The status of one job changes and nothing else.
LEMMA LifeMove ==
  ASSUME Sound, NEW j \in Jobs, NEW s, status' = [status EXCEPT ![j] = s]
  PROVE  /\ Stages' = [Stages EXCEPT ![j] = Stage(s)]
         /\ Stages[j] = Stage(status[j])
  BY DEF Stages, Stage, Sound, TypeOK, TypeJobs

LEMMA AcceptStep ==
  ASSUME Sound, NEW t \in Threads, EnqueueInsert(t) PROVE Life!Next
<1>1. PICK j \in Jobs : status[j] = "none" /\ status' = [status EXCEPT ![j] = "queued"]
  BY DEF EnqueueInsert, FreshJobs
<1>2. Stages' = [Stages EXCEPT ![j] = "queued"] /\ Stages[j] = "none"
  BY <1>1, LifeMove DEF Stage
<1>3. UNCHANGED Stored
  BY DEF EnqueueInsert, Stored
<1>4. Life!Accept(j)
  BY <1>2, <1>3 DEF Life!Accept, Life!Move, Stages, Stored
<1> QED BY <1>4 DEF Life!Next

LEMMA RunStep ==
  ASSUME Sound, LifeInv, NEW t \in Threads, Claimed(t) PROVE Life!Next
<1> PICK j \in Jobs : j = tj[t]
  BY LeasedHasJob DEF Claimed, Claim, At, Leased, Sound
<1>1. attempts[j] = 0 /\ status[j] # "none"
  BY DEF Claimed, Claim, At, Sound, OnceInv, AttemptCounted, OutboxInv, Known, WorkIsKnown,
         Working, PC, Holding
<1>2. status[j] = "queued" /\ status' = [status EXCEPT ![j] = "running"]
  BY <1>1 DEF LifeInv, UnclaimedWaits, Claimed, Claim
<1>3. Stages' = [Stages EXCEPT ![j] = "running"] /\ Stages[j] = "queued"
  BY <1>2, LifeMove DEF Stage
<1>4. UNCHANGED Stored
  BY DEF Claimed, Claim, Stored
<1>5. Life!Run(j)
  BY <1>3, <1>4 DEF Life!Run, Life!Move, Stages, Stored
<1> QED BY <1>5 DEF Life!Next

LEMMA CompleteStep ==
  ASSUME Sound, LifeInv, NEW t \in Threads, PersistWrite(t) PROVE Life!Next
<1> PICK j \in Jobs : j = tj[t]
  BY SupervisingHasJob DEF PersistWrite, At, Supervising, Sound
<1>1. status[j] = "running" /\ status' = [status EXCEPT ![j] = "completed"]
  BY DEF PersistWrite, At, LifeInv, PendingRuns, Pending
<1>2. Stages' = [Stages EXCEPT ![j] = "completed"] /\ Stages[j] = "running"
  BY <1>1, LifeMove DEF Stage
<1>3. Stored' = [Stored EXCEPT ![j] = TRUE]
  <2>1. results' = [results EXCEPT ![j] = results[j] + 1] /\ results \in [Jobs -> Nat]
    BY DEF PersistWrite, Sound, TypeOK, TypeJobs
  <2>2. results'[j] > 0 /\ \A k \in Jobs \ {j} : results'[k] = results[k]
    BY <2>1
  <2> QED BY <2>2 DEF Stored
<1>4. Life!Complete(j)
  BY <1>2, <1>3 DEF Life!Complete, Life!Move, Stages, Stored
<1> QED BY <1>4 DEF Life!Next

\* A late verdict closes the job: it is not completed, as nothing is stored.
LEMMA CloseStep ==
  ASSUME Sound, OutcomeInv, LifeInv, NEW t \in Threads, FinishWrite(t) PROVE Life!Next
<1> PICK j \in Jobs : j = tj[t]
  BY SupervisingHasJob DEF FinishWrite, At, Supervising, Sound
<1>1. status[j] = "running" /\ results[j] = 0 /\ status' = [status EXCEPT ![j] = verdict[t]]
  BY DEF FinishWrite, At, LifeInv, PendingRuns, Pending, OutcomeInv, FinwriteIsEmpty
<1>2. verdict[t] \in Terminal \ {"completed"}
  BY <1>1 DEF Sound, ResultInv, VerdictBacked, TypeOK, TypeThreads
<1>3. Stages' = [Stages EXCEPT ![j] = "closed"] /\ Stages[j] = "running"
  BY <1>1, <1>2, LifeMove DEF Stage, Terminal
<1>4. UNCHANGED Stored
  BY DEF FinishWrite, Stored
<1>5. Life!Close({j})
  BY <1>3, <1>4 DEF Life!Close, Stages, Stored
<1> QED BY <1>5 DEF Life!Next

\* A sweep closes the jobs it found that still run; the others were closed by
\* another sweep.
LEMMA SweepStep ==
  ASSUME Sound, OutcomeInv, NEW x \in Sweepers, SweepWrite(x)
  PROVE  [Life!Next]_(Life!lifeVars)
<1> PICK S \in SUBSET Jobs : S = {j \in Jobs : sweep[x][j] # "none" /\ status[j] = "running"}
  OBVIOUS
<1>1. ASSUME NEW j \in Jobs, sweep[x][j] # "none"
      PROVE  /\ sweep[x][j] \in Terminal \ {"completed"}
             /\ status'[j] = sweep[x][j]
             /\ status[j] = "running" \/ status[j] \in Terminal \ {"completed"}
  <2>1. status[j] \notin {"none", "queued"} /\ results[j] = 0
    BY <1>1 DEF Sound, OutboxInv, Known, SweepIsKnown, OutcomeInv, SweptIsOver
  <2>2. status[j] # "completed"
    BY <2>1 DEF Sound, ResultInv, CompletedBacked
  <2>3. sweep[x][j] # "completed"
    BY DEF Sound, ResultInv, NeverSweptCompleted
  <2>4. sweep[x][j] \in Terminal /\ status[j] \in Status
    BY <1>1 DEF Sound, TypeOK, TypeProcs, TypeJobs
  <2>5. status'[j] = sweep[x][j]
    BY <1>1 DEF SweepWrite
  <2> QED BY <2>1, <2>2, <2>3, <2>4, <2>5 DEF Status, Active
<1>2. ASSUME NEW j \in Jobs
      PROVE  Stages'[j] = IF j \in S THEN "closed" ELSE Stages[j]
  <2>1. CASE sweep[x][j] # "none"
    BY <1>1, <2>1 DEF Stages, Stage, Terminal
  <2>2. CASE sweep[x][j] = "none"
    BY <2>2 DEF Stages, Stage, SweepWrite
  <2> QED BY <2>1, <2>2
<1>3. Stages' = [j \in Jobs |-> IF j \in S THEN "closed" ELSE Stages[j]]
  BY <1>2 DEF Stages
<1>4. UNCHANGED Stored
  BY DEF SweepWrite, Stored
<1>5. \A j \in S : Stages[j] = "running"
  BY DEF Stages, Stage
<1>6. CASE S = {}
  <2>1. UNCHANGED Stages
    BY <1>3, <1>6 DEF Stages
  <2> QED BY <1>4, <2>1 DEF Life!lifeVars, Stages, Stored
<1>7. CASE S # {}
  <2>1. Life!Close(S)
    BY <1>3, <1>4, <1>5, <1>7 DEF Life!Close, Stages, Stored
  <2> QED BY <2>1 DEF Life!Next
<1> QED BY <1>6, <1>7

LEMMA LifeNext ==
  ASSUME Cancellers = {}, Sound, OutcomeInv, LifeInv, [Next]_vars
  PROVE  [Life!Next]_(Life!lifeVars)
<1>1. ASSUME NEW t \in Threads, Claim(t), ~Claimed(t) PROVE UNCHANGED <<status, results>>
  BY <1>1 DEF Claim, Claimed
<1>2. ASSUME NEW t \in Threads, PersistCheck(t) PROVE UNCHANGED <<status, results>>
  <2>1. status[tj[t]] \in Active => status[tj[t]] = "running"
    BY <1>2, SupervisedActive DEF PersistCheck, At, Supervising
  <2> QED BY <1>2, <2>1 DEF PersistCheck, Sound, TypeOK, TypeJobs
<1>3. ASSUME NEW t \in Threads, Finalize(t) PROVE UNCHANGED <<status, results>>
  BY <1>3 DEF Finalize
<1>4. UNCHANGED rowVars => UNCHANGED <<status, results>>
  BY DEF rowVars
<1> QED BY <1>1, <1>2, <1>3, <1>4, SameLife, RowsWritten, AcceptStep, RunStep, CompleteStep,
           CloseStep, SweepStep DEF Writes

LEMMA LifeStarts == Init => Life!Init
<1> SUFFICES ASSUME Init PROVE Life!Init
  OBVIOUS
<1>1. \A j \in Jobs : Stage(status[j]) = "none" /\ (results[j] > 0) = FALSE
  BY DEF Init, Stage
<1> QED BY <1>1 DEF Life!Init

\* When every control point of the supervision is prompt and nobody cancels, the
\* row of each job implements ScanLifecycle: accepted once, run once, and then
\* completed with its result or closed without one for good, whatever crashes,
\* fails and is swept.
THEOREM RowsLiveOnce ==
  ASSUME Prompt = Supervising, Cancellers = {} PROVE Spec => Lifecycle
<1>1. /\ Sound /\ OutcomeInv /\ LifeInv /\ [Next]_vars
      => [Life!Next]_(Life!lifeVars)
  BY LifeNext
<1> QED BY <1>1, LifeStarts, SoundInvariant, OutcomeInvariant, LifeInvariant, PTL
        DEF Spec, Lifecycle, Life!Spec
=============================================================================
