-------------------------- MODULE ScanSafetyProofs --------------------------
(***************************************************************************)
(* Safety of ScanControl for every value of its constants: every variable  *)
(* keeps its type, one scan runs at a time in a process, a cancelled scan  *)
(* is not claimed, and every thread supervises as SupervisionOutline says. *)
(***************************************************************************)
EXTENDS ScanProperties, TLAPS

USE DEF jobVars, dispVars, leaseVars, threadVars, cancelVars, faultVars, dbVars

-----------------------------------------------------------------------------
\* Type correctness.

LEMMA OlderType == ASSUME NEW a \in 0..(TTL + 1) PROVE Older(a) \in 0..(TTL + 1)
  BY TimeAssumption DEF Older

LEMMA TypeInit == Init => TypeOK
<1> SUFFICES ASSUME Init PROVE TypeOK OBVIOUS
<1>1. TypeJobs
  BY TimeAssumption DEF Init, TypeJobs, Status, DState
<1>2. TypeLeases
  BY TimeAssumption DEF Init, TypeLeases
<1>3. TypeThreads
  BY DEF Init, TypeThreads, Terminal, PC
<1>4. TypeCancels
  BY DEF Init, TypeCancels, DState, Status, NotSeen
<1>5. TypeProcs
  BY BoundsAssumption DEF Init, TypeProcs, NoSweep
<1> QED BY <1>1, <1>2, <1>3, <1>4, <1>5 DEF TypeOK

\* What an action leaves alone keeps its type.
LEMMA SameJobs == ASSUME TypeJobs, UNCHANGED <<jobVars, dispVars>> PROVE TypeJobs'
  BY DEF TypeJobs

LEMMA SameLeases == ASSUME TypeLeases, UNCHANGED leaseVars PROVE TypeLeases'
  BY DEF TypeLeases

LEMMA SameThreads == ASSUME TypeThreads, UNCHANGED threadVars PROVE TypeThreads'
  BY DEF TypeThreads

LEMMA SameCancels == ASSUME TypeCancels, UNCHANGED cancelVars PROVE TypeCancels'
  BY DEF TypeCancels

LEMMA SameProcs ==
  ASSUME TypeProcs, UNCHANGED <<up, slot, sweep, faultVars>> PROVE TypeProcs'
  BY DEF TypeProcs

\* A thread that has a job may go to any control point behind admission.
LEMMA GotoType ==
  ASSUME TypeThreads, NEW t \in Threads, NEW l \in PC \ {"idle", "insert"},
         Goto(t, l), tj[t] \in Jobs, UNCHANGED <<tj, want, cancelEv>>,
         verdict' \in [Threads -> Terminal], tries' \in [Threads -> 0..2]
  PROVE  TypeThreads'
<1>1. pc' \in [Threads -> PC]
  BY DEF TypeThreads, Goto
<1>2. \A u \in Threads : pc'[u] \notin {"idle", "insert"} => tj'[u] \in Jobs
  BY DEF TypeThreads, Goto
<1>3. \A u \in Threads : pc'[u] = "insert" => want'[u] \in Repos
  BY DEF TypeThreads, Goto
<1> QED BY <1>1, <1>2, <1>3 DEF TypeThreads

\* Threads that are gone have no job.
LEMMA QuitType == ASSUME NEW S, TypeThreads, Quit(S) PROVE TypeThreads'
<1>1. pc' \in [Threads -> PC] /\ tj' \in [Threads -> Jobs \cup {NoJob}]
  BY DEF TypeThreads, Quit, PC
<1>2. want' \in [Threads -> Repos \cup {NoRepo}]
  BY DEF TypeThreads, Quit
<1>3. cancelEv' \in [Threads -> BOOLEAN]
  BY DEF TypeThreads, Quit
<1>4. verdict' \in [Threads -> Terminal] /\ tries' \in [Threads -> 0..2]
  BY DEF TypeThreads, Quit, Terminal
<1>5. \A u \in Threads : pc'[u] \notin {"idle", "insert"} => tj'[u] \in Jobs
  BY DEF TypeThreads, Quit
<1>6. \A u \in Threads : pc'[u] = "insert" => want'[u] \in Repos
  BY DEF TypeThreads, Quit
<1> QED BY <1>1, <1>2, <1>3, <1>4, <1>5, <1>6 DEF TypeThreads

\* Clearing the slot of a process keeps the slots' type.
LEMMA FreeSlotType ==
  ASSUME TypeProcs, NEW t \in Threads, FreeSlot(t),
         UNCHANGED <<up, sweep, faultVars>>
  PROVE  TypeProcs'
  BY DEF TypeProcs, FreeSlot

\* A thread at a control point behind admission has a job.
LEMMA HasJob ==
  ASSUME TypeThreads, NEW t \in Threads, NEW l \in PC \ {"idle", "insert"},
         At(t, l)
  PROVE  tj[t] \in Jobs
  BY DEF TypeThreads, At

LEMMA TypeEnqueueCheck ==
  ASSUME TypeOK, NEW t \in Threads, NEW r \in Repos, EnqueueCheck(t, r)
  PROVE  TypeOK'
<1>1. TypeThreads'
  BY DEF TypeOK, TypeThreads, EnqueueCheck, At, Goto, ActiveJobs, PC
<1>2. (TypeJobs /\ TypeLeases /\ TypeCancels /\ TypeProcs)'
  BY SameJobs, SameLeases, SameCancels, SameProcs DEF TypeOK, EnqueueCheck
<1> QED BY <1>1, <1>2 DEF TypeOK

LEMMA TypeEnqueueInsert ==
  ASSUME TypeOK, NEW t \in Threads, EnqueueInsert(t)
  PROVE  TypeOK'
<1>1. TypeThreads'
  BY DEF TypeOK, TypeThreads, EnqueueInsert, At, Goto, FreshJobs, PC
<1>2. TypeJobs'
  BY DEF TypeOK, TypeJobs, EnqueueInsert, FreshJobs, Status, Active, DState, Open
<1>3. (TypeLeases /\ TypeCancels /\ TypeProcs)'
  BY SameLeases, SameCancels, SameProcs DEF TypeOK, EnqueueInsert
<1> QED BY <1>1, <1>2, <1>3 DEF TypeOK

LEMMA TypeAdmit ==
  ASSUME TypeOK, NEW t \in Threads, Admit(t)
  PROVE  TypeOK'
<1> USE DEF TypeOK
<1>0. /\ verdict \in [Threads -> Terminal]
      /\ tries \in [Threads -> 0..2]
  BY DEF TypeThreads
<1>1. CASE Notify(t)
  <2>1. TypeThreads'
    BY <1>0, <1>1, GotoType, HasJob DEF Notify, At, PC
  <2> QED BY <1>1, <2>1, SameJobs, SameLeases, SameCancels, SameProcs DEF Notify
<1>2. CASE DispatchRead(t)
  <2>1. TypeThreads'
    <3>1. CASE Quit({t})
      BY <3>1, QuitType
    <3>2. CASE Goto(t, "reserve") /\ UNCHANGED <<tj, want, cancelEv, verdict, tries>>
      BY <1>0, <1>2, <3>2, GotoType, HasJob DEF DispatchRead, PC
    <3> QED BY <1>2, <3>1, <3>2 DEF DispatchRead
  <2> QED BY <1>2, <2>1, SameJobs, SameLeases, SameCancels, SameProcs DEF DispatchRead
<1>3. CASE Reserve(t)
  <2>1. TypeThreads'
    <3>1. CASE Quit({t})
      BY <3>1, QuitType
    <3>2. CASE Goto(t, "lease") /\ UNCHANGED <<tj, want, cancelEv, verdict, tries>>
      BY <1>0, <1>3, <3>2, GotoType, HasJob DEF Reserve, PC, Holding
    <3> QED BY <1>3, <3>1, <3>2 DEF Reserve
  <2>2. TypeProcs'
    BY <1>3 DEF Reserve, TypeProcs
  <2> QED BY <1>3, <2>1, <2>2, SameJobs, SameLeases, SameCancels DEF Reserve
<1>4. CASE AcquireLease(t)
  <2>1. TypeThreads'
    <3>1. tj[t] \in Jobs
      BY <1>4, HasJob DEF AcquireLease, PC, Holding
    <3>2. Goto(t, "claim") \/ Goto(t, "unlease")
      BY <1>4 DEF AcquireLease
    <3> QED BY <1>0, <1>4, <3>1, <3>2, GotoType DEF AcquireLease, PC, Holding
  <2>2. TypeLeases'
    BY <1>4, TimeAssumption DEF AcquireLease, TypeLeases
  <2>3. TypeProcs'
    BY <1>4, FreeSlotType, SameProcs DEF AcquireLease
  <2> QED BY <1>4, <2>1, <2>2, <2>3, SameJobs, SameCancels DEF AcquireLease
<1>5. CASE Claim(t)
  <2>1. TypeThreads'
    <3>1. tj[t] \in Jobs
      BY <1>5, HasJob DEF Claim, PC, Holding
    <3>2. Goto(t, "start") \/ Goto(t, "unlease")
      BY <1>5 DEF Claim
    <3> QED BY <1>0, <1>5, <3>1, <3>2, GotoType DEF Claim, PC, Holding, Supervising
  <2>2. TypeJobs'
    BY <1>5, TimeAssumption DEF Claim, TypeJobs, Status, Active, DState, Open
  <2>3. TypeProcs'
    BY <1>5, FreeSlotType, SameProcs DEF Claim
  <2> QED BY <1>5, <2>1, <2>2, <2>3, SameLeases, SameCancels DEF Claim
<1> QED BY <1>1, <1>2, <1>3, <1>4, <1>5 DEF Admit

\* A supervision step that writes nothing to the database.
LEMMA TypeLocal ==
  ASSUME TypeOK, NEW t \in Threads, tj[t] \in Jobs,
         NEW l \in PC \ {"idle", "insert"}, Goto(t, l),
         verdict' \in [Threads -> Terminal], tries' \in [Threads -> 0..2],
         TypeJobs', TypeLeases', Local
  PROVE  TypeOK'
<1>1. TypeThreads'
  BY GotoType DEF TypeOK, Local
<1> QED BY <1>1, SameCancels, SameProcs DEF TypeOK, Local

LEMMA TypeSupervise ==
  ASSUME TypeOK, NEW t \in Threads, Supervise(t)
  PROVE  TypeOK'
<1> USE DEF TypeOK
<1>0. /\ verdict \in [Threads -> Terminal]
      /\ tries \in [Threads -> 0..2]
  BY DEF TypeThreads
<1>a. ASSUME UNCHANGED dbVars PROVE TypeJobs' /\ TypeLeases'
  BY <1>a, SameJobs, SameLeases
<1>b. {"start", "check", "tend", "stop", "persist", "write", "finish",
       "finwrite", "finalize", "release", "unlease"} \subseteq PC \ {"idle", "insert"}
  BY DEF PC, Holding, Supervising
<1>c. ASSUME NEW v \in Terminal, verdict' = [verdict EXCEPT ![t] = v]
      PROVE  verdict' \in [Threads -> Terminal]
  BY <1>0, <1>c
<1>d. ASSUME NEW n \in 0..2, tries' = [tries EXCEPT ![t] = n]
      PROVE  tries' \in [Threads -> 0..2]
  BY <1>0, <1>d
<1>1. CASE Launch(t)
  <2>1. tj[t] \in Jobs BY <1>1, <1>b, HasJob DEF Launch
  <2>2. verdict' \in [Threads -> Terminal] /\ tries' \in [Threads -> 0..2]
    BY <1>0, <1>1 DEF Launch, Local, Terminal
  <2> QED BY <1>1, <1>a, <1>b, <2>1, <2>2, TypeLocal DEF Launch
<1>2. CASE WorkerDone(t)
  <2>1. tj[t] \in Jobs BY <1>2, <1>b, HasJob DEF WorkerDone
  <2> QED BY <1>0, <1>2, <1>a, <1>b, <2>1, TypeLocal DEF WorkerDone
<1>3. CASE WorkerBroken(t)
  <2>1. tj[t] \in Jobs BY <1>3, <1>b, HasJob DEF WorkerBroken
  <2>2. verdict' \in [Threads -> Terminal] /\ tries' \in [Threads -> 0..2]
    BY <1>0, <1>3 DEF WorkerBroken, Terminal
  <2>3. Goto(t, "check") \/ Goto(t, "finish")
    BY <1>3 DEF WorkerBroken, At, Goto, TypeThreads
  <2> QED BY <1>3, <1>a, <1>b, <2>1, <2>2, <2>3, TypeLocal DEF WorkerBroken
<1>4. CASE SeeCancel(t)
  <2>1. tj[t] \in Jobs BY <1>4, <1>b, HasJob DEF SeeCancel
  <2>2. verdict' \in [Threads -> Terminal] /\ tries' \in [Threads -> 0..2]
    BY <1>0, <1>4 DEF SeeCancel, Terminal
  <2> QED BY <1>4, <1>a, <1>b, <2>1, <2>2, TypeLocal DEF SeeCancel
<1>5. CASE Renew(t)
  <2>1. tj[t] \in Jobs BY <1>5, <1>b, HasJob DEF Renew
  <2>2. verdict' \in [Threads -> Terminal] /\ tries' \in [Threads -> 0..2]
    BY <1>0, <1>5 DEF Renew, Terminal
  <2>3. TypeJobs'
    BY <1>5, TimeAssumption DEF Renew, TypeJobs
  <2>4. TypeLeases'
    BY <1>5, TimeAssumption DEF Renew, TypeLeases
  <2> QED BY <1>5, <1>b, <2>1, <2>2, <2>3, <2>4, TypeLocal DEF Renew
<1>6. CASE Pass(t)
  <2>1. tj[t] \in Jobs BY <1>6, <1>b, HasJob DEF Pass
  <2> QED BY <1>0, <1>6, <1>a, <1>b, <2>1, TypeLocal DEF Pass
<1>7. CASE TimeOut(t)
  <2>1. tj[t] \in Jobs BY <1>7, <1>b, HasJob DEF TimeOut
  <2>2. verdict' \in [Threads -> Terminal] /\ tries' \in [Threads -> 0..2]
    BY <1>0, <1>7 DEF TimeOut, Terminal
  <2> QED BY <1>7, <1>a, <1>b, <2>1, <2>2, TypeLocal DEF TimeOut
<1>8. CASE Stop(t)
  <2>1. tj[t] \in Jobs BY <1>8, <1>b, HasJob DEF Stop
  <2>2. verdict' \in [Threads -> Terminal] /\ tries' \in [Threads -> 0..2]
    BY <1>0, <1>8 DEF Stop
  <2>3. Goto(t, "check") \/ Goto(t, "finish")
    BY <1>8 DEF Stop
  <2> QED BY <1>8, <1>a, <1>b, <2>1, <2>2, <2>3, TypeLocal DEF Stop
<1>9. CASE PersistCheck(t)
  <2>1. tj[t] \in Jobs BY <1>9, <1>b, HasJob DEF PersistCheck
  <2>2. verdict' \in [Threads -> Terminal] /\ tries' \in [Threads -> 0..2]
    BY <1>0, <1>9 DEF PersistCheck, Terminal
  <2>3. TypeJobs'
    BY <1>9 DEF PersistCheck, TypeJobs, Status, Active
  <2>4. Goto(t, "write") \/ Goto(t, "finish")
    BY <1>9 DEF PersistCheck
  <2>5. TypeLeases'
    BY <1>9, SameLeases DEF PersistCheck
  <2> QED BY <1>9, <1>b, <2>1, <2>2, <2>3, <2>4, <2>5, TypeLocal DEF PersistCheck
<1>10. CASE PersistWrite(t)
  <2>1. tj[t] \in Jobs BY <1>10, <1>b, HasJob DEF PersistWrite
  <2>2. verdict' \in [Threads -> Terminal] /\ tries' \in [Threads -> 0..2]
    BY <1>0, <1>10 DEF PersistWrite, Terminal
  <2>3. TypeJobs'
    <3>1. status' \in [Jobs -> Status]
      BY <1>10 DEF PersistWrite, TypeJobs, Status, Terminal
    <3>2. results' \in [Jobs -> Nat]
      BY <1>10, <2>1 DEF PersistWrite, TypeJobs
    <3> QED BY <1>10, <3>1, <3>2 DEF PersistWrite, TypeJobs, Local
  <2>4. TypeLeases'
    BY <1>10, SameLeases DEF PersistWrite
  <2> QED BY <1>10, <1>b, <2>1, <2>2, <2>3, <2>4, TypeLocal DEF PersistWrite
<1>11. CASE FinishRead(t)
  <2>1. tj[t] \in Jobs BY <1>11, <1>b, HasJob DEF FinishRead
  <2>2. Goto(t, "finwrite") \/ Goto(t, "finalize")
    BY <1>11 DEF FinishRead
  <2> QED BY <1>0, <1>11, <1>a, <1>b, <2>1, <2>2, TypeLocal DEF FinishRead
<1>12. CASE FinishWrite(t)
  <2>1. tj[t] \in Jobs BY <1>12, <1>b, HasJob DEF FinishWrite
  <2>2. TypeJobs'
    BY <1>0, <1>12 DEF FinishWrite, TypeJobs, Status
  <2>3. TypeLeases'
    BY <1>12, SameLeases DEF FinishWrite
  <2> QED BY <1>0, <1>12, <1>b, <2>1, <2>2, <2>3, TypeLocal DEF FinishWrite
<1>13. CASE Finalize(t)
  <2>1. tj[t] \in Jobs BY <1>13, <1>b, HasJob DEF Finalize
  <2>2. TypeJobs'
    BY <1>0, <1>13 DEF Finalize, TypeJobs, DState
  <2>3. TypeLeases'
    BY <1>13, SameLeases DEF Finalize
  <2> QED BY <1>0, <1>13, <1>b, <2>1, <2>2, <2>3, TypeLocal DEF Finalize
<1>14. CASE ReleaseSlot(t)
  <2>1. tj[t] \in Jobs BY <1>14, <1>b, HasJob DEF ReleaseSlot
  <2>2. TypeThreads'
    BY <1>0, <1>14, <1>b, <2>1, GotoType DEF ReleaseSlot
  <2>3. TypeProcs'
    BY <1>14, FreeSlotType DEF ReleaseSlot
  <2> QED BY <1>14, <1>a, <2>2, <2>3, SameCancels DEF ReleaseSlot
<1>15. CASE ReleaseLease(t)
  <2>1. TypeLeases'
    BY <1>15 DEF ReleaseLease, TypeLeases
  <2> QED BY <1>15, <2>1, QuitType, SameJobs, SameCancels, SameProcs DEF ReleaseLease
<1> QED BY <1>1, <1>2, <1>3, <1>4, <1>5, <1>6, <1>7, <1>8, <1>9, <1>10, <1>11,
           <1>12, <1>13, <1>14, <1>15 DEF Supervise

LEMMA TypeCancel ==
  ASSUME TypeOK, NEW c \in Cancellers,
         Cancel(c) \/ \E j \in Jobs : CancelSignal(c, j)
  PROVE  TypeOK'
<1> USE DEF TypeOK
<1>1. ASSUME NEW j \in Jobs, CancelSignal(c, j) PROVE TypeOK'
  <2>1. TypeThreads'
    BY <1>1 DEF CancelSignal, TypeThreads
  <2>2. TypeCancels'
    BY <1>1 DEF CancelSignal, TypeCancels
  <2>3. TypeProcs'
    BY <1>1, SameProcs DEF CancelSignal
  <2> QED BY <1>1, <2>1, <2>2, <2>3, SameJobs, SameLeases DEF CancelSignal
<1>2. CASE CancelRead(c)
  <2>1. TypeCancels'
    BY <1>2 DEF CancelRead, CAt, TypeCancels, TypeJobs
  <2> QED BY <1>2, <2>1, SameJobs, SameLeases, SameThreads, SameProcs DEF CancelRead
<1>3. CASE CancelWrite(c)
  <2>1. cjob[c] \in Jobs
    BY <1>3 DEF CancelWrite, CAt, TypeCancels
  <2>2. TypeJobs'
    BY <1>3, <2>1 DEF CancelWrite, TypeJobs, Status, Terminal, DState, Open
  <2>3. TypeCancels'
    BY <1>3, <2>1 DEF CancelWrite, TypeCancels, NotSeen, DState, Status
  <2> QED BY <1>3, <2>2, <2>3, SameLeases, SameThreads, SameProcs DEF CancelWrite
<1> QED BY <1>1, <1>2, <1>3 DEF Cancel

LEMMA TypeReconcile ==
  ASSUME TypeOK, NEW x \in Sweepers, Reconcile(x)
  PROVE  TypeOK'
<1> USE DEF TypeOK
<1>1. CASE SweepRead(x)
  <2>1. sweep' \in [Sweepers -> [Jobs -> Terminal \cup {"none"}]]
    BY <1>1 DEF SweepRead, TypeProcs, Terminal
  <2>2. TypeProcs'
    BY <1>1, <2>1 DEF SweepRead, TypeProcs
  <2>3. TypeCancels'
    BY <1>1 DEF SweepRead, TypeCancels
  <2> QED BY <1>1, <2>2, <2>3, SameJobs, SameLeases, SameThreads DEF SweepRead
<1>2. CASE SweepWrite(x)
  <2>1. TypeJobs'
    BY <1>2 DEF SweepWrite, TypeJobs, TypeProcs, Status, DState
  <2>2. TypeLeases'
    BY <1>2 DEF SweepWrite, TypeLeases
  <2>3. TypeCancels'
    BY <1>2 DEF SweepWrite, TypeCancels
  <2>4. TypeProcs'
    BY <1>2 DEF SweepWrite, TypeProcs, NoSweep
  <2> QED BY <1>2, <2>1, <2>2, <2>3, <2>4, SameThreads DEF SweepWrite
<1> QED BY <1>1, <1>2 DEF Reconcile

LEMMA TypeFault ==
  ASSUME TypeOK, NEW t \in Threads, DbFault(t)
  PROVE  TypeOK'
<1> USE DEF TypeOK
<1>1. TypeProcs'
  BY BoundsAssumption DEF DbFault, FreeSlot, TypeProcs
<1>2. TypeThreads'
  <2>1. CASE Quit({t})
    BY <2>1, QuitType
  <2>2. CASE /\ pc[t] \in PC \ {"idle", "insert"}
             /\ Goto(t, "unlease") \/ Goto(t, "finish") \/ Goto(t, "release")
             /\ UNCHANGED <<tj, want, cancelEv, tries>>
             /\ verdict' \in {verdict, [verdict EXCEPT ![t] = "failed"]}
    <3>1. tj[t] \in Jobs
      BY <2>2 DEF TypeThreads
    <3>2. verdict' \in [Threads -> Terminal] /\ tries' \in [Threads -> 0..2]
      BY <2>2 DEF TypeThreads, Terminal
    <3> QED BY <2>2, <3>1, <3>2, GotoType DEF PC, Holding, Supervising
  <2> QED BY <2>1, <2>2 DEF DbFault, PC, Holding, Supervising
<1> QED BY <1>1, <1>2, SameJobs, SameLeases, SameCancels DEF DbFault

LEMMA TypeCleanup ==
  ASSUME TypeOK, NEW t \in Threads, CleanupFails(t)
  PROVE  TypeOK'
<1> USE DEF TypeOK
<1>1. TypeThreads'
  BY DEF CleanupFails, Local, TypeThreads, Terminal
<1> QED BY <1>1, SameJobs, SameLeases, SameCancels, SameProcs
        DEF CleanupFails, Local

LEMMA TypeCrash ==
  ASSUME TypeOK, NEW p \in Procs, Crash(p) \/ Restart(p)
  PROVE  TypeOK'
<1> USE DEF TypeOK
<1>1. CASE Crash(p)
  <2>1. TypeThreads'
    BY <1>1, QuitType DEF Crash
  <2>2. TypeCancels'
    BY <1>1 DEF Crash, TypeCancels, NotSeen, DState, Status
  <2>3. TypeProcs'
    BY <1>1, BoundsAssumption DEF Crash, TypeProcs, NoSweep
  <2> QED BY <1>1, <2>1, <2>2, <2>3, SameJobs, SameLeases DEF Crash
<1>2. CASE Restart(p)
  <2>1. TypeLeases'
    BY <1>2 DEF Restart, TypeLeases
  <2>2. TypeProcs'
    BY <1>2 DEF Restart, TypeProcs
  <2> QED BY <1>2, <2>1, <2>2, SameJobs, SameThreads, SameCancels DEF Restart
<1> QED BY <1>1, <1>2

LEMMA TypeTick == ASSUME TypeOK, Tick PROVE TypeOK'
<1> USE DEF TypeOK
<1>1. TypeJobs'
  BY OlderType DEF Tick, TypeJobs
<1>2. TypeLeases'
  BY OlderType DEF Tick, TypeLeases
<1> QED BY <1>1, <1>2, SameThreads, SameCancels, SameProcs DEF Tick

LEMMA TypeStutter == ASSUME TypeOK, UNCHANGED vars PROVE TypeOK'
  BY SameJobs, SameLeases, SameThreads, SameCancels, SameProcs DEF vars, TypeOK

LEMMA TypeNext == ASSUME TypeOK, [Next]_vars PROVE TypeOK'
  BY TypeEnqueueCheck, TypeEnqueueInsert, TypeAdmit, TypeSupervise, TypeCancel,
     TypeReconcile, TypeFault, TypeCleanup, TypeCrash, TypeTick, TypeStutter
  DEF Next, Thread

\* Every variable keeps its type in every reachable state: no control point
\* lacks the job it needs, no verdict outside the terminal states is written.
THEOREM TypeCorrect == Spec => []TypeOK
<1>1. Init => TypeOK
  BY TypeInit
<1>2. TypeOK /\ [Next]_vars => TypeOK'
  BY TypeNext
<1> QED BY <1>1, <1>2, PTL DEF Spec

-----------------------------------------------------------------------------
\* One scan at a time in a process: the slot taken by reserve() is inductive.

\* A step that leaves the slots alone and starts no new scan.
LEMMA SlotGoto ==
  ASSUME TypeThreads, OneScanPerProcess, NEW t \in Threads, NEW l, Goto(t, l),
         pc[t] \in Holding \/ l \notin Holding, UNCHANGED slot
  PROVE  OneScanPerProcess'
  BY DEF TypeThreads, OneScanPerProcess, Goto

\* Threads that are gone hold nothing.
LEMMA SlotQuit ==
  ASSUME OneScanPerProcess, NEW S, Quit(S), UNCHANGED slot
  PROVE  OneScanPerProcess'
  BY DEF OneScanPerProcess, Quit, Holding, Supervising

\* A thread that clears its slot stops holding it; no other thread held it.
LEMMA SlotFreed ==
  ASSUME TypeOK, OneScanPerProcess, NEW t \in Threads, NEW l, l \notin Holding,
         Goto(t, l), FreeSlot(t)
  PROVE  OneScanPerProcess'
<1> SUFFICES ASSUME NEW u \in Threads, pc'[u] \in Holding
             PROVE  slot'[Home[u]] = u
  BY DEF OneScanPerProcess
<1>1. u # t /\ pc[u] \in Holding
  BY DEF TypeOK, TypeThreads, Goto
<1>2. slot[Home[u]] = u /\ Home[u] \in Procs
  BY <1>1, ThreadsAssumption DEF OneScanPerProcess
<1> QED BY <1>1, <1>2 DEF FreeSlot, TypeOK, TypeProcs

LEMMA SlotAdmit ==
  ASSUME TypeOK, OneScanPerProcess, NEW t \in Threads, Admit(t)
  PROVE  OneScanPerProcess'
<1>0. TypeThreads
  BY DEF TypeOK
<1>1. CASE Notify(t)
  BY <1>0, <1>1, SlotGoto DEF Notify, Holding, Supervising
<1>2. CASE DispatchRead(t)
  BY <1>0, <1>2, SlotGoto, SlotQuit DEF DispatchRead, Holding, Supervising
<1>3. CASE Reserve(t)
  <2>1. CASE Quit({t}) /\ UNCHANGED slot
    BY <2>1, SlotQuit
  <2>2. CASE /\ slot[Home[t]] = NoThread
             /\ slot' = [slot EXCEPT ![Home[t]] = t]
             /\ Goto(t, "lease")
    <3> SUFFICES ASSUME NEW u \in Threads, pc'[u] \in Holding
                 PROVE  slot'[Home[u]] = u
      BY DEF OneScanPerProcess
    <3>1. slot[Home[u]] = u \/ u = t
      BY <1>0, <2>2 DEF TypeThreads, Goto, OneScanPerProcess
    <3>2. Home[u] \in Procs /\ u # NoThread
      BY ThreadsAssumption
    <3> QED BY <2>2, <3>1, <3>2 DEF TypeOK, TypeProcs
  <2> QED BY <1>3, <2>1, <2>2 DEF Reserve
<1>4. CASE AcquireLease(t)
  BY <1>0, <1>4, SlotGoto, SlotFreed DEF AcquireLease, At, Holding, Supervising
<1>5. CASE Claim(t)
  BY <1>0, <1>5, SlotGoto, SlotFreed DEF Claim, At, Holding, Supervising
<1> QED BY <1>1, <1>2, <1>3, <1>4, <1>5 DEF Admit

LEMMA SlotSupervise ==
  ASSUME TypeOK, OneScanPerProcess, NEW t \in Threads, Supervise(t)
  PROVE  OneScanPerProcess'
<1>0. TypeThreads
  BY DEF TypeOK
<1>1. CASE ReleaseSlot(t)
  BY <1>1, SlotFreed DEF ReleaseSlot, Holding, Supervising
<1>2. CASE ReleaseLease(t)
  BY <1>2, SlotQuit DEF ReleaseLease
<1>3. ASSUME NEW l, Goto(t, l), pc[t] \in Holding, UNCHANGED slot
      PROVE  OneScanPerProcess'
  BY <1>0, <1>3, SlotGoto
<1>4. CASE WorkerBroken(t)
  <2>1. Goto(t, "check") \/ Goto(t, "finish")
    BY <1>0, <1>4 DEF WorkerBroken, At, Goto, TypeThreads
  <2> QED BY <1>3, <1>4, <2>1 DEF WorkerBroken, At, Local, Holding, Supervising
<1>5. CASE Launch(t) \/ WorkerDone(t) \/ SeeCancel(t) \/ Pass(t) \/ TimeOut(t)
  BY <1>3, <1>5 DEF Launch, WorkerDone, SeeCancel, Pass, TimeOut, At, Local,
                    Holding, Supervising
<1>6. CASE Renew(t) \/ Stop(t) \/ PersistCheck(t)
  BY <1>3, <1>6 DEF Renew, Stop, PersistCheck, At, Local, Holding, Supervising
<1>7. CASE PersistWrite(t) \/ FinishRead(t) \/ FinishWrite(t) \/ Finalize(t)
  BY <1>3, <1>7 DEF PersistWrite, FinishRead, FinishWrite, Finalize, At, Local,
                    Holding, Supervising
<1> QED BY <1>1, <1>2, <1>4, <1>5, <1>6, <1>7 DEF Supervise

LEMMA SlotFault ==
  ASSUME TypeOK, OneScanPerProcess, NEW t \in Threads, DbFault(t)
  PROVE  OneScanPerProcess'
<1>1. CASE Quit({t}) /\ UNCHANGED slot
  BY <1>1, SlotQuit
<1>2. CASE FreeSlot(t) /\ Goto(t, "unlease")
  BY <1>2, SlotFreed DEF Holding, Supervising
<1>3. CASE /\ pc[t] \in Holding
           /\ UNCHANGED slot
           /\ Goto(t, "finish") \/ Goto(t, "release")
  BY <1>3, SlotGoto DEF TypeOK
<1> QED BY <1>1, <1>2, <1>3 DEF DbFault, Holding, Supervising

LEMMA SlotCrash ==
  ASSUME TypeOK, OneScanPerProcess, NEW p \in Procs, Crash(p)
  PROVE  OneScanPerProcess'
<1> SUFFICES ASSUME NEW u \in Threads, pc'[u] \in Holding
             PROVE  slot'[Home[u]] = u
  BY DEF OneScanPerProcess
<1>1. Home[u] # p /\ pc[u] \in Holding
  BY DEF Crash, Quit, Holding, Supervising
<1>2. slot[Home[u]] = u
  BY <1>1 DEF OneScanPerProcess
<1> QED BY <1>1, <1>2, ThreadsAssumption DEF Crash, TypeOK, TypeProcs

LEMMA SlotNext ==
  ASSUME TypeOK, OneScanPerProcess, [Next]_vars
  PROVE  OneScanPerProcess'
<1>0. TypeThreads
  BY DEF TypeOK
<1>1. ASSUME UNCHANGED <<slot, pc>> PROVE OneScanPerProcess'
  BY <1>1 DEF OneScanPerProcess
<1>2. ASSUME NEW t \in Threads, NEW r \in Repos, EnqueueCheck(t, r)
      PROVE  OneScanPerProcess'
  BY <1>0, <1>2, SlotGoto DEF EnqueueCheck, Holding, Supervising
<1>3. ASSUME NEW t \in Threads, Thread(t) PROVE OneScanPerProcess'
  <2>1. CASE EnqueueInsert(t)
    BY <1>0, <2>1, SlotGoto DEF EnqueueInsert, Holding, Supervising
  <2> QED BY <1>3, <2>1, SlotAdmit, SlotSupervise DEF Thread
<1>4. ASSUME NEW c \in Cancellers, Cancel(c) \/ \E j \in Jobs : CancelSignal(c, j)
      PROVE  OneScanPerProcess'
  BY <1>1, <1>4 DEF Cancel, CancelSignal, CancelRead, CancelWrite
<1>5. ASSUME NEW x \in Sweepers, Reconcile(x) PROVE OneScanPerProcess'
  BY <1>1, <1>5 DEF Reconcile, SweepRead, SweepWrite
<1>6. ASSUME NEW p \in Procs, Restart(p) PROVE OneScanPerProcess'
  BY <1>1, <1>6 DEF Restart
<1>7. CASE Tick \/ UNCHANGED vars
  BY <1>1, <1>7 DEF Tick, vars
<1>8. ASSUME NEW t \in Threads, CleanupFails(t) PROVE OneScanPerProcess'
  BY <1>1, <1>8 DEF CleanupFails, Local
<1> QED BY <1>2, <1>3, <1>4, <1>5, <1>6, <1>7, <1>8, SlotFault, SlotCrash DEF Next

\* Two scans never run in one process, whatever the interleaving of its request
\* threads, the failed transactions and the crashes: reserve() and release()
\* keep _active equal to the one thread between them.
THEOREM ScansOneAtATime == Spec => []OneScanPerProcess
<1>1. Init => OneScanPerProcess
  BY DEF Init, OneScanPerProcess, Holding, Supervising
<1>2. TypeOK /\ OneScanPerProcess /\ [Next]_vars => OneScanPerProcess'
  BY SlotNext
<1> QED BY <1>1, <1>2, TypeCorrect, PTL DEF Spec

-----------------------------------------------------------------------------
\* Cancellation.  The dispatch of a cancelled job can not be claimed, and a
\* canceller that found it cancelled already did so after the mark was made.

CancelSettled ==
  /\ \A j \in Jobs : cancelReq[j] =>
       status[j] # "none" /\ dstate[j] \notin {"pending", "claimed"}
  /\ \A j \in Jobs : dstate[j] = "cancel_requested" => cancelReq[j]
  /\ \A c \in Cancellers : cpc[c] \in {"read", "write"} =>
       status[cjob[c]] # "none"
  /\ \A c \in Cancellers :
       cpc[c] = "write" /\ seen[c][1] = "cancel_requested" =>
         cancelReq[cjob[c]]

\* Steps of the supervisors may close a dispatch and never reopen it.
LEMMA CancelFrame ==
  ASSUME TypeOK, CancelSettled, UNCHANGED <<cancelReq, cancelVars>>,
         \A j \in Jobs : status[j] # "none" => status'[j] # "none",
         \A j \in Jobs : dstate'[j] = dstate[j] \/ dstate'[j] \in Terminal
  PROVE  CancelSettled'
<1>1. \A c \in Cancellers : cpc[c] \in {"read", "write"} => cjob[c] \in Jobs
  BY DEF TypeOK, TypeCancels
<1> QED BY <1>1 DEF CancelSettled, Terminal

LEMMA CancelThread ==
  ASSUME TypeOK, CancelSettled, NEW t \in Threads, Thread(t)
  PROVE  CancelSettled'
<1>0. ASSUME UNCHANGED <<status, dstate, cancelReq, cancelVars>>
      PROVE  CancelSettled'
  BY <1>0, CancelFrame
<1>1. CASE EnqueueInsert(t)
  <2>1. PICK j \in FreshJobs(want[t]) :
          /\ status' = [status EXCEPT ![j] = "queued"]
          /\ dstate' = [dstate EXCEPT ![j] = "pending"]
    BY <1>1 DEF EnqueueInsert
  <2>2. UNCHANGED <<cancelReq, cancelVars>> /\ j \in Jobs /\ status[j] = "none"
    BY <1>1 DEF EnqueueInsert, FreshJobs
  <2>3. ~cancelReq[j]
    BY <2>2 DEF CancelSettled
  <2>4. \A c \in Cancellers : cpc[c] \in {"read", "write"} => cjob[c] \in Jobs
    BY DEF TypeOK, TypeCancels
  <2> QED BY <2>1, <2>2, <2>3, <2>4 DEF CancelSettled, TypeOK, TypeJobs
<1>2. CASE Claim(t)
  <2>1. CASE Claimable(tj[t]) /\ tj[t] \in Jobs
    <3>1. ~cancelReq[tj[t]]
      BY <2>1 DEF CancelSettled, Claimable
    <3>2. /\ dstate' = [dstate EXCEPT ![tj[t]] = "claimed"]
          /\ status' = [status EXCEPT ![tj[t]] = "running"]
          /\ UNCHANGED <<cancelReq, cancelVars>>
      BY <1>2, <2>1 DEF Claim
    <3>3. \A c \in Cancellers : cpc[c] \in {"read", "write"} => cjob[c] \in Jobs
      BY DEF TypeOK, TypeCancels
    <3> QED BY <3>1, <3>2, <3>3 DEF CancelSettled, TypeOK, TypeJobs
  <2>2. CASE ~Claimable(tj[t])
    BY <1>0, <1>2, <2>2 DEF Claim
  <2>3. tj[t] \in Jobs
    BY <1>2, HasJob DEF Claim, TypeOK, PC, Holding
  <2> QED BY <2>1, <2>2, <2>3
<1>3. CASE Notify(t) \/ DispatchRead(t) \/ Reserve(t) \/ AcquireLease(t)
  BY <1>0, <1>3 DEF Notify, DispatchRead, Reserve, AcquireLease
<1>4. CASE Launch(t) \/ WorkerDone(t) \/ WorkerBroken(t) \/ SeeCancel(t)
  BY <1>0, <1>4 DEF Launch, WorkerDone, WorkerBroken, SeeCancel, Local
<1>5. CASE Renew(t) \/ Pass(t) \/ TimeOut(t) \/ Stop(t)
  BY <1>0, <1>5 DEF Renew, Pass, TimeOut, Stop, Local
<1>6. CASE FinishRead(t) \/ ReleaseSlot(t) \/ ReleaseLease(t)
  BY <1>0, <1>6 DEF FinishRead, ReleaseSlot, ReleaseLease, Local
<1>7. verdict[t] \in Terminal
  BY DEF TypeOK, TypeThreads
<1>8. CASE PersistCheck(t) \/ PersistWrite(t) \/ FinishWrite(t)
  <2>1. UNCHANGED <<dstate, cancelReq, cancelVars>>
    BY <1>8 DEF PersistCheck, PersistWrite, FinishWrite, Local
  <2>2. \A j \in Jobs : status'[j] = status[j] \/ status'[j] # "none"
    BY <1>7, <1>8 DEF PersistCheck, PersistWrite, FinishWrite, Terminal, TypeOK,
                      TypeJobs
  <2> QED BY <2>1, <2>2, CancelFrame
<1>9. CASE Finalize(t)
  <2>1. UNCHANGED <<status, cancelReq, cancelVars>>
    BY <1>9 DEF Finalize, Local
  <2>2. \A j \in Jobs : dstate'[j] = dstate[j] \/ dstate'[j] \in Terminal
    BY <1>7, <1>9 DEF Finalize, TypeOK, TypeJobs
  <2> QED BY <2>1, <2>2, CancelFrame
<1> QED BY <1>1, <1>2, <1>3, <1>4, <1>5, <1>6, <1>8, <1>9
        DEF Thread, Admit, Supervise

LEMMA CancelRequest ==
  ASSUME TypeOK, CancelSettled, NEW c \in Cancellers,
         Cancel(c) \/ \E j \in Jobs : CancelSignal(c, j)
  PROVE  CancelSettled'
<1>0. \A d \in Cancellers : cpc[d] \in {"read", "write"} => cjob[d] \in Jobs
  BY DEF TypeOK, TypeCancels
<1>1. ASSUME NEW j \in Jobs, CancelSignal(c, j) PROVE CancelSettled'
  BY <1>1 DEF CancelSignal, CancelSettled, Active, TypeOK, TypeCancels
<1>2. CASE CancelRead(c)
  <2>1. cjob[c] \in Jobs /\ cpc[c] = "read"
    BY <1>0, <1>2 DEF CancelRead, CAt
  <2> QED BY <1>2, <2>1 DEF CancelRead, CancelSettled, TypeOK, TypeCancels
<1>3. CASE CancelWrite(c)
  <2> DEFINE j == cjob[c]
  <2>1. j \in Jobs /\ cpc[c] = "write" /\ status[j] # "none"
    BY <1>0, <1>3 DEF CancelWrite, CAt, CancelSettled
  <2>2. /\ cancelReq' = [cancelReq EXCEPT ![j] = TRUE]
        /\ cpc'[c] \notin {"read", "write"}
        /\ \A d \in Cancellers \ {c} : cpc'[d] = cpc[d] /\ cjob'[d] = cjob[d]
                                         /\ seen'[d] = seen[d]
    BY <1>3, <2>1 DEF CancelWrite, TypeOK, TypeCancels
  <2>3. /\ status'[j] # "none" /\ dstate'[j] \notin {"pending", "claimed"}
        /\ \A k \in Jobs \ {j} : status'[k] = status[k] /\ dstate'[k] = dstate[k]
    BY <1>3, <2>1 DEF CancelWrite, CancelSettled, TypeOK, TypeJobs
  <2>4. cancelReq'[j] /\ \A k \in Jobs \ {j} : cancelReq'[k] = cancelReq[k]
    BY <2>1, <2>2 DEF TypeOK, TypeJobs
  <2> HIDE DEF j
  <2>5. \A k \in Jobs :
          /\ cancelReq'[k] =>
               status'[k] # "none" /\ dstate'[k] \notin {"pending", "claimed"}
          /\ dstate'[k] = "cancel_requested" => cancelReq'[k]
          /\ status[k] # "none" => status'[k] # "none"
          /\ cancelReq[k] => cancelReq'[k]
    BY <2>1, <2>3, <2>4 DEF CancelSettled
  <2>6. \A d \in Cancellers : cpc'[d] \in {"read", "write"} =>
          /\ status'[cjob'[d]] # "none"
          /\ cpc'[d] = "write" /\ seen'[d][1] = "cancel_requested" =>
               cancelReq'[cjob'[d]]
    BY <1>0, <2>2, <2>5 DEF CancelSettled
  <2> QED BY <2>5, <2>6 DEF CancelSettled
<1> QED BY <1>1, <1>2, <1>3 DEF Cancel

LEMMA CancelSweep ==
  ASSUME TypeOK, CancelSettled, NEW x \in Sweepers, Reconcile(x)
  PROVE  CancelSettled'
<1>0. \A d \in Cancellers : cpc[d] \in {"read", "write"} => cjob[d] \in Jobs
  BY DEF TypeOK, TypeCancels
<1>1. CASE SweepRead(x)
  <2>1. \A d \in Cancellers : cpc'[d] \in {"read", "write"} =>
          cpc'[d] = cpc[d] /\ cjob'[d] = cjob[d] /\ seen'[d] = seen[d]
    BY <1>1 DEF SweepRead
  <2>2. UNCHANGED <<status, dstate, cancelReq>>
    BY <1>1 DEF SweepRead
  <2> QED BY <2>1, <2>2 DEF CancelSettled
<1>2. CASE SweepWrite(x)
  <2>1. \A d \in Cancellers : cpc'[d] \in {"read", "write"} =>
          cpc'[d] = cpc[d] /\ cjob'[d] = cjob[d] /\ seen'[d] = seen[d]
    BY <1>2 DEF SweepWrite
  <2>2. \A j \in Jobs :
          /\ status'[j] = status[j] \/ status'[j] \in Terminal
          /\ dstate'[j] = dstate[j] \/ dstate'[j] \in Terminal
          /\ cancelReq'[j] = cancelReq[j]
    BY <1>2 DEF SweepWrite, TypeOK, TypeProcs, Terminal
  <2> QED BY <1>0, <2>1, <2>2 DEF CancelSettled, Terminal
<1> QED BY <1>1, <1>2 DEF Reconcile

LEMMA CancelNext ==
  ASSUME TypeOK, CancelSettled, [Next]_vars
  PROVE  CancelSettled'
<1>1. ASSUME UNCHANGED <<status, dstate, cancelReq, cancelVars>>
      PROVE  CancelSettled'
  BY <1>1, CancelFrame
<1>2. ASSUME NEW t \in Threads, NEW r \in Repos, EnqueueCheck(t, r)
      PROVE  CancelSettled'
  BY <1>1, <1>2 DEF EnqueueCheck
<1>3. ASSUME NEW t \in Threads, DbFault(t) \/ CleanupFails(t) PROVE CancelSettled'
  BY <1>1, <1>3 DEF DbFault, CleanupFails, Local
<1>4. ASSUME NEW p \in Procs, Crash(p) PROVE CancelSettled'
  BY <1>4 DEF Crash, CancelSettled
<1>5. ASSUME NEW p \in Procs, Restart(p) PROVE CancelSettled'
  BY <1>1, <1>5 DEF Restart
<1>6. CASE Tick \/ UNCHANGED vars
  BY <1>1, <1>6 DEF Tick, vars
<1> QED BY <1>2, <1>3, <1>4, <1>5, <1>6, CancelThread, CancelRequest, CancelSweep
        DEF Next

\* Only a claim counts an attempt, and a settled cancellation refuses it.
LEMMA CancelledUnclaimed ==
  ASSUME TypeOK, CancelSettled, [Next]_vars
  PROVE  \A j \in Jobs : cancelReq[j] => attempts'[j] = attempts[j]
<1>1. ASSUME NEW t \in Threads, Claim(t)
      PROVE  \A j \in Jobs : cancelReq[j] => attempts'[j] = attempts[j]
  BY <1>1 DEF Claim, Claimable, CancelSettled, TypeOK, TypeJobs
<1>2. ASSUME NEW t \in Threads, Supervise(t) PROVE UNCHANGED attempts
  BY <1>2 DEF Supervise, Launch, WorkerDone, WorkerBroken, SeeCancel, Renew, Pass,
     TimeOut, Stop, PersistCheck, PersistWrite, FinishRead, FinishWrite, Finalize,
     ReleaseSlot, ReleaseLease
<1>3. ASSUME NEW t \in Threads, Thread(t), ~Claim(t) PROVE UNCHANGED attempts
  BY <1>2, <1>3 DEF Thread, EnqueueInsert, Admit, Notify, DispatchRead, Reserve,
     AcquireLease
<1>4. ASSUME NEW t \in Threads,
             DbFault(t) \/ CleanupFails(t) \/ \E r \in Repos : EnqueueCheck(t, r)
      PROVE  UNCHANGED attempts
  BY <1>4 DEF DbFault, CleanupFails, EnqueueCheck
<1>5. ASSUME NEW c \in Cancellers, Cancel(c) \/ \E j \in Jobs : CancelSignal(c, j)
      PROVE  UNCHANGED attempts
  BY <1>5 DEF Cancel, CancelSignal, CancelRead, CancelWrite
<1>6. ASSUME NEW x \in Sweepers, Reconcile(x) PROVE UNCHANGED attempts
  BY <1>6 DEF Reconcile, SweepRead, SweepWrite
<1>7. ASSUME NEW p \in Procs, Crash(p) \/ Restart(p) PROVE UNCHANGED attempts
  BY <1>7 DEF Crash, Restart
<1>8. CASE Tick \/ UNCHANGED vars
  BY <1>8 DEF Tick, vars
<1> QED BY <1>1, <1>3, <1>4, <1>5, <1>6, <1>7, <1>8 DEF Next

\* Once cancellation_requested_at is set, no dispatcher claims the job: the
\* cancellation, written from values read earlier, and the claim's re-check of
\* the dispatch state can not miss each other.
THEOREM CancelledNeverClaimed == Spec => CancelStopsClaims
<1>1. Init => CancelSettled
  BY DEF Init, CancelSettled
<1>2. TypeOK /\ CancelSettled /\ [Next]_vars => CancelSettled'
  BY CancelNext
<1>3. TypeOK /\ CancelSettled /\ [Next]_vars =>
        [\A j \in Jobs : cancelReq[j] => attempts'[j] = attempts[j]]_vars
  BY CancelledUnclaimed
<1> QED BY <1>1, <1>2, <1>3, TypeCorrect, PTL DEF Spec, CancelStopsClaims

-----------------------------------------------------------------------------
\* Every thread supervises as SupervisionOutline says.

\* A thread that has not claimed its job has decided and started nothing.
Admitting == {"idle", "insert", "notify", "dispatch", "reserve", "lease", "claim"}
Untouched(t) == pc[t] \in Admitting => verdict[t] = "failed" /\ tries[t] = 0

\* What a step means for one thread: the outline allows it, or sees nothing.
Course1(t) == Course(t)!Next \/ UNCHANGED Course(t)!outlineVars
Proper(t) == Course1(t) /\ Untouched(t)'

LEMMA CourseStarts == ASSUME Init, NEW t \in Threads PROVE Course(t)!Init /\ Untouched(t)
  BY DEF Init, Course!Init, Untouched, StepOf, Supervising

LEMMA StillProper ==
  ASSUME NEW t \in Threads, Untouched(t), UNCHANGED <<pc[t], verdict[t], tries[t]>>
  PROVE  Proper(t)
  BY DEF Proper, Course1, Course!outlineVars, Untouched, StepOf

\* A thread outside supervision that goes on outside supervision.
LEMMA OutsideProper ==
  ASSUME NEW t \in Threads, Untouched(t), pc[t] \notin Supervising, pc'[t] \notin Supervising,
         pc[t] \in Admitting \/ pc'[t] \notin Admitting, UNCHANGED <<verdict[t], tries[t]>>
  PROVE  Proper(t)
  BY DEF Proper, Course1, Course!outlineVars, Untouched, StepOf, Supervising

\* Requests that are over, or died, leave their supervision.
LEMMA QuitProper ==
  ASSUME TypeOK, NEW t \in Threads, Untouched(t), NEW S, Quit(S)
  PROVE  Proper(t)
<1>1. CASE t \notin S
  BY <1>1, StillProper DEF Quit
<1>2. CASE t \in S
  <2>1. pc'[t] = "idle" /\ verdict'[t] = "failed" /\ tries'[t] = 0
    BY <1>2 DEF Quit
  <2>2. Untouched(t)'
    BY <2>1 DEF Untouched
  <2>3. CASE pc[t] \in Supervising
    <3>1. Course(t)!Leave
      BY <2>1, <2>3 DEF Course!Leave, StepOf, Supervising
    <3> QED BY <2>2, <3>1 DEF Proper, Course1, Course!Next
  <2>4. CASE pc[t] \notin Supervising
    <3>1. UNCHANGED Course(t)!outlineVars
      BY <2>1, <2>4 DEF Course!outlineVars, StepOf, Supervising
    <3> QED BY <2>2, <3>1 DEF Proper, Course1
  <2> QED BY <2>3, <2>4
<1> QED BY <1>1, <1>2

-----------------------------------------------------------------------------
\* The thread's own steps.

\* Supervision goes on as the outline allows, and is not admission.
LEMMA OwnProper ==
  ASSUME NEW t \in Threads, Course(t)!Next \/ UNCHANGED Course(t)!outlineVars,
         pc'[t] \notin Admitting
  PROVE  Proper(t)
  BY DEF Proper, Course1, Untouched

\* At l1 with v1 and n1, the thread goes to l2 with v2 and n2.
Steps(t, l1, l2, v, n) ==
  /\ pc[t] = l1 /\ pc'[t] = l2 /\ verdict'[t] = v /\ tries'[t] = n

LEMMA SuperviseProper ==
  ASSUME TypeOK, NEW t \in Threads, Untouched(t), Supervise(t) PROVE Proper(t)
<1> USE DEF TypeOK, TypeThreads, At, Goto
<1> DEFINE v == verdict[t]
           n == tries[t]
<1>1. CASE Launch(t)
  <2>1. Steps(t, "start", "finish", "cancelled", n) \/ Steps(t, "start", "check", v, 1)
    BY <1>1 DEF Launch, Local, Steps
  <2>2. Course(t)!Decline \/ Course(t)!Launch
    BY <2>1 DEF Steps, Course!Decline, Course!Launch, Course!Go, StepOf, Supervising
  <2> QED BY <2>1, <2>2, OwnProper DEF Steps, Admitting, Course!Next
<1>2. CASE WorkerDone(t)
  <2>1. Steps(t, "check", "persist", v, n)
    BY <1>2 DEF WorkerDone, Local, Steps
  <2>2. Course(t)!HandIn
    BY <2>1 DEF Steps, Course!HandIn, Course!Go, StepOf, Supervising
  <2> QED BY <2>1, <2>2, OwnProper DEF Steps, Admitting, Course!Next
<1>3. CASE WorkerBroken(t)
  <2>1. \/ Steps(t, "check", "check", v, 2) /\ n = 1
        \/ Steps(t, "check", "finish", "failed", n)
    BY <1>3 DEF WorkerBroken, Local, Steps
  <2>2. Course(t)!Relaunch \/ Course(t)!Fail
    BY <2>1 DEF Steps, Course!Relaunch, Course!Fail, Course!Go, StepOf, Supervising
  <2> QED BY <2>1, <2>2, OwnProper DEF Steps, Admitting, Course!Next
<1>4. CASE SeeCancel(t)
  <2>1. Steps(t, "check", "stop", "cancelled", n) \/ Steps(t, "check", "tend", v, n)
    BY <1>4 DEF SeeCancel, Local, Steps
  <2>2. Course(t)!Cut \/ Course(t)!Round
    BY <2>1 DEF Steps, Course!Cut, Course!Round, Course!Go, StepOf, Supervising
  <2> QED BY <2>1, <2>2, OwnProper DEF Steps, Admitting, Course!Next
<1>5. CASE Renew(t) \/ Pass(t) \/ TimeOut(t)
  <2>1. \/ Steps(t, "tend", "check", v, n)
        \/ Steps(t, "tend", "stop", "failed", n) \/ Steps(t, "tend", "stop", "timed_out", n)
    BY <1>5 DEF Renew, Pass, TimeOut, Local, Steps
  <2>2. Course(t)!Cut \/ Course(t)!Round
    BY <2>1 DEF Steps, Course!Cut, Course!Round, Course!Go, StepOf, Supervising
  <2> QED BY <2>1, <2>2, OwnProper DEF Steps, Admitting, Course!Next
<1>6. CASE Stop(t)
  <2>1. \/ Steps(t, "stop", "finish", v, n)
        \/ Steps(t, "stop", "check", v, 2) /\ n = 1
    BY <1>6 DEF Stop, Local, Steps
  <2>2. Course(t)!Stop \/ Course(t)!Relaunch
    BY <2>1 DEF Steps, Course!Stop, Course!Relaunch, Course!Go, StepOf, Supervising
  <2> QED BY <2>1, <2>2, OwnProper DEF Steps, Admitting, Course!Next
<1>7. CASE PersistCheck(t)
  <2>1. \/ Steps(t, "persist", "finish", "completed", n)
        \/ Steps(t, "persist", "finish", "failed", n)
        \/ Steps(t, "persist", "write", v, n)
    BY <1>7 DEF PersistCheck, Local, Steps
  <2>2. Course(t)!Complete \/ Course(t)!Fail \/ UNCHANGED Course(t)!outlineVars
    BY <2>1 DEF Steps, Course!Complete, Course!Fail, Course!Go, Course!outlineVars, StepOf,
                Supervising
  <2> QED BY <2>1, <2>2, OwnProper DEF Steps, Admitting, Course!Next
<1>8. CASE PersistWrite(t)
  <2>1. Steps(t, "write", "finish", "completed", n)
    BY <1>8 DEF PersistWrite, Local, Steps
  <2>2. Course(t)!Complete
    BY <2>1 DEF Steps, Course!Complete, Course!Go, StepOf, Supervising
  <2> QED BY <2>1, <2>2, OwnProper DEF Steps, Admitting, Course!Next
<1>9. CASE FinishRead(t) \/ FinishWrite(t)
  <2>1. pc[t] \in {"finish", "finwrite"} /\ pc'[t] \in {"finwrite", "finalize"}
        /\ UNCHANGED <<verdict[t], tries[t]>>
    BY <1>9 DEF FinishRead, FinishWrite, Local
  <2>2. UNCHANGED Course(t)!outlineVars
    BY <2>1 DEF Course!outlineVars, StepOf, Supervising
  <2> QED BY <2>1, <2>2, OwnProper DEF Admitting
<1>10. CASE Finalize(t)
  <2>1. Steps(t, "finalize", "release", v, n)
    BY <1>10 DEF Finalize, Local, Steps
  <2>2. Course(t)!Leave
    BY <2>1 DEF Steps, Course!Leave, StepOf, Supervising
  <2> QED BY <2>1, <2>2, OwnProper DEF Steps, Admitting, Course!Next
<1>11. CASE ReleaseSlot(t)
  BY <1>11, OutsideProper DEF ReleaseSlot, Supervising, Admitting
<1>12. CASE ReleaseLease(t)
  BY <1>12, QuitProper DEF ReleaseLease
<1> QED
  BY <1>1, <1>2, <1>3, <1>4, <1>5, <1>6, <1>7, <1>8, <1>9, <1>10, <1>11, <1>12 DEF Supervise

LEMMA AdmitProper ==
  ASSUME TypeOK, NEW t \in Threads, Untouched(t),
         Admit(t) \/ EnqueueInsert(t) \/ \E r \in Repos : EnqueueCheck(t, r)
  PROVE  Proper(t)
<1> USE DEF TypeOK, TypeThreads, At, Goto
<1>1. CASE EnqueueInsert(t) \/ \E r \in Repos : EnqueueCheck(t, r)
  BY <1>1, OutsideProper DEF EnqueueInsert, EnqueueCheck, Supervising, Admitting
<1>2. CASE Notify(t) \/ AcquireLease(t)
  BY <1>2, OutsideProper DEF Notify, AcquireLease, Supervising, Admitting
<1>3. CASE DispatchRead(t) \/ Reserve(t)
  BY <1>3, QuitProper, OutsideProper DEF DispatchRead, Reserve, Supervising, Admitting
<1>4. CASE Claim(t)
  <2>1. \/ Steps(t, "claim", "start", verdict[t], tries[t])
        \/ Steps(t, "claim", "unlease", verdict[t], tries[t])
    BY <1>4 DEF Claim, Steps
  <2>2. verdict[t] = "failed" /\ tries[t] = 0
    BY <2>1 DEF Steps, Untouched, Admitting
  <2>3. Course(t)!Enter \/ UNCHANGED Course(t)!outlineVars
    BY <2>1, <2>2 DEF Steps, Course!Enter, Course!Go, Course!outlineVars, StepOf, Supervising
  <2> QED BY <2>1, <2>3, OwnProper DEF Steps, Admitting, Course!Next
<1> QED BY <1>1, <1>2, <1>3, <1>4 DEF Admit

\* A failed clean-up or transaction.
LEMMA FaultProper ==
  ASSUME TypeOK, NEW t \in Threads, Untouched(t), CleanupFails(t) \/ DbFault(t)
  PROVE  Proper(t)
<1> USE DEF TypeOK, TypeThreads, At, Goto
<1>1. CASE \E S : Quit(S)
  BY <1>1, QuitProper
<1>2. CASE /\ pc[t] = "lease" /\ pc' = [pc EXCEPT ![t] = "unlease"]
           /\ UNCHANGED <<verdict, tries>>
  BY <1>2, OutsideProper DEF Supervising, Admitting
<1>3. CASE /\ pc[t] \in {"start", "check", "tend", "persist", "write", "finish"}
           /\ pc'[t] = "finish" /\ verdict'[t] = "failed" /\ UNCHANGED tries
  <2>1. Course(t)!Fail
    BY <1>3 DEF Course!Fail, StepOf, Supervising
  <2> QED BY <1>3, <2>1, OwnProper DEF Admitting, Course!Next
<1>4. CASE /\ pc[t] \in {"finish", "finwrite", "finalize"} /\ pc'[t] = "release"
           /\ UNCHANGED <<verdict, tries>>
  <2>1. Course(t)!Leave
    BY <1>4 DEF Course!Leave, StepOf, Supervising
  <2> QED BY <1>4, <2>1, OwnProper DEF Admitting, Course!Next
<1>5. CASE CleanupFails(t)
  BY <1>3, <1>5 DEF CleanupFails, Local
<1>6. CASE DbFault(t)
  BY <1>1, <1>2, <1>3, <1>4, <1>6 DEF DbFault
<1> QED BY <1>5, <1>6

-----------------------------------------------------------------------------
\* The steps of others.

LEMMA OthersProper ==
  ASSUME TypeOK, NEW t \in Threads, Untouched(t), NEW u \in Threads, u # t,
         Thread(u) \/ CleanupFails(u) \/ DbFault(u) \/ \E r \in Repos : EnqueueCheck(u, r)
  PROVE  Proper(t)
<1> DEFINE Still == UNCHANGED <<pc[t], verdict[t], tries[t]>>
<1> USE DEF TypeOK, TypeThreads, Goto
<1>1. ASSUME Quit({u}) PROVE Still
  BY <1>1 DEF Quit
<1>2. CASE EnqueueInsert(u) \/ Admit(u) \/ \E r \in Repos : EnqueueCheck(u, r)
  <2>1. Still
    BY <1>1, <1>2
    DEF EnqueueInsert, EnqueueCheck, Admit, Notify, DispatchRead, Reserve, AcquireLease, Claim
  <2> QED BY <2>1, StillProper
<1>3. CASE Supervise(u)
  <2>1. ASSUME Launch(u) \/ WorkerDone(u) \/ WorkerBroken(u) \/ SeeCancel(u) PROVE Still
    BY <2>1 DEF Launch, WorkerDone, WorkerBroken, SeeCancel, Local
  <2>2. ASSUME Renew(u) \/ Pass(u) \/ TimeOut(u) \/ Stop(u) PROVE Still
    BY <2>2 DEF Renew, Pass, TimeOut, Stop, Local
  <2>3. ASSUME PersistCheck(u) \/ PersistWrite(u) \/ FinishRead(u) \/ FinishWrite(u) PROVE Still
    BY <2>3 DEF PersistCheck, PersistWrite, FinishRead, FinishWrite, Local
  <2>4. ASSUME Finalize(u) \/ ReleaseSlot(u) \/ ReleaseLease(u) PROVE Still
    BY <1>1, <2>4 DEF Finalize, ReleaseSlot, ReleaseLease, Local
  <2>5. Still
    BY <1>3, <2>1, <2>2, <2>3, <2>4 DEF Supervise
  <2> QED BY <2>5, StillProper
<1>4. CASE CleanupFails(u) \/ DbFault(u)
  <2>1. Still
    BY <1>1, <1>4 DEF CleanupFails, DbFault, Local
  <2> QED BY <2>1, StillProper
<1> QED BY <1>2, <1>3, <1>4 DEF Thread

LEMMA EveryStepProper ==
  ASSUME TypeOK, [Next]_vars, NEW t \in Threads, Untouched(t) PROVE Proper(t)
<1>1. ASSUME NEW p \in Procs, Crash(p) PROVE Proper(t)
  BY <1>1, QuitProper DEF Crash
<1>2. CASE \/ \E c \in Cancellers : Cancel(c) \/ \E j \in Jobs : CancelSignal(c, j)
           \/ \E x \in Sweepers : Reconcile(x)
           \/ \E p \in Procs : Restart(p)
           \/ Tick \/ UNCHANGED vars
  <2>1. UNCHANGED <<pc[t], verdict[t], tries[t]>>
    BY <1>2 DEF Cancel, CancelSignal, CancelRead, CancelWrite, Reconcile, SweepRead,
                SweepWrite, Restart, Tick, vars
  <2> QED BY <2>1, StillProper
<1>3. ASSUME NEW u \in Threads,
             Thread(u) \/ CleanupFails(u) \/ DbFault(u) \/ \E r \in Repos : EnqueueCheck(u, r)
      PROVE  Proper(t)
  <2>1. CASE u = t
    BY <1>3, <2>1, AdmitProper, SuperviseProper, FaultProper DEF Thread
  <2>2. CASE u # t
    BY <1>3, <2>2, OthersProper
  <2> QED BY <2>1, <2>2
<1> QED BY <1>1, <1>2, <1>3 DEF Next

\* Whatever crashes, fails or is cancelled, supervise() goes through its launches,
\* rounds, cuts and verdicts as SupervisionOutline says, in every thread at once;
\* WorkersFollowOutline (WorkerProofs) shows that the worker processes give it
\* exactly that.
THEOREM ThreadsFollowOutline == Spec => FollowsOutline
<1> DEFINE AllUntouched == \A t \in Threads : Untouched(t)
           AllCourses == \A t \in Threads : [Course(t)!Next]_(Course(t)!outlineVars)
           Starts == \A t \in Threads : Course(t)!Init
<1>1. Init => Starts /\ AllUntouched
  BY CourseStarts
<1>2. TypeOK /\ AllUntouched /\ [Next]_vars => AllUntouched' /\ AllCourses
  BY EveryStepProper DEF Proper, Course1
<1>3. Init /\ [][Next]_vars => Starts /\ [][AllCourses]_vars
  BY <1>1, <1>2, TypeInit, TypeNext, PTL
<1> QED BY <1>3 DEF Spec, FollowsOutline
=============================================================================
