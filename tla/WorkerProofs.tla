---------------------------- MODULE WorkerProofs ----------------------------
(***************************************************************************)
(* Proofs about WorkerSupervision, for every number of launches and every  *)
(* limit.  WInv is the inductive invariant; each of its parts has a lemma  *)
(* that says how the steps preserve it.                                    *)
(***************************************************************************)
EXTENDS WorkerProperties, TLAPS

\* Nothing has been launched or created before its control point.
Fresh ==
  /\ spc \in {"begin", "setup", "launch"} => launched = 0
  /\ spc \in {"begin", "setup"} => ~dir

\* Only the last worker can be alive, and the supervisor concludes a launch
\* when that one has exited.
OnlyCurrent ==
  /\ \A a \in Attempt : Alive(a) => a = launched
  /\ spc = "exited" => ~Alive(launched)
  /\ spc = "persist" => code[launched] = "ok"

\* An artifact that is there when the last worker has placed its own is its own.
OwnArtifact ==
  \A a \in Attempt :
    a = launched /\ (worker[a] = "placed" \/ code[a] = "ok") => artifact \in {0, a}
StoredLast == ResultOfLastWorker /\ (stored # 0 => spc \in Ending)

\* Under supervision the heartbeat is there, and the signs that would stop a
\* worker have a cause.
Signs ==
  /\ spc \in Loop \cup {"launch"} =>
       "heartbeat" \in files /\ (beatAge <= Limit \/ stalled)
  /\ spc \in Loop \cup {"launch", "persist"} => (cancelFile => cancelled)
  /\ signalling => cancelled

-----------------------------------------------------------------------------
\* Types.

LEMMA StartType ==
  ASSUME TypeOK, StartWorker, launched < Launches
  PROVE  TypeOK' /\ launched' = launched + 1
<1> USE LaunchesAssumption
<1>1. launched + 1 \in Attempt /\ launched \in Nat
  BY DEF TypeOK, TypeSuper, Attempt
<1>2. TypeSuper'
  BY <1>1 DEF StartWorker, To, TypeOK, TypeSuper, Tried, Loop, Attempt
<1>3. TypeFiles' /\ TypeCancel'
  BY DEF StartWorker, TypeOK, TypeFiles, TypeCancel, fileVars, cancelVars
<1>4. TypeWorkers'
  BY <1>1 DEF StartWorker, TypeOK, TypeWorkers, Working, Attempt, TypeSuper
<1> QED BY <1>2, <1>3, <1>4 DEF StartWorker, TypeOK

\* The supervisor's other steps: they leave the workers alone.
LEMMA SuperType ==
  ASSUME TypeOK, Fresh,
         \/ Begin \/ Setup \/ Poll \/ CheckCancel \/ LeaseLost \/ GoRound
         \/ TimeOut \/ Conclude \/ Leave \/ Persist \/ Unlink \/ RemoveDir
         \/ Reap \/ Fault \/ Crash
  PROVE  TypeOK'
<1> USE LaunchesAssumption, LimitAssumption
<1>1. TypeSuper'
  <2>1. CASE Begin \/ Setup \/ Poll \/ CheckCancel \/ LeaseLost \/ GoRound
             \/ TimeOut \/ Conclude \/ Leave
    BY <2>1 DEF Begin, Setup, Poll, CheckCancel, LeaseLost, GoRound, TimeOut,
                Conclude, Leave, To, At, TypeOK, TypeSuper, Tried, Loop, Ending
  <2>2. CASE Persist
    BY <2>2 DEF Persist, To, At, TypeOK, TypeSuper, TypeFiles, Tried, Loop, Ending
  <2>3. CASE Unlink \/ RemoveDir
    BY <2>3 DEF Unlink, RemoveDir, To, At, TypeOK, TypeSuper, Tried, Loop, Ending
  <2>4. CASE Fault \/ Reap \/ Crash
    BY <2>4 DEF Fault, Reap, Crash, To, TypeOK, TypeSuper, Tried, Loop, Ending
  <2> QED BY <2>1, <2>2, <2>3, <2>4
<1>2. TypeFiles'
  <2>1. CASE Setup
    BY <2>1 DEF Setup, At, TypeOK, TypeFiles, Fresh, Files
  <2>2. CASE Poll
    BY <2>2 DEF Poll, TypeOK, TypeFiles
  <2>4. CASE Unlink
    BY <2>4 DEF Unlink, TypeOK, TypeFiles
  <2>5. CASE RemoveDir
    <3>1. UNCHANGED <<files, artifact, beatAge>>
      BY <2>5 DEF RemoveDir
    <3>2. \/ files = {} /\ dir' = FALSE
          \/ UNCHANGED dir
      BY <2>5 DEF RemoveDir
    <3>3. dir' \in BOOLEAN
      BY <3>2 DEF TypeOK, TypeFiles
    <3>4. files # {} => dir'
      BY <3>2 DEF TypeOK, TypeFiles
    <3> QED BY <3>1, <3>3, <3>4 DEF TypeOK, TypeFiles
  <2>3. CASE UNCHANGED fileVars
    BY <2>3 DEF fileVars, TypeOK, TypeFiles
  <2> QED BY <2>1, <2>2, <2>3, <2>4, <2>5
          DEF Begin, CheckCancel, LeaseLost, GoRound, TimeOut, Conclude, Leave,
              Persist, Reap, Fault, Crash
<1>3. UNCHANGED <<worker, code, launched, stalled, cancelled, signalling>>
      /\ cancelFile' \in {FALSE, cancelFile}
  BY DEF Begin, Setup, Poll, CheckCancel, LeaseLost, GoRound, TimeOut, Conclude,
         Leave, Persist, Unlink, RemoveDir, Reap, Fault, Crash, cancelVars,
         workerVars
<1>4. TypeCancel' /\ TypeWorkers'
  BY <1>3 DEF TypeOK, TypeCancel, TypeWorkers, Alive
<1> QED BY <1>1, <1>2, <1>4 DEF TypeOK

LEMMA ExitType ==
  ASSUME TypeOK, NEW a \in Attempt, Alive(a), NEW c, Exit(a, c),
         c \in {"ok", "stop", "unpublished", "error", "killed"},
         UNCHANGED <<launched, stalled>>
  PROVE  TypeWorkers'
  BY DEF TypeOK, TypeWorkers, Exit, Alive, Working, TypeSuper

LEMMA MoveType ==
  ASSUME TypeOK, NEW a \in Attempt, NEW from \in Working, NEW to \in Working,
         Move(a, from, to), UNCHANGED <<launched, stalled>>
  PROVE  TypeWorkers'
  BY DEF TypeOK, TypeWorkers, Move, Working, TypeSuper

LEMMA ScanType ==
  ASSUME TypeOK, NEW a \in Attempt, Scan(a) \/ Watch(a)
  PROVE  TypeOK' /\ UNCHANGED superVars
<1> USE DEF Alive, Working
<1>1. UNCHANGED superVars /\ UNCHANGED cancelVars /\ UNCHANGED stalled
  BY DEF Scan, Watch, Boot, Report, Publish, PublishFails, WriteResult,
         PlaceResult, Finish, WorkerFails, WorkerOnly
<1>2. TypeSuper' /\ TypeCancel'
  BY <1>1 DEF superVars, cancelVars, TypeOK, TypeSuper, TypeCancel
<1>3. TypeFiles'
  <2>1. CASE UNCHANGED fileVars
    BY <2>1 DEF fileVars, TypeOK, TypeFiles
  <2>2. CASE Publish(a) \/ WriteResult(a)
    BY <2>2 DEF Publish, WriteResult, TypeOK, TypeFiles, Files
  <2>3. CASE PlaceResult(a)
    <3>1. a \in 0..Launches /\ a # 0
      BY LaunchesAssumption DEF Attempt
    <3>2. dir
      BY <2>3 DEF PlaceResult, TypeOK, TypeFiles
    <3> QED BY <2>3, <3>1, <3>2 DEF PlaceResult, TypeOK, TypeFiles, Files
  <2> QED BY <2>1, <2>2, <2>3 DEF Scan, Watch, Boot, Report, PublishFails, Finish,
             WorkerFails, WorkerOnly
<1>4. TypeWorkers'
  <2>1. UNCHANGED <<launched, stalled>>
    BY <1>1 DEF superVars
  <2>2. ASSUME NEW from \in Working, NEW to \in Working, Move(a, from, to)
        PROVE  TypeWorkers'
    BY <2>1, <2>2, MoveType
  <2>3. ASSUME NEW c \in {"ok", "stop", "unpublished", "error", "killed"},
               Alive(a), Exit(a, c)
        PROVE  TypeWorkers'
    BY <2>1, <2>3, ExitType
  <2>4. CASE Boot(a) \/ Publish(a) \/ WriteResult(a) \/ PlaceResult(a)
    BY <2>2, <2>4 DEF Boot, Publish, WriteResult, PlaceResult
  <2>5. CASE Report(a)
    BY <2>2, <2>3, <2>5 DEF Report
  <2>6. CASE PublishFails(a) \/ Finish(a) \/ WorkerFails(a) \/ Watch(a)
    BY <2>3, <2>6 DEF PublishFails, Finish, WorkerFails, Watch
  <2> QED BY <2>4, <2>5, <2>6 DEF Scan
<1> QED BY <1>1, <1>2, <1>3, <1>4 DEF TypeOK

LEMMA TerminateType ==
  ASSUME TypeOK, NEW a \in Attempt, Terminate(a)
  PROVE  TypeOK'
<1>1. TypeSuper' /\ TypeFiles' /\ TypeCancel'
  BY DEF Terminate, To, At, fileVars, cancelVars, TypeOK, TypeSuper, TypeFiles,
         TypeCancel, Tried, Loop, Ending
<1>2. TypeWorkers'
  <2>1. CASE Terminated(a)
    <3>1. Exit(a, "killed")
      BY <2>1 DEF Terminated, Exit
    <3> QED BY <3>1, ExitType DEF Terminate
  <2>2. CASE UNCHANGED workerVars
    BY <2>2 DEF Terminate, workerVars, TypeOK, TypeWorkers
  <2> QED BY <2>1, <2>2 DEF Terminate
<1> QED BY <1>1, <1>2 DEF TypeOK

-----------------------------------------------------------------------------
\* The kinds of steps.

SuperStep ==
  \/ Begin \/ Setup \/ Poll \/ CheckCancel \/ LeaseLost \/ GoRound
  \/ TimeOut \/ Conclude \/ Leave \/ Persist \/ Unlink \/ RemoveDir
  \/ Reap \/ Fault \/ Crash
StartStep ==
  /\ StartWorker
  /\ launched < Launches
  /\ \A a \in Attempt : ~Alive(a)
  /\ spc \in {"launch", "exited", "leave"}
WorkerStep(a) == Scan(a) \/ Watch(a) \/ Terminate(a)
EnvStep == RequestCancel \/ Signal \/ Tick \/ UNCHANGED vars

LEMMA Steps ==
  ASSUME TypeOK, Fresh, OnlyCurrent, [Next]_vars
  PROVE  SuperStep \/ StartStep \/ EnvStep \/ \E a \in Attempt : WorkerStep(a)
<1>1. ASSUME Launch \/ Retry \/ LeaveRetry PROVE StartStep
  <2>1. StartWorker /\ spc \in {"launch", "exited", "leave"}
    BY <1>1 DEF Launch, Retry, LeaveRetry, At
  <2>2. launched < Launches
    BY <1>1, LaunchesAssumption DEF Launch, Retry, LeaveRetry, At, Fresh
  <2>3. \A a \in Attempt : ~Alive(a)
    BY <1>1, LaunchesAssumption DEF Launch, Retry, LeaveRetry, At, Fresh,
       OnlyCurrent, Current, Attempt
  <2> QED BY <2>1, <2>2, <2>3 DEF StartStep
<1> QED BY <1>1 DEF Next, Supervise, SuperStep, WorkerStep, EnvStep

\* A worker that has exited stays as it is, and no worker comes alive.
LEMMA WorkerFrame ==
  ASSUME TypeOK, NEW a \in Attempt, WorkerStep(a)
  PROVE  /\ Alive(a)
         /\ \A b \in Attempt \ {a} : worker'[b] = worker[b] /\ code'[b] = code[b]
         /\ UNCHANGED <<launched, stored, cancelVars, stalled, dir, beatAge>>
         /\ spc' = spc \/ (spc = "reap" /\ spc' = "over")
<1> USE DEF Alive, Working
<1>1. ASSUME NEW from \in Working, NEW to, Move(a, from, to)
      PROVE  Alive(a) /\ \A b \in Attempt \ {a} : worker'[b] = worker[b]
                                               /\ code'[b] = code[b]
  BY <1>1 DEF Move, TypeOK, TypeWorkers
<1>2. ASSUME NEW c, Exit(a, c)
      PROVE  \A b \in Attempt \ {a} : worker'[b] = worker[b] /\ code'[b] = code[b]
  BY <1>2 DEF Exit, TypeOK, TypeWorkers
<1>3. CASE Terminate(a)
  <2>1. Alive(a) /\ spc = "reap" /\ spc' = "over"
        /\ UNCHANGED <<launched, stored, cancelVars, stalled, dir, beatAge>>
    BY <1>3 DEF Terminate, At, To, fileVars
  <2>2. \A b \in Attempt \ {a} : worker'[b] = worker[b] /\ code'[b] = code[b]
    BY <1>2, <1>3 DEF Terminate, Terminated, Exit, workerVars
  <2> QED BY <2>1, <2>2
<1>4. CASE Boot(a) \/ Publish(a) \/ WriteResult(a) \/ PlaceResult(a)
  <2>1. \E from \in Working : \E to : Move(a, from, to)
    BY <1>4 DEF Boot, Publish, WriteResult, PlaceResult
  <2> QED BY <1>1, <1>4, <2>1 DEF Boot, Publish, WriteResult, PlaceResult,
             WorkerOnly, superVars, fileVars
<1>5. CASE Report(a)
  BY <1>1, <1>2, <1>5 DEF Report, WorkerOnly, superVars, fileVars
<1>6. CASE PublishFails(a) \/ Finish(a) \/ WorkerFails(a) \/ Watch(a)
  BY <1>2, <1>6 DEF PublishFails, Finish, WorkerFails, Watch, WorkerOnly,
     superVars, fileVars
<1> QED BY <1>3, <1>4, <1>5, <1>6 DEF WorkerStep, Scan

LEMMA SuperFrame ==
  ASSUME SuperStep
  PROVE  UNCHANGED <<launched, workerVars, stalled, cancelled, signalling>>
  BY DEF SuperStep, Begin, Setup, Poll, CheckCancel, LeaseLost, GoRound, TimeOut,
     Conclude, Leave, Persist, Unlink, RemoveDir, Reap, Fault, Crash, cancelVars

LEMMA EnvFrame ==
  ASSUME EnvStep
  PROVE  UNCHANGED <<superVars, workerVars, dir, files, artifact>>
  BY DEF EnvStep, RequestCancel, Signal, Tick, vars, fileVars

LEMMA TypeStep ==
  ASSUME TypeOK, Fresh, OnlyCurrent, [Next]_vars
  PROVE  TypeOK'
<1>1. CASE SuperStep
  BY <1>1, SuperType DEF SuperStep
<1>2. CASE StartStep
  BY <1>2, StartType DEF StartStep
<1>3. CASE EnvStep
  <2>1. TypeSuper' /\ TypeWorkers'
    <3>1. UNCHANGED <<superVars, workerVars>>
      BY <1>3, EnvFrame
    <3>2. stalled' = TRUE \/ stalled' = stalled
      BY <1>3 DEF EnvStep, RequestCancel, Signal, Tick, vars
    <3>3. stalled' \in BOOLEAN
      <4>1. stalled \in BOOLEAN
        BY DEF TypeOK, TypeWorkers
      <4>2. CASE stalled' = TRUE
        BY <4>2
      <4>3. CASE stalled' = stalled
        BY <4>1, <4>3
      <4> QED BY <3>2, <4>2, <4>3
    <3> QED BY <3>1, <3>3 DEF superVars, workerVars, TypeOK, TypeSuper, TypeWorkers
  <2>2. TypeFiles'
    <3>1. UNCHANGED <<dir, files, artifact>>
      BY <1>3, EnvFrame
    <3>2. beatAge' = beatAge \/ (beatAge <= Limit /\ beatAge' = beatAge + 1)
      BY <1>3 DEF EnvStep, RequestCancel, Signal, Tick, vars, fileVars
    <3>3. beatAge \in 0..(Limit + 1)
      BY DEF TypeOK, TypeFiles
    <3>4. beatAge' \in 0..(Limit + 1)
      BY <3>2, <3>3, LimitAssumption
    <3> QED BY <3>1, <3>4 DEF TypeOK, TypeFiles
  <2>3. TypeCancel'
    BY <1>3 DEF EnvStep, RequestCancel, Signal, Tick, vars, cancelVars, TypeOK,
       TypeCancel
  <2> QED BY <2>1, <2>2, <2>3 DEF TypeOK
<1>4. ASSUME NEW a \in Attempt, WorkerStep(a) PROVE TypeOK'
  BY <1>4, ScanType, TerminateType DEF WorkerStep
<1> QED BY <1>1, <1>2, <1>3, <1>4, Steps

-----------------------------------------------------------------------------
\* One worker at a time.

LEMMA FreshNext ==
  ASSUME TypeOK, Fresh, OnlyCurrent, [Next]_vars
  PROVE  Fresh'
<1>1. CASE SuperStep
  <2>1. launched' = launched
    BY <1>1, SuperFrame
  <2>2. /\ spc' \in {"begin", "setup", "launch"} =>
             spc \in {"begin", "setup", "launch"}
        /\ spc' \in {"begin", "setup"} => spc \in {"begin", "setup"} /\ dir' = dir
    BY <1>1 DEF SuperStep, Begin, Setup, Poll, CheckCancel, LeaseLost, GoRound,
       TimeOut, Conclude, Leave, Persist, Unlink, RemoveDir, Reap, Fault, Crash,
       At, To, fileVars
  <2> QED BY <2>1, <2>2 DEF Fresh
<1>2. CASE StartStep
  BY <1>2 DEF StartStep, StartWorker, To, Fresh
<1>3. CASE EnvStep
  BY <1>3, EnvFrame DEF superVars, Fresh
<1>4. ASSUME NEW a \in Attempt, WorkerStep(a) PROVE Fresh'
  BY <1>4, WorkerFrame DEF Fresh
<1> QED BY <1>1, <1>2, <1>3, <1>4, Steps

\* What a launch changes: one worker more, the only one that is alive.
LEMMA StartFrame ==
  ASSUME TypeOK, StartStep
  PROVE  /\ spc' = "poll" /\ launched' = launched + 1 /\ launched + 1 \in Attempt
         /\ \A a \in Attempt : Alive(a)' <=> a = launched + 1
         /\ worker'[launched + 1] = "boot" /\ code[launched + 1] = "none"
         /\ \A a \in Attempt \ {launched + 1} : worker'[a] = worker[a]
         /\ UNCHANGED <<verdict, stored, dir, files, artifact, beatAge, cancelFile,
                        cancelled, signalling, code, stalled>>
<1>1. launched \in Nat /\ launched + 1 \in Attempt
  BY LaunchesAssumption DEF TypeOK, TypeSuper, Attempt, StartStep
<1>2. /\ spc' = "poll" /\ launched' = launched + 1
      /\ worker' = [worker EXCEPT ![launched + 1] = "boot"]
      /\ UNCHANGED <<verdict, stored, dir, files, artifact, beatAge, cancelFile,
                     cancelled, signalling, code, stalled>>
  BY DEF StartStep, StartWorker, To, fileVars, cancelVars
<1>3. /\ worker'[launched + 1] = "boot"
      /\ \A a \in Attempt \ {launched + 1} : worker'[a] = worker[a]
  BY <1>1, <1>2 DEF TypeOK, TypeWorkers
<1>4. code[launched + 1] = "none"
  <2>1. worker[launched + 1] = "none"
    BY <1>1 DEF TypeOK, TypeWorkers
  <2> QED BY <1>1, <2>1 DEF TypeOK, TypeWorkers
<1>5. \A a \in Attempt : Alive(a)' <=> a = launched + 1
  BY <1>1, <1>3 DEF Alive, Working, StartStep
<1> QED BY <1>1, <1>2, <1>3, <1>4, <1>5

LEMMA OnlyCurrentNext ==
  ASSUME TypeOK, Fresh, OnlyCurrent, [Next]_vars
  PROVE  OnlyCurrent'
<1>1. CASE SuperStep
  <2>1. UNCHANGED <<launched, worker, code>>
    BY <1>1, SuperFrame DEF workerVars
  <2>2. /\ spc' = "exited" => spc = "exited" \/ ~Alive(launched)
        /\ spc' = "persist" => spc = "persist" \/ code[launched] = "ok"
    BY <1>1 DEF SuperStep, Begin, Setup, Poll, CheckCancel, LeaseLost, GoRound,
       TimeOut, Conclude, Leave, Persist, Unlink, RemoveDir, Reap, Fault, Crash,
       At, To, Current
  <2> QED BY <2>1, <2>2 DEF OnlyCurrent, Alive
<1>2. CASE StartStep
  BY <1>2, StartFrame DEF OnlyCurrent
<1>3. CASE EnvStep
  BY <1>3, EnvFrame DEF superVars, workerVars, OnlyCurrent, Alive
<1>4. ASSUME NEW a \in Attempt, WorkerStep(a) PROVE OnlyCurrent'
  <2>1. a = launched /\ Alive(a)
    BY <1>4, WorkerFrame DEF OnlyCurrent
  <2>2. spc \notin {"exited", "persist"}
    BY <2>1 DEF OnlyCurrent, Alive, Working, TypeOK, TypeWorkers
  <2>3. \A b \in Attempt : Alive(b)' => b = launched
    BY <1>4, <2>1, WorkerFrame DEF OnlyCurrent, Alive
  <2> QED BY <1>4, <2>2, <2>3, WorkerFrame DEF OnlyCurrent
<1> QED BY <1>1, <1>2, <1>3, <1>4, Steps

LEMMA WorkerInit == Init => TypeOK /\ Fresh /\ OnlyCurrent
<1> SUFFICES ASSUME Init PROVE TypeOK /\ Fresh /\ OnlyCurrent OBVIOUS
<1> USE LaunchesAssumption, LimitAssumption
<1>1. TypeSuper
  <2>1. spc = "begin" /\ launched = 0 /\ verdict = "failed" /\ stored = 0
    BY DEF Init
  <2> QED BY <2>1 DEF TypeSuper, Tried, Loop
<1>2. TypeFiles /\ TypeCancel
  <2>1. /\ dir = FALSE /\ files = {} /\ artifact = 0 /\ beatAge = 0
        /\ cancelled = FALSE /\ signalling = FALSE
    BY DEF Init
  <2>2. cancelFile \in BOOLEAN
    BY DEF Init
  <2>3. files \in SUBSET Files /\ (files # {} => dir)
        /\ (artifact # 0 <=> "result" \in files)
    BY <2>1
  <2>4. artifact \in 0..Launches /\ beatAge \in 0..(Limit + 1)
    BY <2>1
  <2>5. dir \in BOOLEAN
    BY <2>1
  <2>6. TypeFiles
    BY <2>3, <2>4, <2>5 DEF TypeFiles
  <2> QED BY <2>1, <2>2, <2>6 DEF TypeCancel
<1>3. TypeWorkers
  <2>1. /\ worker = [a \in Attempt |-> "none"] /\ code = [a \in Attempt |-> "none"]
        /\ launched = 0 /\ stalled = FALSE
    BY DEF Init
  <2>2. \A a \in Attempt : a > launched
    BY <2>1 DEF Attempt
  <2>3. stalled \in BOOLEAN
    BY <2>1
  <2> QED BY <2>1, <2>2, <2>3 DEF TypeWorkers
<1>4. Fresh /\ OnlyCurrent
  BY DEF Init, Fresh, OnlyCurrent, Alive, Working
<1> QED BY <1>1, <1>2, <1>3, <1>4 DEF TypeOK

\* The first layer of the inductive invariant, on which the others rest.
Core == TypeOK /\ Fresh /\ OnlyCurrent

LEMMA CoreInvariant == Spec => []Core
<1>1. Core /\ [Next]_vars => Core'
  BY TypeStep, FreshNext, OnlyCurrentNext DEF Core
<1> QED BY <1>1, WorkerInit, PTL DEF Spec, Core

\* The types, the order of the launches and the agreement of files, workspace
\* and exit codes hold in every reachable state.
THEOREM WorkerTypes == Spec => []TypeOK
BY CoreInvariant, PTL DEF Core

\* Two workers of one scan never run at once: the supervisor starts a worker
\* only where the one before it has exited.
THEOREM OneWorkerAtATime == Spec => []OneWorker
<1>1. Core => OneWorker
  BY DEF Core, OnlyCurrent, OneWorker
<1> QED BY <1>1, CoreInvariant, PTL

-----------------------------------------------------------------------------
\* What the end of a supervision leaves behind.

LEMMA NothingLeftNext ==
  ASSUME Core, NothingLeftBehind, [Next]_vars
  PROVE  NothingLeftBehind'
<1> USE DEF Core
<1>1. CASE SuperStep
  <2>1. UNCHANGED <<launched, worker>>
    BY <1>1, SuperFrame DEF workerVars
  <2>2. spc' = "over" => \/ spc = "begin"
                         \/ spc = "reap" /\ \A a \in Attempt : a = launched => ~Alive(a)
    BY <1>1 DEF SuperStep, Begin, Setup, Poll, CheckCancel, LeaseLost, GoRound,
       TimeOut, Conclude, Leave, Persist, Unlink, RemoveDir, Reap, Fault, Crash,
       At, To, Current
  <2>3. spc = "begin" => \A a \in Attempt : ~Alive(a)
    BY DEF Fresh, OnlyCurrent, Attempt
  <2>4. spc' = "over" => \A a \in Attempt : ~Alive(a)
    BY <2>2, <2>3 DEF OnlyCurrent
  <2> QED BY <2>1, <2>4 DEF NothingLeftBehind, Alive
<1>2. CASE StartStep
  BY <1>2, StartFrame DEF NothingLeftBehind
<1>3. CASE EnvStep
  BY <1>3, EnvFrame DEF superVars, workerVars, NothingLeftBehind, Alive
<1>4. ASSUME NEW a \in Attempt, Scan(a) \/ Watch(a) PROVE NothingLeftBehind'
  <2>1. UNCHANGED <<spc, verdict>>
    BY <1>4, ScanType DEF superVars
  <2>2. Alive(a)
    BY <1>4, WorkerFrame DEF WorkerStep
  <2> QED BY <2>1, <2>2 DEF NothingLeftBehind
<1>5. ASSUME NEW a \in Attempt, Terminate(a) PROVE NothingLeftBehind'
  <2>1. a = launched /\ (verdict' # "failed" => Terminated(a))
    BY <1>5 DEF Terminate, Current
  <2>2. Terminated(a) => \A b \in Attempt : ~Alive(b)'
    BY <2>1 DEF Terminated, OnlyCurrent, Alive, Working, TypeOK, TypeWorkers
  <2> QED BY <2>1, <2>2 DEF NothingLeftBehind
<1> QED BY <1>1, <1>2, <1>3, <1>4, <1>5, Steps DEF WorkerStep

\* A supervision that ends with another verdict than "failed" has no worker
\* left: a termination that could not be confirmed turns the verdict.
THEOREM NoWorkerLeft == Spec => []NothingLeftBehind
<1>1. Init => NothingLeftBehind
  BY DEF Init, NothingLeftBehind
<1>2. Core /\ NothingLeftBehind /\ [Next]_vars => NothingLeftBehind'
  BY NothingLeftNext
<1> QED BY <1>1, <1>2, CoreInvariant, PTL DEF Spec

-----------------------------------------------------------------------------
\* Whose result is stored.

LEMMA OwnArtifactNext ==
  ASSUME Core, OwnArtifact, [Next]_vars
  PROVE  OwnArtifact'
<1> USE DEF Core
<1>1. CASE SuperStep
  <2>1. UNCHANGED <<launched, worker, code>>
    BY <1>1, SuperFrame DEF workerVars
  <2>2. artifact' \in {0, artifact}
    BY <1>1 DEF SuperStep, Begin, Setup, Poll, CheckCancel, LeaseLost, GoRound,
       TimeOut, Conclude, Leave, Persist, Unlink, RemoveDir, Reap, Fault, Crash,
       fileVars
  <2> QED BY <2>1, <2>2 DEF OwnArtifact
<1>2. CASE StartStep
  BY <1>2, StartFrame DEF OwnArtifact
<1>3. CASE EnvStep
  BY <1>3, EnvFrame DEF superVars, workerVars, OwnArtifact
<1>4. ASSUME NEW a \in Attempt, WorkerStep(a) PROVE OwnArtifact'
  <2>1. a = launched /\ launched' = launched
    BY <1>4, WorkerFrame DEF OnlyCurrent
  <2>2. SUFFICES ASSUME worker'[a] = "placed" \/ code'[a] = "ok"
                 PROVE  artifact' \in {0, a}
    BY <2>1 DEF OwnArtifact
  <2>3. CASE PlaceResult(a)
    BY <2>3 DEF PlaceResult
  <2>4. CASE Finish(a)
    BY <2>1, <2>4 DEF Finish, WorkerOnly, fileVars, OwnArtifact
  <2>5. CASE ~PlaceResult(a) /\ ~Finish(a)
    <3>1. code[a] = "none"
      BY <1>4, WorkerFrame DEF Alive, Working, TypeOK, TypeWorkers
    <3>2. ASSUME NEW from, NEW to \in {"scan", "publish", "place"},
                 Move(a, from, to)
          PROVE  FALSE
      BY <2>2, <3>1, <3>2 DEF Move, TypeOK, TypeWorkers
    <3>3. ASSUME NEW c \in {"stop", "unpublished", "error", "killed"}, Exit(a, c)
          PROVE  FALSE
      BY <2>2, <3>3 DEF Exit, TypeOK, TypeWorkers
    <3>4. CASE Boot(a) \/ Publish(a) \/ WriteResult(a)
      BY <3>2, <3>4 DEF Boot, Publish, WriteResult
    <3>5. CASE Report(a)
      BY <3>2, <3>3, <3>5 DEF Report
    <3>6. CASE PublishFails(a) \/ WorkerFails(a) \/ Watch(a)
      BY <3>3, <3>6 DEF PublishFails, WorkerFails, Watch
    <3>7. CASE Terminate(a)
      <4>1. CASE Terminated(a)
        BY <3>3, <4>1 DEF Terminated, Exit
      <4>2. CASE UNCHANGED workerVars
        BY <2>1, <2>2, <3>7, <4>2 DEF workerVars, Terminate, fileVars, OwnArtifact
      <4> QED BY <3>7, <4>1, <4>2 DEF Terminate
    <3> QED BY <1>4, <2>5, <3>4, <3>5, <3>6, <3>7 DEF WorkerStep, Scan
  <2> QED BY <2>3, <2>4, <2>5
<1> QED BY <1>1, <1>2, <1>3, <1>4, Steps

LEMMA StoredLastNext ==
  ASSUME Core, OwnArtifact, StoredLast, [Next]_vars
  PROVE  StoredLast'
<1> USE DEF Core
<1>1. CASE SuperStep
  <2>1. UNCHANGED <<launched, code>>
    BY <1>1, SuperFrame DEF workerVars
  <2>2. spc \in Ending => spc' \in Ending
    BY <1>1 DEF SuperStep, Begin, Setup, Poll, CheckCancel, LeaseLost, GoRound,
       TimeOut, Conclude, Leave, Persist, Unlink, RemoveDir, Reap, Fault, Crash,
       At, To, Tried, Loop, Ending
  <2>3. CASE stored' = stored
    BY <2>1, <2>2, <2>3 DEF StoredLast, ResultOfLastWorker
  <2>4. CASE stored' # stored
    <3>1. Persist
      BY <1>1, <2>4 DEF SuperStep, Begin, Setup, Poll, CheckCancel, LeaseLost,
         GoRound, TimeOut, Conclude, Leave, Unlink, RemoveDir, Reap, Fault, Crash
    <3>2. spc = "persist" /\ spc' = "clean" /\ stored' = artifact /\ artifact # 0
      BY <2>4, <3>1 DEF Persist, At, To, TypeOK, TypeFiles
    <3>3. launched \in Attempt /\ code[launched] = "ok"
      BY <3>2, LaunchesAssumption DEF OnlyCurrent, TypeOK, TypeSuper, Attempt
    <3>4. artifact = launched
      BY <3>2, <3>3 DEF OwnArtifact
    <3> QED BY <2>1, <3>2, <3>3, <3>4 DEF StoredLast, ResultOfLastWorker, Ending
  <2> QED BY <2>3, <2>4
<1>2. CASE StartStep
  <2>1. stored = 0
    BY <1>2 DEF StartStep, StoredLast, Ending
  <2> QED BY <1>2, <2>1, StartFrame DEF StoredLast, ResultOfLastWorker
<1>3. CASE EnvStep
  BY <1>3, EnvFrame DEF superVars, workerVars, StoredLast, ResultOfLastWorker
<1>4. ASSUME NEW a \in Attempt, WorkerStep(a) PROVE StoredLast'
  <2>1. UNCHANGED <<launched, stored>> /\ (spc \in Ending => spc' \in Ending)
    BY <1>4, WorkerFrame DEF Ending
  <2>2. stored # 0 => stored \in Attempt /\ stored # a
    BY <1>4, WorkerFrame, LaunchesAssumption
       DEF StoredLast, ResultOfLastWorker, Alive, Working, TypeOK, TypeSuper,
           TypeWorkers, Attempt
  <2> QED BY <1>4, <2>1, <2>2, WorkerFrame DEF StoredLast, ResultOfLastWorker
<1> QED BY <1>1, <1>2, <1>3, <1>4, Steps

\* A stored result is that of the last worker, which exited with code 0.
THEOREM StoredIsOfLastWorker == Spec => []ResultOfLastWorker
<1>1. Init => OwnArtifact /\ StoredLast
  BY DEF Init, OwnArtifact, StoredLast, ResultOfLastWorker
<1>2. Core /\ OwnArtifact /\ StoredLast /\ [Next]_vars
        => OwnArtifact' /\ StoredLast'
  BY OwnArtifactNext, StoredLastNext
<1>3. StoredLast => ResultOfLastWorker
  BY DEF StoredLast
<1> QED BY <1>1, <1>2, <1>3, CoreInvariant, PTL DEF Spec

-----------------------------------------------------------------------------
\* Why a worker stops.

LEMMA SignsNext ==
  ASSUME Core, Signs, [Next]_vars
  PROVE  Signs'
<1> USE DEF Core
<1> DEFINE Looking == Loop \cup {"launch"}
<1>1. CASE SuperStep
  <2>1. UNCHANGED <<stalled, cancelled, signalling>>
    BY <1>1, SuperFrame
  <2>2. CASE Setup
    <3>1. spc' = "launch" /\ files' = {"heartbeat"} /\ beatAge' = 0
          /\ cancelFile' = FALSE
      BY <2>2 DEF Setup, To
    <3> QED BY <2>1, <3>1, LimitAssumption DEF Signs
  <2>3. CASE Unlink
    BY <2>1, <2>3 DEF Unlink, To, Signs, Loop
  <2>4. CASE ~Setup /\ ~Unlink
    <3>1. UNCHANGED <<files, cancelFile>> /\ beatAge' \in {0, beatAge}
      BY <1>1, <2>4 DEF SuperStep, Begin, Poll, CheckCancel, LeaseLost, GoRound,
         TimeOut, Conclude, Leave, Persist, RemoveDir, Reap, Fault, Crash,
         fileVars, cancelVars
    <3>2. /\ spc' \in Looking => spc \in Looking
          /\ spc' \in Looking \cup {"persist"} => spc \in Looking \cup {"persist"}
      BY <1>1, <2>4 DEF SuperStep, Begin, Poll, CheckCancel, LeaseLost, GoRound,
         TimeOut, Conclude, Leave, Persist, RemoveDir, Reap, Fault, Crash,
         At, To, Loop
    <3> QED BY <2>1, <3>1, <3>2, LimitAssumption DEF Signs
  <2> QED BY <2>2, <2>3, <2>4
<1>2. CASE StartStep
  <2>1. spc \in Looking
    BY <1>2 DEF StartStep, Loop
  <2>2. UNCHANGED <<files, beatAge, cancelFile, cancelled, signalling, stalled>>
    BY <1>2, StartFrame
  <2> QED BY <2>1, <2>2 DEF Signs
<1>3. CASE EnvStep
  <2>1. UNCHANGED <<spc, files>>
    BY <1>3, EnvFrame DEF superVars
  <2>2. CASE RequestCancel
    BY <2>1, <2>2 DEF RequestCancel, Signs, fileVars
  <2>3. CASE Signal
    <3>1. signalling /\ signalling' = FALSE
          /\ UNCHANGED <<cancelled, beatAge, stalled>>
      BY <2>3 DEF Signal, fileVars
    <3> QED BY <2>1, <3>1 DEF Signs
  <2>4. CASE Tick
    <3>1. UNCHANGED <<cancelled, cancelFile, signalling>>
      BY <2>4 DEF Tick, cancelVars
    <3>2. ASSUME spc \in Looking PROVE beatAge' <= Limit \/ stalled'
      <4>1. beatAge \in 0..(Limit + 1)
        BY DEF TypeOK, TypeFiles
      <4>2. CASE beatAge = Limit
        BY <2>4, <3>2, <4>2 DEF Tick
      <4>3. CASE beatAge # Limit
        BY <2>4, <4>1, <4>3, LimitAssumption DEF Tick
      <4> QED BY <4>2, <4>3
    <3> QED BY <2>1, <3>1, <3>2 DEF Signs
  <2>5. CASE UNCHANGED vars
    BY <2>5 DEF vars, superVars, fileVars, cancelVars, Signs
  <2> QED BY <1>3, <2>2, <2>3, <2>4, <2>5 DEF EnvStep
<1>4. ASSUME NEW a \in Attempt, WorkerStep(a) PROVE Signs'
  <2>1. UNCHANGED <<cancelFile, cancelled, signalling, beatAge, stalled>>
        /\ (spc' \in Looking \cup {"persist"} => spc' = spc)
    BY <1>4, WorkerFrame DEF cancelVars, Loop
  <2>2. "heartbeat" \in files => "heartbeat" \in files'
    BY <1>4 DEF WorkerStep, Scan, Watch, Terminate, Boot, Report, Publish,
       PublishFails, WriteResult, PlaceResult, Finish, WorkerFails, WorkerOnly,
       fileVars
  <2> QED BY <2>1, <2>2 DEF Signs
<1> QED BY <1>1, <1>2, <1>3, <1>4, Steps

LEMMA StopsNext ==
  ASSUME Core, Signs, StopsForCause, [Next]_vars
  PROVE  StopsForCause'
<1> USE DEF Core
<1> DEFINE Cause == cancelled \/ stalled \/ spc \in Ending
<1>1. CASE SuperStep
  <2>1. UNCHANGED <<code, stalled, cancelled>>
    BY <1>1, SuperFrame DEF workerVars
  <2>2. spc \in Ending => spc' \in Ending
    BY <1>1 DEF SuperStep, Begin, Setup, Poll, CheckCancel, LeaseLost, GoRound,
       TimeOut, Conclude, Leave, Persist, Unlink, RemoveDir, Reap, Fault, Crash,
       At, To, Tried, Loop, Ending
  <2> QED BY <2>1, <2>2 DEF StopsForCause
<1>2. CASE StartStep
  <2>1. UNCHANGED <<code, stalled, cancelled>> /\ spc \notin Ending
    BY <1>2, StartFrame DEF StartStep, Ending
  <2> QED BY <2>1 DEF StopsForCause
<1>3. CASE EnvStep
  <2>1. UNCHANGED <<spc, code>>
    BY <1>3, EnvFrame DEF superVars, workerVars
  <2>2. /\ cancelled' = TRUE \/ cancelled' = cancelled
        /\ stalled' = TRUE \/ stalled' = stalled
    BY <1>3 DEF EnvStep, RequestCancel, Signal, Tick, vars, cancelVars
  <2>3. (cancelled => cancelled') /\ (stalled => stalled')
    BY <2>2
  <2> QED BY <2>1, <2>3 DEF StopsForCause
<1>4. ASSUME NEW a \in Attempt, WorkerStep(a) PROVE StopsForCause'
  <2>1. UNCHANGED <<cancelled, stalled>> /\ (spc \in Ending => spc' \in Ending)
    BY <1>4, WorkerFrame DEF cancelVars, Ending
  <2>2. \A b \in Attempt \ {a} : code'[b] = code[b]
    BY <1>4, WorkerFrame
  <2>3. SUFFICES ASSUME code'[a] = "stop" PROVE Cause
    BY <2>1, <2>2 DEF StopsForCause
  <2>4. code[a] = "none" /\ a = launched /\ Alive(a) /\ launched # 0
    BY <1>4, WorkerFrame DEF OnlyCurrent, Alive, Working, TypeOK, TypeWorkers,
       Attempt
  <2>5. StopSign
    <3>1. ASSUME NEW c \in {"ok", "unpublished", "error", "killed"}, Exit(a, c)
          PROVE  FALSE
      BY <2>3, <3>1 DEF Exit, TypeOK, TypeWorkers
    <3>2. code' # code
      BY <2>3, <2>4
    <3>3. CASE Boot(a) \/ Publish(a) \/ WriteResult(a) \/ PlaceResult(a)
      BY <3>2, <3>3 DEF Boot, Publish, WriteResult, PlaceResult, Move
    <3>4. CASE PublishFails(a) \/ WorkerFails(a) \/ Finish(a)
      BY <3>1, <3>4 DEF PublishFails, WorkerFails, Finish
    <3>5. CASE Terminate(a)
      BY <3>1, <3>2, <3>5 DEF Terminate, Terminated, Exit, workerVars
    <3>6. CASE Report(a)
      BY <3>2, <3>6 DEF Report, Move
    <3>7. CASE Watch(a)
      BY <3>7 DEF Watch
    <3> QED BY <1>4, <3>3, <3>4, <3>5, <3>6, <3>7 DEF WorkerStep, Scan
  <2>6. spc \in Loop \cup Ending
    BY <2>4 DEF Fresh, OnlyCurrent, Alive, Working, TypeOK, TypeSuper, TypeWorkers,
       Tried, Loop
  <2>7. CASE spc \in Loop
    <3>1. cancelFile => cancelled
      BY <2>7 DEF Signs
    <3>2. "heartbeat" \in files /\ (beatAge <= Limit \/ stalled)
      BY <2>7 DEF Signs
    <3>3. beatAge \in Nat
      BY LimitAssumption DEF TypeOK, TypeFiles
    <3> QED BY <2>5, <3>1, <3>2, <3>3, LimitAssumption DEF StopSign
  <2> QED BY <2>6, <2>7
<1> QED BY <1>1, <1>2, <1>3, <1>4, Steps

\* A worker exits with the code of a stop only after a cancellation, behind a
\* heartbeat that went stale, or at or after the end of its supervisor.
THEOREM WorkerStopsForCause == Spec => []StopsForCause
<1>1. Init => Signs /\ StopsForCause
  BY DEF Init, Signs, StopsForCause, Loop
<1>2. Core /\ Signs /\ StopsForCause /\ [Next]_vars => Signs' /\ StopsForCause'
  BY SignsNext, StopsNext
<1> QED BY <1>1, <1>2, CoreInvariant, PTL DEF Spec

-----------------------------------------------------------------------------
\* The outline.

LEMMA OutlineInit == Init => Course!Init
BY DEF Init, Course!Init, OutlineStep

\* Steps of others than the supervisor are invisible, but for a termination
\* that fails.
LEMMA OutlineStutters ==
  ASSUME UNCHANGED superVars
  PROVE  UNCHANGED Course!outlineVars
BY DEF superVars, Course!outlineVars, OutlineStep

LEMMA OutlineStart ==
  ASSUME TypeOK, Fresh, StartStep
  PROVE  Course!Next
<1>1. spc' = "poll" /\ launched' = launched + 1 /\ verdict' = verdict
  BY StartFrame
<1>2. CASE spc = "launch"
  BY <1>1, <1>2 DEF Fresh, Course!Next, Course!Launch, Course!Go, OutlineStep
<1>3. CASE spc \in {"exited", "leave"}
  BY <1>1, <1>3 DEF StartStep, Course!Next, Course!Relaunch, Course!Go, OutlineStep
<1> QED BY <1>2, <1>3 DEF StartStep

LEMMA OutlineSuper ==
  ASSUME TypeOK, SuperStep
  PROVE  [Course!Next]_Course!outlineVars
<1> USE DEF At, To, OutlineStep, Course!Go
<1>1. launched' = launched
  BY SuperFrame
<1>2. CASE Setup \/ Unlink \/ Reap
  BY <1>1, <1>2 DEF Setup, Unlink, Reap, Course!outlineVars
<1>3. CASE Begin
  BY <1>1, <1>3 DEF Begin, Course!Next, Course!Decline, Course!outlineVars
<1>4. CASE Poll \/ GoRound
  BY <1>1, <1>4 DEF Poll, GoRound, Course!Next, Course!Round, Course!outlineVars
<1>5. CASE CheckCancel
  BY <1>1, <1>5 DEF CheckCancel, Course!Next, Course!Cut, Course!Round
<1>6. CASE LeaseLost \/ TimeOut
  BY <1>1, <1>6 DEF LeaseLost, TimeOut, Course!Next, Course!Cut
<1>7. CASE Conclude
  BY <1>1, <1>7 DEF Conclude, Course!Next, Course!HandIn, Course!Fail
<1>8. CASE Leave
  BY <1>1, <1>8 DEF Leave, Course!Next, Course!Stop
<1>9. CASE Persist
  BY <1>1, <1>9 DEF Persist, Course!Next, Course!Complete, Course!Fail
<1>10. CASE RemoveDir
  BY <1>1, <1>10 DEF RemoveDir, Course!Next, Course!Fail, Course!outlineVars
<1>11. CASE Fault
  <2>1. verdict' = "failed" /\ spc' \in {"clean", "reap"} /\ OutlineStep # "idle"
    BY <1>11 DEF Fault, Tried, Loop
  <2> QED BY <1>1, <2>1 DEF Course!Next, Course!Fail
<1>12. CASE Crash
  <2>1. spc' = "dead" /\ OutlineStep # "idle"
    BY <1>12 DEF Crash, TypeOK, TypeSuper, Tried, Loop, Ending
  <2> QED BY <2>1 DEF Course!Next, Course!Leave
<1> QED BY <1>2, <1>3, <1>4, <1>5, <1>6, <1>7, <1>8, <1>9, <1>10, <1>11, <1>12
        DEF SuperStep

LEMMA OutlineNext ==
  ASSUME Core, [Next]_vars
  PROVE  [Course!Next]_Course!outlineVars
<1> USE DEF Core
<1>1. CASE EnvStep
  BY <1>1, EnvFrame, OutlineStutters
<1>2. ASSUME NEW a \in Attempt, Scan(a) \/ Watch(a)
      PROVE  UNCHANGED Course!outlineVars
  BY <1>2, ScanType, OutlineStutters
<1>3. ASSUME NEW a \in Attempt, Terminate(a)
      PROVE  [Course!Next]_Course!outlineVars
  <2>1. /\ spc = "reap" /\ spc' = "over" /\ launched' = launched
        /\ verdict' \in {verdict, "failed"}
    BY <1>3 DEF Terminate, At, To
  <2> QED BY <2>1 DEF OutlineStep, Course!Next, Course!Fail, Course!outlineVars
<1> QED BY <1>1, <1>2, <1>3, OutlineStart, OutlineSuper, Steps DEF WorkerStep

\* Processes, files and retries together implement the supervisor that
\* ScanControl runs in its place.
THEOREM WorkersFollowOutline == Spec => Outline
<1>1. Core /\ [Next]_vars => [Course!Next]_Course!outlineVars
  BY OutlineNext
<1> QED BY <1>1, OutlineInit, CoreInvariant, PTL DEF Spec, Outline, Course!Spec
=============================================================================
