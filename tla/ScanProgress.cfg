CONSTANTS
  t1 = t1
  t2 = t2
  c1 = c1
  p1 = p1
  p2 = p2
  r1 = r1
  r2 = r2
  j1 = j1
  j2 = j2
  NoThread = NoThread
  NoJob = NoJob
  NoRepo = NoRepo
  Home <- HomeRule
  RepoOf <- RepoRule
  Procs = {p1, p2}
  Threads = {t1}
  Cancellers = {c1}
  Repos = {r1}
  Jobs = {j1}
  Grace = 1
  TTL = 2
  Prompt = {"start", "check", "tend", "stop", "persist", "write", "finish", "finwrite", "finalize"}
  MaxCrashes = 1
  MaxFaults = 0
SPECIFICATION FairSpec
INVARIANT ResultIsShown
PROPERTIES RunningTerminates CancelTakesEffect SlotIsFreed
CHECK_DEADLOCK FALSE
