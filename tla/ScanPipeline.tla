---------------------------- MODULE ScanPipeline ----------------------------
(***************************************************************************)
(* scanner/main.py: one scan of a repository, from the inventory to the    *)
(* evidence and the coverage metrics.  Files change, memory grows and time *)
(* passes while the scan is under way: what a handler reads is chosen when *)
(* it reads.                                                               *)
(***************************************************************************)
EXTENDS Collectors

CONSTANTS
  Trees,            \* [walks, files]: does os.walk get through, and the files found,
                    \* [path, ext, link, size, opens], in the order of their paths
  Profiles,         \* values of ECDAT_SCAN_PROFILE
  Reads,            \* path |-> the contents that a read of the file may return
  FileLimit,        \* ECDAT_MAX_SCAN_FILES
  ByteLimit,        \* ECDAT_MAX_FILE_BYTES
  EvidenceLimit,    \* ECDAT_MAX_EVIDENCE
  DurationBudget,   \* ECDAT_SCAN_DURATION_BUDGET_MS, 0 for none
  MemoryBudget,     \* ECDAT_SCAN_MEMORY_BUDGET_MB > 0
  MaxElapsed        \* bound on the clock, for TLC

\* os.walk comes to a file once, and a file is not the repository itself.
ASSUME TreesAssumption ==
  \A t \in Trees :
    /\ t.files \in Seq(ToSet(t.files))
    /\ \A i, j \in DOMAIN t.files : t.files[i].path = t.files[j].path => i = j
    /\ \A i \in DOMAIN t.files : t.files[i].path # <<>>
ASSUME EvidenceLimitAssumption == EvidenceLimit \in Nat

VARIABLES
  phase,            \* "start", "collecting", "reading", "collected", then those of ScanReport
  tree, profile,    \* what is scanned and how
  inventory,        \* [all, supported]: the number of files and the supported ones
  codes,            \* failure_codes, whose domain is failed_paths
  next,             \* index in the supported files
  elapsed, bloated, \* the time since the start; peak memory is over the budget
  evidence,         \* the observations, each with its asset_id, as they came in
  collectorStats,
  metrics,          \* what scan_with_metrics returns beside the evidence
  ran               \* path |-> statuses of the handlers that have read the file

scanVars == <<phase, tree, profile, inventory, codes, next, elapsed, bloated, evidence,
              collectorStats, metrics, ran>>

Collector == {"ast", "rule", "dep", "cert"}
Root == <<>>        \* the repository itself, as a path
NoMetrics == [total |-> 0, in_scope |-> 0, scanned |-> 0, failed |-> 0,
              failures |-> {}, blind_spots |-> {}]

ScanInit(trees, profiles) ==
  /\ phase = "start" /\ tree \in trees /\ profile \in profiles
  /\ inventory = [all |-> 0, supported |-> <<>>]
  /\ codes = <<>> /\ next = 1 /\ elapsed = 0 /\ bloated = FALSE
  /\ evidence = <<>> /\ collectorStats = [c \in Collector |-> 0]
  /\ metrics = NoMetrics /\ ran = <<>>
----------------------------------------------------------------------------
Excluded ==
  {".git", "node_modules", "dist", "build", "__pycache__", ".pytest_cache",
   ".mypy_cache", ".ruff_cache", ".tox", ".nox", ".runtime"}
    \cup (IF profile = "source" THEN {".venv", "venv", "env"} ELSE {})

\* The files os.walk reaches: excluded directories are not entered.
Walked ==
  Selected(tree.files,
           {i \in DOMAIN tree.files : ToSet(Front(tree.files[i].path)) \cap Excluded = {}})

\* Why a supported file is not read at all.
Unfit(file) ==
  CASE file.link -> "linked_file"
    [] ~file.link /\ file.size > ByteLimit -> "oversized"
    [] ~file.link /\ file.size <= ByteLimit /\ ~file.opens -> "unreadable"
    [] OTHER -> "fit"

\* A ValueError or OSError leaves scan_with_metrics; nothing is returned.
Reject ==
  /\ phase' = "rejected"
  /\ UNCHANGED <<tree, profile, inventory, codes, next, elapsed, bloated, evidence,
                 collectorStats, metrics, ran>>

RejectScan ==
  /\ phase = "start"
  /\ profile \notin {"source", "environment"} \/ ~tree.walks \/ Len(Walked) > FileLimit
  /\ Reject

\* _scan_profile, _inventory and the first look at the memory, whose code goes
\* to the repository's own path.
Inventory ==
  /\ phase = "start" /\ profile \in {"source", "environment"}
  /\ tree.walks /\ Len(Walked) <= FileLimit
  /\ LET supported == Selected(Walked, {i \in DOMAIN Walked : Supported(Walked[i])})
         unfit == {f \in ToSet(supported) : Unfit(f) # "fit"}
     IN  /\ inventory' = [all |-> Len(Walked), supported |-> supported]
         /\ \E over \in {FALSE, MemoryBudget} :
              /\ bloated' = over
              /\ codes' = [p \in {f.path : f \in unfit} \cup (IF over THEN {Root} ELSE {}) |->
                             IF p = Root THEN "memory_budget_exceeded"
                             ELSE Unfit(CHOOSE f \in unfit : f.path = p)]
  /\ phase' = "collecting"
  /\ UNCHANGED <<tree, profile, next, elapsed, evidence, collectorStats, metrics, ran>>
----------------------------------------------------------------------------
\* _budget_failure: the clock before the memory; peak memory never falls.
OverBudget(now, over) ==
  CASE DurationBudget > 0 /\ now >= DurationBudget -> "duration_budget_exceeded"
    [] ~(DurationBudget > 0 /\ now >= DurationBudget) /\ over -> "memory_budget_exceeded"
    [] OTHER -> "within"

\* A dictionary with one more entry, or another one.
Put(map, key, value) ==
  [k \in DOMAIN map \cup {key} |-> IF k = key THEN value ELSE map[k]]

\* setdefault
Default(map, key, value) == IF key \in DOMAIN map THEN map ELSE Put(map, key, value)

\* An observation with the asset_id it is recorded under.
Recorded(found, id) == [f \in DOMAIN Observation |-> IF f = "id" THEN id ELSE found[f]]

\* One iteration of _collect_supported_evidence.
SkipPath ==
  /\ phase = "collecting" /\ next <= Len(inventory.supported)
  /\ inventory.supported[next].path \in DOMAIN codes
  /\ next' = next + 1
  /\ UNCHANGED <<phase, tree, profile, inventory, codes, elapsed, bloated, evidence,
                 collectorStats, metrics, ran>>

\* Faulty variant: the file at which the budget ran out is only skipped.
BudgetStopQuietly(file, reason) == codes' = codes

\* A file the budget no longer allows is recorded as a failure.
BudgetStop(file, reason) == codes' = Put(codes, file.path, reason)

OpenPath ==
  /\ phase = "collecting" /\ next <= Len(inventory.supported)
  /\ LET file == inventory.supported[next]
     IN  /\ file.path \notin DOMAIN codes
         /\ elapsed' \in elapsed..MaxElapsed
         /\ bloated' \in {bloated, MemoryBudget}
         /\ LET reason == OverBudget(elapsed', bloated')
            IN  IF reason # "within"
                THEN /\ BudgetStop(file, reason)
                     /\ next' = next + 1
                     /\ UNCHANGED <<phase, ran>>
                ELSE /\ ran' = Put(ran, file.path, <<>>)
                     /\ phase' = "reading"
                     /\ UNCHANGED <<next, codes>>
  /\ UNCHANGED <<tree, profile, inventory, evidence, collectorStats, metrics>>

\* _collect_path: each handler in turn, with what it reads.  A failure is noted
\* and the next handler goes on; too much evidence ends the scan.
ReadPath ==
  /\ phase = "reading"
  /\ LET file == inventory.supported[next]
         handlers == HandlersFor(file)
         turn == Len(ran[file.path]) + 1
         room == EvidenceLimit - Len(evidence)
     IN  \E content \in Reads[file.path] :
           LET result == Handle(handlers[turn], file, content)
               reason == IF handlers[turn] = "cert" /\ result.status = "reports"
                         THEN "certificate_error" ELSE "parse_error"
           IN  /\ codes' = IF result.status = "ok" THEN codes
                           ELSE Default(codes, file.path, reason)
               /\ IF Len(result.found) \notin 0..room
                  THEN phase' = "rejected" /\ UNCHANGED <<next, evidence, collectorStats, ran>>
                  ELSE /\ evidence' = evidence \o [k \in 1..Len(result.found) |->
                                         Recorded(result.found[k], Len(evidence) + k)]
                       /\ collectorStats' = [collectorStats EXCEPT
                                               ![handlers[turn]] = @ + Len(result.found)]
                       /\ ran' = [ran EXCEPT ![file.path] = Append(@, result.status)]
                       /\ IF turn < Len(handlers) THEN UNCHANGED <<phase, next>>
                          ELSE phase' = "collecting" /\ next' = next + 1
  /\ UNCHANGED <<tree, profile, inventory, elapsed, bloated, metrics>>
----------------------------------------------------------------------------
\* _relative_failure_path: the repository's own path has no relative form.
Listed(path) == path # Root

\* _blind_spots, the statements that depend on the scan.
BlindSpots(failed) ==
  (IF inventory.supported = <<>> THEN {"coverage is not established"} ELSE {})
    \cup (IF failed > 0 THEN {"evidence may be partial"} ELSE {})
    \cup (IF DurationBudget > 0 THEN {"duration capped"} ELSE {})
    \cup (IF MemoryBudget THEN {"memory enforced"} ELSE {})

\* The end of scan_with_metrics, with _failure_payload.  The repository's own
\* path counts as a failed file and as one not scanned.
Measure ==
  /\ phase = "collecting" /\ next > Len(inventory.supported)
  /\ LET failed == Cardinality(DOMAIN codes)
         left == Len(inventory.supported) - failed
     IN  metrics' = [total |-> inventory.all,
                     in_scope |-> Len(inventory.supported),
                     scanned |-> IF left < 0 THEN 0 ELSE left,
                     failed |-> failed,
                     failures |-> {<<p, codes[p]>> : p \in {q \in DOMAIN codes : Listed(q)}},
                     blind_spots |-> BlindSpots(failed)]
  /\ phase' = "collected"
  /\ UNCHANGED <<tree, profile, inventory, codes, next, elapsed, bloated, evidence,
                 collectorStats, ran>>

CollectNext == RejectScan \/ Inventory \/ SkipPath \/ OpenPath \/ ReadPath \/ Measure
----------------------------------------------------------------------------
\* Every supported file is accounted for: it was read by all of its handlers and
\* none of them reported or raised, or the list of failures names it, never both;
\* nothing else is in the list, a scan with a listed failure says that evidence
\* may be partial, and the number of scanned files is never more than the files
\* that were read without a failure (the coverage the report shows is not
\* overstated, whatever the budgets and the handlers did).
EveryFileAccounted ==
  metrics # NoMetrics =>
    LET supported == {f.path : f \in ToSet(inventory.supported)}
        clean == {f.path : f \in {g \in ToSet(inventory.supported) :
                    /\ g.path \in DOMAIN ran /\ Len(ran[g.path]) = Len(HandlersFor(g))
                    /\ \A i \in DOMAIN ran[g.path] : ran[g.path][i] = "ok"}}
        listed == {f[1] : f \in metrics.failures}
    IN  /\ supported \ clean = listed
        /\ listed # {} => "evidence may be partial" \in metrics.blind_spots
        /\ metrics.scanned <= Cardinality(clean)
        /\ metrics.scanned < Cardinality(clean) => Root \in DOMAIN codes
=============================================================================
