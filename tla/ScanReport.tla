----------------------------- MODULE ScanReport -----------------------------
(***************************************************************************)
(* From a finished collection to the rows of the report: the pipeline of   *)
(* backend/services/scanner_runner.py.  Its claims and transactions are    *)
(* those of ScanControl; here is what it computes and stores, and run_scan,*)
(* the entry point without a dispatcher.                                   *)
(***************************************************************************)
EXTENDS ScanPipeline, Correlation, RiskEngine

CONSTANT Correlators    \* values of ECDAT_CORRELATOR_VERSION

\* The files that os.walk may find, and what the records of them may say.
WalkedFiles == UNION {ToSet(t.files) : t \in Trees}
Contents ==
  UNION {UNION {UNION {LET found == Handle(h, f, content).found
                       IN  {Observed(Recorded(found[k], 0)) : k \in 1..Len(found)} :
                         content \in Reads[f.path]} : h \in ToSet(HandlersFor(f))} :
           f \in {g \in WalkedFiles : Supported(g)}}

\* Texts are totally ordered, and records with the same text say the same.
ASSUME TextAssumption ==
  \A a, b \in Contents :
    TextRank[a] \in Int /\ (TextRank[a] = TextRank[b] => a = b)

VARIABLES
  correlator,       \* the value this process sees
  findings,         \* the correlated findings
  rows,             \* crypto_assets of the scan
  failures,         \* scan_failures of the scan
  job               \* its scan_jobs row: [status, found, scanned, failed, average]

reportVars == <<scanVars, correlator, findings, rows, failures, job>>

Queued == [status |-> "queued", found |-> 0, scanned |-> 0, failed |-> 0, average |-> 0]

ReportInit(trees, profiles, correlators) ==
  /\ ScanInit(trees, profiles)
  /\ correlator \in correlators
  /\ findings = {} /\ rows = {} /\ failures = {} /\ job = Queued

\* run_scan takes the job without asking the outbox, and whatever its status is.
Claim ==
  /\ phase = "start"
  /\ job' = [job EXCEPT !.status = "running"]
  /\ UNCHANGED <<scanVars, correlator, findings, rows, failures>>

\* scan_with_metrics
Collect ==
  /\ job.status = "running" /\ CollectNext
  /\ UNCHANGED <<correlator, findings, rows, failures, job>>

\* collect_scan_result, after the collection.
CorrelateEvidence ==
  /\ job.status = "running" /\ phase = "collected"
  /\ findings' = Correlate(correlator, evidence)
  /\ phase' = "correlated"
  /\ UNCHANGED <<tree, profile, inventory, codes, next, elapsed, bloated, evidence,
                 collectorStats, metrics, ran, correlator, rows, failures, job>>

\* score_finding, _apply_risk_defaults, assess_risk and the columns of one finding.
\* No finding carries a risk field, so that all of them are policy defaults; what a
\* version-3 finding says of ambiguous matches and links is stored nowhere.
Row(f) ==
  LET confidence == Confidence({r.kind : r \in ToSet(f.evidence)}, f.conflict)
      risk == Assess([base |-> f.algorithm, suffix |-> "none"], f.usage, f.kind, Defaults)
  IN  [identity |-> f.identity, algorithm |-> f.algorithm, component |-> f.component,
       category |-> f.category, usage |-> f.usage, kind |-> f.kind, path |-> f.path,
       anchor |-> f.anchor, sources |-> f.sources, by_source |-> f.by_source,
       evidence |-> f.evidence, line |-> f.evidence[1].line,
       conflict |-> f.conflict, conflicting |-> f.conflicting,
       context_conflicts |-> f.context_conflicts,
       library |-> f.library, protocol |-> f.protocol, key_size |-> f.key_size,
       confidence |-> confidence, band |-> Band(confidence),
       score |-> risk.score, label |-> risk.label, vulnerable |-> risk.vulnerable,
       candidate |-> risk.candidate, hybrid |-> risk.hybrid,
       confirmed |-> risk.confirmed, capability |-> risk.capability,
       provenance |-> Provenance({})]

Average(assets) ==
  IF assets = {} THEN 0
  ELSE MapThenSumSet(LAMBDA a : a.confidence, assets) \div Cardinality(assets)

\* One transaction: the assets, the failures and the figures of the job.
Persist ==
  /\ job.status = "running" /\ phase = "correlated"
  /\ rows' = {Row(f) : f \in findings}
  /\ failures' = metrics.failures
  /\ job' = [status |-> "completed", found |-> Cardinality(findings),
             scanned |-> metrics.scanned, failed |-> metrics.failed,
             average |-> Average(rows')]
  /\ UNCHANGED <<scanVars, correlator, findings>>

\* Any exception (a rejected scan, or one in the correlation or the transaction)
\* ends the job without rows.
Fail ==
  /\ job.status = "running"
  /\ phase \in {"rejected", "collected", "correlated"}
  /\ job' = [job EXCEPT !.status = "failed"]
  /\ UNCHANGED <<scanVars, correlator, findings, rows, failures>>

ReportNext == Claim \/ Collect \/ CorrelateEvidence \/ Persist \/ Fail
----------------------------------------------------------------------------
Completed == job.status = "completed"

\* What the collectors observed is in the completed report, in exactly one row,
\* which speaks of its algorithm, kind and component; only version 2 leaves anything
\* out, and only a dependency in a component whose code or certificates were seen
\* and never with that algorithm.
EvidenceAccounted ==
  Completed =>
    \A i \in DOMAIN evidence :
      LET r == evidence[i]
          holders == {row \in rows : r \in ToSet(row.evidence)}
          neighbours == {q \in ToSet(evidence) :
                           q.source # "dep" /\ Component(q.path) = Component(r.path)}
      IN  \/ /\ Cardinality(holders) = 1
             /\ \A row \in holders :
                  /\ row.algorithm = r.algorithm /\ row.kind = r.kind
                  /\ row.component = Component(r.path) /\ r.source \in row.sources
          \/ /\ holders = {} /\ correlator # "v3" /\ r.source = "dep"
             /\ neighbours # {}
             /\ \A q \in neighbours : q.algorithm # r.algorithm

\* A finding without the asset_ids of its evidence, which are in evidence_list only.
Anonymous(finding) ==
  [finding EXCEPT !.evidence = [k \in DOMAIN @ |-> Observed(@[k])]]

\* The findings depend on what was observed, not on the order in which the walk and
\* the collectors came across it nor on the asset_ids that the observations drew: the
\* same observations in any order, numbered anew, give the same findings, with the same
\* evidence in the same order, the same preferred place and the same usage.
FindingsStable ==
  phase = "correlated" =>
    \A order \in Bijection(DOMAIN evidence, DOMAIN evidence) :
      LET mixed == [i \in DOMAIN evidence |-> [evidence[order[i]] EXCEPT !.id = i]]
      IN  {Anonymous(f) : f \in Correlate(correlator, mixed)} = {Anonymous(f) : f \in findings}

\* In a version-2 report a disagreement has two sides, both shown: a row names
\* conflicting operations exactly when two rows at its place (the same file and anchor)
\* have different algorithms, on direct observations of one category.  Several
\* algorithms in one file are no conflict, nor are those that only dependencies declare.
ConflictsHaveTwoSides ==
  Completed /\ correlator # "v3" =>
    \A w \in rows :
      w.conflicting # {} <=>
        \E x, y \in rows :
          /\ {<<x.path, x.anchor>>, <<y.path, y.anchor>>} = {<<w.path, w.anchor>>}
          /\ x.algorithm # y.algorithm
          /\ \E a \in ToSet(x.evidence), b \in ToSet(y.evidence) :
               "dep" \notin {a.source, b.source} /\ a.category = b.category
=============================================================================
