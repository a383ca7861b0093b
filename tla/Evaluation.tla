----------------------------- MODULE Evaluation -----------------------------
(***************************************************************************)
(* backend/services/evaluation.py: the assets of a scan against the ground *)
(* truth of its repository.  An operation is matched with a finding one to *)
(* one by the Hungarian algorithm, whose iterations are the steps here.    *)
(***************************************************************************)
EXTENDS Configuration, Subsequences, Sequences, SequencesExt

CONSTANTS
  Truths,           \* ground truths: [state, version, assets, aliases, certificates]
  ScanAssets,       \* the sequences of stored assets, [algorithm, component, parent,
                    \* usage, key_size, sources, own_size, not_after]
  MaxAssets,        \* MAX_GROUND_TRUTH_ASSETS
  EvaluationLimit,  \* EVALUATION_ASSET_LIMIT
  Infinity          \* float("inf"), which is no integer

\* Lists are lists, and schema_version is a number.
ASSUME EvaluationAssumption ==
  /\ \A t \in Truths : t.version \in Nat /\ t.assets \in Seq(ToSet(t.assets))
  /\ \A stored \in ScanAssets : stored \in Seq(ToSet(stored))
ASSUME InfinityAssumption == Infinity \notin Int

VARIABLES
  stage,            \* "asked", "rows", "grow", "augment", "matched", "done", "refused"
  truth, assets,    \* the inputs
  expected, actual, \* the operations to be matched
  row,              \* the row being added
  u, v, p, way,     \* potentials, the row matched to each column, the path back
  minimum, used, column_zero,
  report            \* the result

evaluationVars == <<stage, truth, assets, expected, actual, row, u, v, p, way,
                    minimum, used, column_zero, report>>
matchingVars == <<row, u, v, p, way, minimum, used, column_zero>>

NoReport == [available |-> FALSE]

EvaluationInit(truths, scans) ==
  /\ stage = "asked" /\ truth \in truths /\ assets \in scans
  /\ expected = <<>> /\ actual = <<>>
  /\ row = 0 /\ u = <<>> /\ v = <<>> /\ p = <<>> /\ way = <<>>
  /\ minimum = <<>> /\ used = <<>> /\ column_zero = 0
  /\ report = NoReport
----------------------------------------------------------------------------
\* load_ground_truth: a file that is there, readable and valid.  An asset of the
\* truth is [component, algorithm, usage, key_size]; "" is a missing name.
ValidTruth(t) ==
  /\ Len(t.assets) <= MaxAssets
  /\ \A i \in DOMAIN t.assets : t.assets[i].component # "" /\ t.assets[i].algorithm # ""

Loads(t) == t.state = "readable" /\ ValidTruth(t)

\* _build_alias_map: the first of a group of two or more stands for all of them.
Canonical(aliases, algorithm) ==
  LET groups == {i \in DOMAIN aliases : Len(aliases[i]) >= 2 /\ algorithm \in ToSet(aliases[i])}
  IN  IF groups = {} THEN algorithm
      ELSE aliases[CHOOSE i \in groups : \A j \in groups : j <= i][1]

NormalUsage(raw) ==
  CASE raw \in {"sign", "verify"} -> "signature"
    [] raw = "hash"               -> "hashing"
    [] raw = "key_exchange"       -> "key_establishment"
    [] OTHER                      -> raw

\* _build_expected_operations: only here are aliases resolved.
ExpectedOperations(t) ==
  [i \in DOMAIN t.assets |->
     [algorithm |-> Canonical(t.aliases, t.assets[i].algorithm),
      component |-> t.assets[i].component, usage |-> NormalUsage(t.assets[i].usage),
      key_size |-> t.assets[i].key_size]]

\* The component of a stored asset, or the directory its file is in.
AssetComponent(asset) == IF asset.component # "" THEN asset.component ELSE asset.parent

\* _build_actual_operations: an asset without an algorithm is passed over.
ActualOperations(stored) ==
  LET named == Selected(stored, {i \in DOMAIN stored : stored[i].algorithm # ""})
  IN  [k \in DOMAIN named |->
         [algorithm |-> named[k].algorithm, component |-> AssetComponent(named[k]),
          usage |-> NormalUsage(named[k].usage), key_size |-> named[k].key_size]]
----------------------------------------------------------------------------
\* _hungarian_match.  Rows are the shorter side.

Swapped == Len(expected) > Len(actual)
Rows == IF Swapped THEN actual ELSE expected
Columns == IF Swapped THEN expected ELSE actual

\* _operation_match_score: the algorithm plays no part.
MatchScore(e, a) ==
  LET one(condition) == IF condition THEN 1 ELSE 0
      usage == e.usage = a.usage
      size == e.key_size = a.key_size
  IN  IF e.component # a.component THEN -2
      ELSE -1 + one(usage \/ size) + 100 * one(usage) + one(usage /\ size)

Cost(r, c) ==
  IF Swapped THEN -MatchScore(Columns[c], Rows[r]) ELSE -MatchScore(Rows[r], Columns[c])

\* Column 0 is the imaginary one at which each new row starts.
Lines(seq) == 0..Len(seq)

\* The matching is set up for the operations of this evaluation.
StartMatching(ops, found) ==
  LET short == IF Len(ops) > Len(found) THEN found ELSE ops
      long == IF Len(ops) > Len(found) THEN ops ELSE found
  IN  /\ u' = [r \in Lines(short) |-> 0] /\ v' = [c \in Lines(long) |-> 0]
      /\ p' = [c \in Lines(long) |-> 0] /\ way' = [c \in Lines(long) |-> 0]
      /\ row' = 0 /\ column_zero' = 0
      /\ minimum' = [c \in Lines(long) |-> Infinity]
      /\ used' = [c \in Lines(long) |-> FALSE]

\* The next row, or the end.
AddRow ==
  /\ stage = "rows"
  /\ IF row < Len(Rows)
     THEN /\ row' = row + 1
          /\ p' = [p EXCEPT ![0] = row + 1]
          /\ column_zero' = 0
          /\ minimum' = [c \in Lines(Columns) |-> Infinity]
          /\ used' = [c \in Lines(Columns) |-> FALSE]
          /\ stage' = "grow"
     ELSE /\ stage' = "matched"
          /\ UNCHANGED <<row, p, column_zero, minimum, used>>
  /\ UNCHANGED <<truth, assets, expected, actual, u, v, way, report>>

\* Faulty variant: the matched rows keep their potentials.
PotentialsOfColumnsOnly(marked, delta) ==
  /\ u' = u
  /\ v' = [c \in Lines(Columns) |-> IF marked[c] THEN v[c] - delta ELSE v[c]]

\* u of the rows in the tree rises, v of its columns falls.
Potentials(marked, delta) ==
  /\ u' = [r \in Lines(Rows) |->
             IF \E c \in Lines(Columns) : marked[c] /\ p[c] = r THEN u[r] + delta ELSE u[r]]
  /\ v' = [c \in Lines(Columns) |-> IF marked[c] THEN v[c] - delta ELSE v[c]]

\* One turn of the inner loop: the nearest column that is not in the tree.
Grow ==
  /\ stage = "grow"
  /\ LET marked == [used EXCEPT ![column_zero] = TRUE]
         free == {c \in 1..Len(Columns) : ~marked[c]}
         slack(c) == Cost(p[column_zero], c) - u[p[column_zero]] - v[c]
         better(c) == c \in free /\ (minimum[c] = Infinity \/ slack(c) < minimum[c])
         least == [c \in Lines(Columns) |-> IF better(c) THEN slack(c) ELSE minimum[c]]
         nearest == CHOOSE c \in free : \A d \in free : least[c] < least[d]
                                          \/ (least[c] = least[d] /\ c <= d)
     IN  /\ used' = marked
         /\ way' = [c \in Lines(Columns) |-> IF better(c) THEN column_zero ELSE way[c]]
         /\ Potentials(marked, least[nearest])
         /\ minimum' = [c \in Lines(Columns) |->
                          IF marked[c] THEN least[c] ELSE least[c] - least[nearest]]
         /\ column_zero' = nearest
         /\ stage' = IF p[nearest] = 0 THEN "augment" ELSE "grow"
  /\ UNCHANGED <<truth, assets, expected, actual, row, p, report>>

\* The free column takes its predecessor's row, and so on back to column 0.
Augment ==
  /\ stage = "augment"
  /\ p' = [p EXCEPT ![column_zero] = p[way[column_zero]]]
  /\ column_zero' = way[column_zero]
  /\ stage' = IF way[column_zero] = 0 THEN "rows" ELSE "augment"
  /\ UNCHANGED <<truth, assets, expected, actual, row, u, v, way, minimum, used, report>>

\* The pairs <<expected, actual>> of indices.
Pairs ==
  {IF Swapped THEN <<c, p[c]>> ELSE <<p[c], c>> : c \in {d \in 1..Len(Columns) : p[d] # 0}}
----------------------------------------------------------------------------
\* _match_operations: pairs across components are rejected again.
Matched == {pair \in Pairs : expected[pair[1]].component = actual[pair[2]].component}
Missed == DOMAIN expected \ {pair[1] : pair \in Matched}
Unexpected == DOMAIN actual \ {pair[2] : pair \in Matched}

UsageRight(pair) == expected[pair[1]].usage = actual[pair[2]].usage
SizeRight(pair) == expected[pair[1]].key_size = actual[pair[2]].key_size
SizeKnown(i) == expected[i].key_size # NoValue

\* The operations charged to a source: the index runs over the assets, the
\* operations only over those with an algorithm.
SourceOperations(source) ==
  {i \in DOMAIN assets : source \in assets[i].sources /\ i <= Len(actual)}

\* _find_best_cert_match by component (names here are equal or have nothing in
\* common, so its two fallbacks find nothing more), and what _evaluate_certificates
\* compares.
\* own_size is the asset's own evidence, which a stored asset keeps one level down.
CertificateIssues(wanted) ==
  LET certs == SelectSeq(assets, LAMBDA a : "cert" \in a.sources)
      here == SelectSeq(certs, LAMBDA a : a.component = wanted.component)
  IN  IF here = <<>> THEN {"certificate_not_found"}
      ELSE (IF here[1].own_size # wanted.key_size THEN {"key_size"} ELSE {})
             \cup (IF wanted.not_after # NoValue /\ here[1].not_after # wanted.not_after
                   THEN {"not_after"} ELSE {})

\* _evaluate_v2
OperationReport ==
  LET sources == UNION {assets[i].sources : i \in DOMAIN assets}
      hits(S) == Cardinality({i \in S : \E pair \in Matched : pair[2] = i})
  IN  [available |-> TRUE, granularity |-> "operation",
       tp |-> Cardinality(Matched), fp |-> Cardinality(Unexpected), fn |-> Cardinality(Missed),
       usage_correct |-> Cardinality({m \in Matched : UsageRight(m)}),
       size_correct |-> Cardinality({m \in Matched : SizeRight(m) /\ SizeKnown(m[1])}),
       size_known |-> Cardinality({i \in DOMAIN expected : SizeKnown(i)}),
       both_correct |-> Cardinality({m \in Matched : UsageRight(m) /\ SizeRight(m)}),
       per_source |-> [s \in sources |-> [findings |-> Cardinality(SourceOperations(s)),
                                          tp |-> hits(SourceOperations(s))]],
       certificates |-> [i \in DOMAIN truth.certificates |->
                           CertificateIssues(truth.certificates[i])]]

\* _evaluate_v1: sets of components with algorithms.
PairReport(t, stored) ==
  LET wanted == {<<t.assets[i].component, t.assets[i].algorithm>> : i \in DOMAIN t.assets}
      key(i) == <<AssetComponent(stored[i]), stored[i].algorithm>>
      found == {key(i) : i \in DOMAIN stored}
      of(s) == {key(i) : i \in {j \in DOMAIN stored : s \in stored[j].sources}}
      sources == UNION {stored[i].sources : i \in DOMAIN stored}
  IN  [available |-> TRUE, granularity |-> "component_algorithm",
       tp |-> Cardinality(wanted \cap found), fp |-> Cardinality(found \ wanted),
       fn |-> Cardinality(wanted \ found),
       per_source |-> [s \in sources |-> [findings |-> Cardinality(of(s)),
                                          tp |-> Cardinality(of(s) \cap wanted)]]]

\* GET /evaluation: too many assets are refused, a truth that does not load is
\* reported as not available, version 1 is answered at once.
Evaluate ==
  /\ stage = "asked"
  /\ CASE Len(assets) > EvaluationLimit ->
            /\ stage' = "refused"
            /\ UNCHANGED <<expected, actual, report, matchingVars>>
       [] Len(assets) <= EvaluationLimit /\ ~Loads(truth) ->
            /\ stage' = "done"
            /\ UNCHANGED <<expected, actual, report, matchingVars>>
       [] Len(assets) <= EvaluationLimit /\ Loads(truth) /\ truth.version < 2 ->
            /\ stage' = "done" /\ report' = PairReport(truth, assets)
            /\ UNCHANGED <<expected, actual, matchingVars>>
       [] OTHER ->
            /\ expected' = ExpectedOperations(truth)
            /\ actual' = ActualOperations(assets)
            /\ StartMatching(expected', actual')
            /\ stage' = IF expected' = <<>> \/ actual' = <<>> THEN "matched" ELSE "rows"
            /\ UNCHANGED report
  /\ UNCHANGED <<truth, assets>>

Summarise ==
  /\ stage = "matched" /\ stage' = "done"
  /\ report' = OperationReport
  /\ UNCHANGED <<truth, assets, expected, actual, matchingVars>>

EvaluationNext == Evaluate \/ AddRow \/ Grow \/ Augment \/ Summarise
----------------------------------------------------------------------------
\* The ways to pair operations with findings of the same component, one to one, as
\* many as there can be.
Pairings ==
  {m \in SUBSET ((DOMAIN expected) \X (DOMAIN actual)) :
     /\ \A x \in m : expected[x[1]].component = actual[x[2]].component
     /\ \A x, y \in m : x # y => x[1] # y[1] /\ x[2] # y[2]}

\* The report is the best one can say of the scan: no pairing within components has
\* more matches, or as many and more of them with the right usage.  Every
\* expected operation is a match or missed, every finding a match or unexpected.
MatchingIsBest ==
  stage = "done" /\ report.available /\ truth.version >= 2 =>
    LET usages(m) == Cardinality({x \in m : UsageRight(x)})
    IN  /\ \A m \in Pairings : /\ Cardinality(m) <= report.tp
                               /\ usages(m) <= report.usage_correct
        /\ report.tp + report.fn = Len(expected)
        /\ report.tp + report.fp = Len(actual)
=============================================================================
