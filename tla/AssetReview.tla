---------------------------- MODULE AssetReview ----------------------------
(***************************************************************************)
(* The crypto_assets table while analysts review it and readers page       *)
(* through it: routers/assets.py, outputs.py and dashboard.py.             *)
(*                                                                         *)
(* A review reads the row in one statement and commits in a later          *)
(* transaction; no lock is held in between, and SQLAlchemy writes only the *)
(* columns whose value differs from the one it loaded.  A report is        *)
(* several statements, each of which sees what is committed when it runs.  *)
(* The assets of a scan appear with its completion and are never deleted.  *)
(***************************************************************************)
EXTENDS RiskEngine, SequencesExt, TLC

CONSTANTS
  Scans,        \* scan ids, ordered
  Assets,       \* asset ids, ordered
  Catalog,      \* asset -> [scan, algorithm, usage, location, confidence,
                \*           conflict, kind, sources] and the rank of the algorithm's
                \*           name: the columns no review writes
  Initial,      \* the review fields a scan stores
  Reviewers,
  Payloads,     \* what an analyst may send: functions from some RiskFields
  Readers,
  Queries,      \* what a reader may ask: [kind, scan, sort, label, asset]
  PageSize,
  GraphAssets, GraphNodes, GraphEdges,    \* GRAPH_*_LIMIT
  MaxReviews    \* bound on the reviews of a behaviour, for TLC

\* The request's schema names the risk fields and no other; a scan stores them all.
ASSUME FieldsAssumption ==
  /\ DOMAIN Initial = RiskFields
  /\ \A p \in Payloads : DOMAIN p \subseteq RiskFields

\* Ids and the columns that assets are sorted by are numbers (or ordered like
\* them), and a page has room for an asset.
Sorts == {"name", "score", "priority", "confidence", "algorithm"}
ASSUME OrderAssumption ==
  /\ Assets \subseteq Int /\ IsFiniteSet(Assets)
  /\ \A a \in Assets : /\ Catalog[a].rank \in Int /\ Catalog[a].location \in Int
                        /\ Catalog[a].confidence \in Int
  /\ \A q \in Queries : q.sort \in Sorts
  /\ PageSize \in Nat \ {0}
ASSUME GraphAssumption ==
  /\ {GraphAssets, GraphNodes, GraphEdges} \subseteq Nat \ {0}
  /\ \A a \in Assets : IsFiniteSet(Catalog[a].sources)

VARIABLES
  completed,    \* scans whose status is "completed"
  row,          \* asset -> [fields, risk]
  audit,        \* the committed asset.risk_context_updated entries
  review,       \* reviewer -> [pc, asset, seen, payload, answer]
  read,         \* reader -> [pc, query, scan, offset, total, items, counts]
  stale,        \* ghost: assets a review committed over an unseen change
  crossed       \* ghost: <<asset, field>> a review set over an unseen change

reviewVars == <<completed, row, audit, review, read, stale, crossed>>

Risk(a, kind, fields) == Assess(Catalog[a].algorithm, Catalog[a].usage, kind, fields)

Visible == {a \in Assets : Catalog[a].scan \in completed}
AssetsOf(s) == {a \in Visible : Catalog[a].scan = s}

IdleReview == [pc |-> "idle", asset |-> NoValue, seen |-> NoValue,
               payload |-> NoValue, answer |-> "none"]
IdleRead == [pc |-> "idle", query |-> NoValue, scan |-> NoValue, offset |-> 0,
             total |-> 0, items |-> <<>>, counts |-> NoValue]

ReviewInit ==
  /\ completed = {Min(Scans)}
  /\ row = [a \in Assets |->
              [fields |-> Initial, risk |-> Risk(a, Catalog[a].kind, Initial)]]
  /\ audit = <<>>
  /\ review = [r \in Reviewers |-> IdleReview]
  /\ read = [r \in Readers |-> IdleRead]
  /\ stale = {}
  /\ crossed = {}

\* Another scan completes: its assets appear in the same transaction.
CompleteScan(s) ==
  /\ s \in Scans \ completed
  /\ completed' = completed \cup {s}
  /\ UNCHANGED <<row, audit, review, read, stale, crossed>>
----------------------------------------------------------------------------
\* PATCH /assets/{asset_id}

\* The row is read; a role that may not write is refused before that (403), and
\* an asset that is not in the table is a 404.
LoadForReview(r, a, payload, mayWrite) ==
  /\ review[r].pc = "idle"
  /\ Len(audit) < MaxReviews
  /\ review' = [review EXCEPT ![r] =
       IF mayWrite /\ a \in Visible
       THEN [pc |-> "loaded", asset |-> a, seen |-> row[a], payload |-> payload,
             answer |-> "none"]
       ELSE [IdleReview EXCEPT !.pc = "done", !.answer = "refused"]]
  /\ UNCHANGED <<completed, row, audit, read, stale, crossed>>

Changed(seen, payload) ==
  [f \in RiskFields |-> IF f \in DOMAIN payload THEN payload[f] ELSE seen.fields[f]]

\* Faulty variant: the risk is assessed before the changes are applied.
ReviewedTooEarly(a, seen, payload) ==
  [fields |-> Changed(seen, payload), risk |-> Risk(a, "unknown", seen.fields)]

\* The evidence kind is not among the values the review hands to assess_risk.
Reviewed(a, seen, payload) ==
  LET fields == Changed(seen, payload)
  IN  [fields |-> fields, risk |-> Risk(a, "unknown", fields)]

\* Faulty variant: every column of the loaded row is written back.
WriteColumnsAll(stored, seen, new) == new

\* The UPDATE of the flush: the columns that differ from what was loaded.  The
\* confirmed_use and capability_only columns are not among the assignments.
WriteColumns(stored, seen, new) ==
  [fields |-> [f \in RiskFields |->
                 IF new.fields[f] # seen.fields[f] THEN new.fields[f] ELSE stored.fields[f]],
   risk |-> [c \in DOMAIN stored.risk |->
               IF c \notin {"confirmed", "capability"} /\ new.risk[c] # seen.risk[c]
               THEN new.risk[c] ELSE stored.risk[c]]]

\* The handler ends; its answer comes too late for a request that timed out.
EndReview(r, answer) ==
  review' = [review EXCEPT ![r] = [IdleReview EXCEPT !.pc = "done",
               !.answer = IF review[r].answer = "none" THEN answer ELSE review[r].answer]]

\* The row and its audit entry are committed together.
CommitReview(r) ==
  LET a == review[r].asset
      seen == review[r].seen
      new == Reviewed(a, seen, review[r].payload)
  IN /\ review[r].pc = "loaded"
     /\ row' = [row EXCEPT ![a] = WriteColumns(row[a], seen, new)]
     /\ audit' = Append(audit, [asset |-> a, changes |-> review[r].payload])
     /\ stale' = IF row[a] # seen THEN stale \cup {a} ELSE stale
     /\ crossed' = crossed \cup {<<a, f>> : f \in {g \in DOMAIN review[r].payload :
                                              row[a].fields[g] # seen.fields[g]}}
     /\ EndReview(r, "200")
     /\ UNCHANGED <<completed, read>>

\* The commit fails: rolled back, entry and row alike.
FailReview(r) ==
  /\ review[r].pc = "loaded"
  /\ EndReview(r, "500")
  /\ UNCHANGED <<completed, row, audit, read, stale, crossed>>

\* TimeoutMiddleware answers; the handler's thread is not interrupted and may
\* still commit.
TimeOut(r) ==
  /\ review[r].pc = "loaded" /\ review[r].answer = "none"
  /\ review' = [review EXCEPT ![r].answer = "timeout"]
  /\ UNCHANGED <<completed, row, audit, read, stale, crossed>>
----------------------------------------------------------------------------
\* Readers.

\* _resolve_scan, and the same choice of the dashboard and of _asset_query:
\* the newest completed scan when the query names none.
Resolve(query) ==
  IF query.scan # NoValue THEN query.scan
  ELSE IF completed = {} THEN NoValue ELSE Max(completed)

\* ORDER BY: (algorithm, location, id) of a CBOM, preceded by the score in a
\* risk report; _sort_assets breaks ties by the newest id.
Before(query, x, y) ==
  LET algorithm(a) == Catalog[a].rank
      location(a) == Catalog[a].location
      byName == \/ algorithm(x) < algorithm(y)
                \/ algorithm(x) = algorithm(y) /\ location(x) < location(y)
                \/ algorithm(x) = algorithm(y) /\ location(x) = location(y) /\ x < y
      score(a) == row[a].risk.score
  IN CASE query.sort = "name" -> byName
       [] query.sort = "score" -> score(x) > score(y) \/ (score(x) = score(y) /\ byName)
       [] query.sort = "priority" -> score(x) > score(y) \/ (score(x) = score(y) /\ x > y)
       [] query.sort = "confidence" ->
            \/ Catalog[x].confidence > Catalog[y].confidence
            \/ Catalog[x].confidence = Catalog[y].confidence /\ x > y
       [] query.sort = "algorithm" ->
            algorithm(x) < algorithm(y) \/ (algorithm(x) = algorithm(y) /\ x > y)

\* The filter on the risk label; the other filters select on fixed columns.
Selected(query, s) ==
  {a \in AssetsOf(s) : query.label = NoValue \/ row[a].risk.label = query.label}

\* The selected assets in order: the i-th is the one that i-1 others precede.
Ranked(query, s) ==
  LET here == Selected(query, s)
      place(a) == 1 + Cardinality({b \in here : Before(query, b, a)})
  IN  [i \in 1..Cardinality(here) |-> CHOOSE a \in here : place(a) = i]

\* The first statements: the scan is resolved and its assets are counted.  An
\* unknown scan is a 404, an unfinished one a 409 (outputs.py), a listing of
\* either is empty (assets.py): the reader goes away with nothing.
StartRead(r, query) ==
  LET s == Resolve(query)
  IN /\ read[r].pc = "idle"
     /\ read' = [read EXCEPT ![r] =
          [IdleRead EXCEPT !.query = query,
                           !.scan = s,
                           !.pc = IF s \in completed THEN "counted" ELSE "refused",
                           !.total = Cardinality(Selected(query, s))]]
     /\ UNCHANGED <<completed, row, audit, review, stale, crossed>>

\* Faulty variant: whatever the reader asked for, pages are cut from the order by score.
FetchPageByScore(r) ==
  LET q == read[r].query
      ranked == Ranked([q EXCEPT !.sort = "priority"], read[r].scan)
      last == Min({read[r].offset + PageSize, Len(ranked)})
  IN /\ read[r].pc = "counted" /\ q.kind = "pages"
     /\ read' = [read EXCEPT
          ![r].items = @ \o SubSeq(ranked, read[r].offset + 1, last),
          ![r].offset = @ + PageSize,
          ![r].pc = IF read[r].offset + PageSize >= read[r].total THEN "done" ELSE "next"]
     /\ UNCHANGED <<completed, row, audit, review, stale, crossed>>

\* list_assets, cbom and risk_report: one page, then the client asks for the
\* next one until the total is reached.  Every request resolves the scan anew.
FetchPage(r) ==
  LET q == read[r].query
      ranked == Ranked(q, read[r].scan)
      last == Min({read[r].offset + PageSize, Len(ranked)})
  IN /\ read[r].pc = "counted" /\ q.kind = "pages"
     /\ read' = [read EXCEPT
          ![r].items = @ \o SubSeq(ranked, read[r].offset + 1, last),
          ![r].offset = @ + PageSize,
          ![r].pc = IF read[r].offset + PageSize >= read[r].total THEN "done" ELSE "next"]
     /\ UNCHANGED <<completed, row, audit, review, stale, crossed>>

\* The next page's first statements.
NextPage(r) ==
  LET s == Resolve(read[r].query)
  IN /\ read[r].pc = "next"
     /\ read' = [read EXCEPT ![r].scan = s,
                             ![r].total = Cardinality(Selected(read[r].query, s)),
                             ![r].pc = "counted"]
     /\ UNCHANGED <<completed, row, audit, review, stale, crossed>>

\* cbom_csv and risk_report_csv: X-Exported-Count was counted in a session of
\* its own; the rows come from another one.
StreamRows(r) ==
  /\ read[r].pc = "counted" /\ read[r].query.kind = "csv"
  /\ read' = [read EXCEPT ![r].items = Ranked(read[r].query, read[r].scan),
                          ![r].pc = "done"]
  /\ UNCHANGED <<completed, row, audit, review, stale, crossed>>

\* The five slots of the dashboard's confidence_distribution.
ConfidenceSlot(c) ==
  CASE c <= 20 -> 0 [] c <= 40 -> 1 [] c <= 60 -> 2 [] c <= 80 -> 3 [] OTHER -> 4

\* risk_report's GROUP BY and dashboard_summary's loop: assets per label, and
\* the number of those that are CRITICAL or HIGH, vulnerable or in conflict.
Distribution(r) ==
  LET here == AssetsOf(read[r].scan)
      count(P(_)) == Cardinality({a \in here : P(a)})
  IN /\ read[r].pc = "counted" /\ read[r].query.kind = "summary"
     /\ read' = [read EXCEPT
          ![r].counts =
            [labels |-> [l \in {"CRITICAL", "HIGH", "MEDIUM", "LOW"} |->
                           count(LAMBDA a : row[a].risk.label = l)],
             bands |-> [i \in 0..4 |->
                          count(LAMBDA a : ConfidenceSlot(Catalog[a].confidence) = i)],
             vulnerable |-> count(LAMBDA a : row[a].risk.vulnerable),
             conflicts |-> count(LAMBDA a : Catalog[a].conflict)],
          ![r].pc = "done"]
     /\ UNCHANGED <<completed, row, audit, review, stale, crossed>>

\* Faulty variant: only the node limit is noticed.
GraphStepNodesOnly(graph, a) ==
  LET wanted == Cardinality(Catalog[a].sources)
      added == Min({wanted, GraphNodes - graph.nodes - 1, GraphEdges - graph.edges})
  IN  IF graph.nodes >= GraphNodes
      THEN [graph EXCEPT !.reasons = @ \cup {"node_limit"}]
      ELSE [graph EXCEPT !.nodes = @ + 1 + added, !.edges = @ + added, !.assets = @ + 1]

\* evidence_graph, one asset at a time: a node for the asset and, while there
\* is room for it, a node and an edge for each of its sources.  A source that
\* has no room is skipped; an asset that has none ends the graph.
GraphStep(graph, a) ==
  LET wanted == Cardinality(Catalog[a].sources)
      room == Min({GraphNodes - graph.nodes - 1, GraphEdges - graph.edges})
      added == Min({wanted, room})
      nodes == graph.nodes + 1 + added
      edges == graph.edges + added
      skipped == IF added = wanted THEN {}
                 ELSE (IF nodes >= GraphNodes THEN {"node_limit"} ELSE {})
                        \cup (IF edges >= GraphEdges THEN {"edge_limit"} ELSE {})
  IN  IF graph.nodes >= GraphNodes
      THEN [graph EXCEPT !.reasons = @ \cup {"node_limit"}]
      ELSE [nodes |-> nodes, edges |-> edges, assets |-> graph.assets + 1,
            reasons |-> graph.reasons \cup skipped]

IdAt(here, i) == CHOOSE a \in here : Cardinality({b \in here : b <= a}) = i
EvidenceGraph(here) ==
  LET limited == Cardinality(here) > GraphAssets
      taken == IF limited THEN GraphAssets ELSE Cardinality(here)
      graph[i \in 0..taken] ==
        IF i = 0 THEN [nodes |-> 0, edges |-> 0, assets |-> 0,
                       reasons |-> IF limited THEN {"asset_limit"} ELSE {}]
                 ELSE GraphStep(graph[i - 1], IdAt(here, i))
  IN  graph[taken]

\* The assets of the scan, or the one that was named.
Asked(query, s) == IF query.asset = NoValue THEN AssetsOf(s) ELSE AssetsOf(s) \cap {query.asset}

\* An asset that is not in the scan is a 404.
ReadGraph(r) ==
  LET q == read[r].query
      here == Asked(q, read[r].scan)
  IN /\ read[r].pc = "counted" /\ q.kind = "graph"
     /\ read' = [read EXCEPT ![r].counts = IF here = {} /\ q.asset # NoValue THEN NoValue
                                           ELSE EvidenceGraph(here),
                             ![r].pc = "done"]
     /\ UNCHANGED <<completed, row, audit, review, stale, crossed>>

ReviewNext ==
  \/ \E s \in Scans : CompleteScan(s)
  \/ \E r \in Reviewers :
       \/ \E a \in Assets, p \in Payloads, w \in BOOLEAN : LoadForReview(r, a, p, w)
       \/ CommitReview(r) \/ FailReview(r) \/ TimeOut(r)
  \/ \E r \in Readers :
       \/ \E q \in Queries : StartRead(r, q)
       \/ FetchPage(r) \/ NextPage(r) \/ StreamRows(r) \/ Distribution(r) \/ ReadGraph(r)

ReviewSpec == ReviewInit /\ [][ReviewNext]_reviewVars
----------------------------------------------------------------------------
\* The i-th review set field f of asset a.
Sets(i, a, f) == audit[i].asset = a /\ f \in DOMAIN audit[i].changes

\* Reviews of different fields do not undo each other: every field of every
\* asset has the value the last review that named it gave it, or the one the
\* scan stored, except a field one of whose reviews was committed over a change
\* of that same field it had not seen.  Requests that timed out count: their
\* entry is there exactly if their change is.
FieldsFollowAudit ==
  \A a \in Assets, f \in RiskFields :
     <<a, f>> \notin crossed =>
       \/ /\ \A i \in DOMAIN audit : ~Sets(i, a, f)
          /\ row[a].fields[f] = Initial[f]
       \/ \E i \in DOMAIN audit :
            /\ Sets(i, a, f)
            /\ \A j \in DOMAIN audit : j > i => ~Sets(j, a, f)
            /\ row[a].fields[f] = audit[i].changes[f]

\* The stored risk explains the stored fields: an asset that was reviewed, and
\* never over an unseen change, carries the assessment of exactly the fields
\* it has, although a review writes single columns.
RiskFollowsFields ==
  \A a \in Assets \ stale :
     \A e \in ToSet(audit) : e.asset = a =>
       \A c \in {"score", "label", "candidate", "vulnerable", "hybrid"} :
          row[a].risk[c] = Risk(a, "unknown", row[a].fields)[c]

\* A reader that named its scan and an order no review can change gets every
\* asset of the scan exactly once, however many reviews and scans complete
\* between its pages; a download has as many rows as its header announced.
ReadersSeeAScan ==
  \A r \in Readers :
     LET x == read[r]
     IN  x.pc = "done" =>
           /\ x.query.kind = "csv" /\ x.query.label = NoValue =>
                Len(x.items) = x.total /\ ToSet(x.items) = AssetsOf(x.scan)
           /\ /\ x.query.kind = "pages" /\ x.query.scan # NoValue
              /\ x.query.label = NoValue /\ x.query.sort \in {"name", "confidence", "algorithm"}
              => ToSet(x.items) = AssetsOf(x.scan) /\ IsInjective(x.items)

\* The assets with each of their sources: an edge of the graph is one of them.
SourcesOf(here) ==
  UNION {{<<a, source>> : source \in Catalog[a].sources} : a \in here}

\* The graph says what it leaves out, of a scan or of one asset: it names a reason
\* exactly if an asset or a source that was asked for is missing from it, and it
\* keeps its limits, which skip sources, end the graph or cut off assets.
GraphIsHonest ==
  \A r \in Readers :
     LET x == read[r]
         here == Asked(x.query, x.scan)
     IN  x.pc = "done" /\ x.query.kind = "graph" /\ x.counts # NoValue =>
           /\ x.counts.nodes <= GraphNodes /\ x.counts.edges <= GraphEdges
           /\ x.counts.reasons = {} <=>
                /\ x.counts.assets = Cardinality(here)
                /\ x.counts.edges = Cardinality(SourcesOf(here))
=============================================================================
