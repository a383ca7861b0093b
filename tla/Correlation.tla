---------------------------- MODULE Correlation ----------------------------
(***************************************************************************)
(* From evidence to findings: backend/services/correlator.py (operation-v2)*)
(* and correlator_v3.py (operation-v3).  Evidence is the sequence of       *)
(* records the scanner recorded, in the order the directory walk and the   *)
(* collectors happened to take.  The code sorts the records and goes       *)
(* through them in that order; here they are a set, since only the groups  *)
(* keep the order.                                                         *)
(***************************************************************************)
EXTENDS Configuration, Sequences, SequencesExt

CONSTANT TextRank       \* what a record says |-> the place of its JSON text among all texts

\* _component: the directory below the first marker that has one below it,
\* the parent directory otherwise.
Markers == <<"test-repo", "repositories", "apps", "services">>

Component(path) ==
  LET first(m) == {i \in DOMAIN path : path[i] = m /\ \A j \in 1..(i - 1) : path[j] # m}
      hits == {m \in DOMAIN Markers : \E i \in first(Markers[m]) : i < Len(path)}
  IN  IF hits # {}
      THEN LET m == CHOOSE h \in hits : \A other \in hits : h <= other
           IN  path[1 + CHOOSE i \in first(Markers[m]) : TRUE]
      ELSE IF Len(path) > 1 THEN path[Len(path) - 1] ELSE "repository-root"

\* _usage: aliases, and "unknown" for what is not one of the five usages.
Usage(record) ==
  LET alias == [sign |-> "signature", verify |-> "signature", hash |-> "hashing",
                key_exchange |-> "key_establishment"]
      value == IF record.usage \in DOMAIN alias THEN alias[record.usage] ELSE record.usage
  IN  IF value \in {"signature", "encryption", "hashing", "key_establishment", "tls"}
      THEN value ELSE "unknown"

\* The category a usage implies; an unknown usage leaves the collector's.
FindingCategory(usage, preferred) ==
  CASE usage = "signature"         -> "signature"
    [] usage = "hashing"           -> "hash"
    [] usage = "key_establishment" -> "key_exchange"
    [] usage = "tls"               -> "protocol"
    [] usage = "encryption"        -> "encryption"
    [] OTHER                       -> preferred.category

Direct(record) == record.source # "dep"

\* A record without its asset_id, which json.dumps turns into text.
Observed(r) == [f \in DOMAIN r \ {"id"} |-> r[f]]

\* records is sorted by that text; the asset_id, drawn at random, only decides between
\* records that say the same.
Earlier(q, r) ==
  \/ TextRank[Observed(q)] < TextRank[Observed(r)]
  \/ TextRank[Observed(q)] = TextRank[Observed(r)] /\ q.id < r.id

\* Faulty variant: the records stay in the order of the walk.
SortedAsWalked(group) ==
  [k \in 1..Cardinality(group) |->
     CHOOSE r \in group : 1 + Cardinality({q \in group : q.id < r.id}) = k]

\* A group in the order of the records.
Sorted(group) ==
  [k \in 1..Cardinality(group) |->
     CHOOSE r \in group : 1 + Cardinality({q \in group : Earlier(q, r)}) = k]

\* The first record from a collector that reads the code, else the first.
Preferred(group) ==
  LET list == Sorted(group)
      reads == {i \in DOMAIN list : list[i].source \in {"ast", "cert", "rule"}}
  IN  list[IF reads # {} THEN Min(reads) ELSE 1]

\* confidence_by_source: the highest confidence that each source gave.
BySource(group) ==
  [s \in {r.source : r \in group} |->
     Max({r.confidence : r \in {q \in group : q.source = s}})]

\* single_value and _context_value: the values of a context field in a group.
\* Several values, or a key size that is no positive number, are a conflict; the
\* field is then empty.
Values(group, field) == {r[field] : r \in group} \ {NoValue}

InConflict(group, field) ==
  \/ Cardinality(Values(group, field)) > 1
  \/ field = "key_size" /\ \E v \in Values(group, field) : v <= 0

ContextConflicts(group) ==
  {f \in {"library", "protocol", "key_size"} : InConflict(group, f)}

ContextValue(group, field) ==
  IF Values(group, field) = {} \/ InConflict(group, field) THEN NoValue
  ELSE CHOOSE v \in Values(group, field) : TRUE
----------------------------------------------------------------------------
\* Version 2.

\* _operation: the file and an anchor in it.  Evidence without a place is
\* anchored by its own details.
Operation(r) ==
  << r.path,
     IF r.operation # NoValue THEN <<"id", r.operation>>
     ELSE IF r.line # NoValue THEN <<"line", r.line, r.column>>
     ELSE <<"evidence", r.details>> >>

\* Faulty variant: everything in the file is about the operation.
ContendersInFile(records, operation, category) ==
  {r.algorithm : r \in {q \in records :
     Direct(q) /\ q.path = operation[1] /\ q.category = category}}

\* The algorithms that direct evidence of one category shows at an operation.
Contenders(records, operation, category) ==
  {r.algorithm : r \in {q \in records :
     Direct(q) /\ Operation(q) = operation /\ q.category = category}}

OperationConflict(records, operation) ==
  \E c \in {r.category : r \in records} :
    Cardinality(Contenders(records, operation, c)) > 1

\* The algorithms that a component's code or certificates show.
StrongAlgorithms(records, component) ==
  {r.algorithm : r \in {q \in records : Direct(q) /\ Component(q.path) = component}}

\* Faulty variant: once a component has direct evidence no dependency counts.
SuppressedByAny(records, r) ==
  ~Direct(r) /\ StrongAlgorithms(records, Component(r.path)) # {}

\* What a dependency could do is dropped when the component shows what it does,
\* and that is something else.
Suppressed(records, r) ==
  LET strong == StrongAlgorithms(records, Component(r.path))
  IN  ~Direct(r) /\ strong # {} /\ r.algorithm \notin strong

KeyV2(r) == <<Component(r.path), r.algorithm, Usage(r), r.kind, Operation(r)>>

FindingV2(records, key, group) ==
  LET operation == key[5]
      conflict == OperationConflict(records, operation)
      \* asset_ids are in the fingerprints, so that no two records are the same
  IN  [version |-> "operation-v2", identity |-> key,
       component |-> key[1], algorithm |-> key[2], usage |-> key[3], kind |-> key[4],
       category |-> FindingCategory(key[3], Preferred(group)),
       path |-> Preferred(group).path, anchor |-> operation[2],
       sources |-> {r.source : r \in group}, by_source |-> BySource(group),
       conflicting |-> IF ~conflict THEN {}
                       ELSE LET named == Values(group, "operation")
                            IN  IF named # {} THEN named ELSE {operation[2]},
       context_conflicts |-> ContextConflicts(group),
       conflict |-> conflict \/ ContextConflicts(group) # {},
       library |-> ContextValue(group, "library"),
       protocol |-> ContextValue(group, "protocol"),
       key_size |-> ContextValue(group, "key_size"),
       evidence |-> Sorted(group), links |-> {}, ambiguous |-> 0]

\* _correlate_v2
CorrelateV2(evidence) ==
  LET records == ToSet(evidence)
      kept == {r \in records : ~Suppressed(records, r)}
  IN  {FindingV2(records, key, {r \in kept : KeyV2(r) = key}) : key \in {KeyV2(r) : r \in kept}}
----------------------------------------------------------------------------
\* Version 3.

Spot(r) == <<r.path, r.algorithm, r.line, r.column, r.semantic>>   \* the cross-kind key
KeyV3(r) == <<Spot(r), r.kind>>

\* _v3_spans_nearby: the same file and at most five lines apart.
Nearby(a, b) ==
  /\ a.path = b.path /\ a.line # NoValue /\ b.line # NoValue
  /\ a.line - b.line \in -5..5

\* _v3_find_cross_collector_matches: only a record of another kind that is not
\* nearby is ambiguous (with confidence 0.3); the others are certain either way.
Ambiguous(a, b) == a.kind # b.kind /\ ~Nearby(a, b)

\* _ambiguous_matches of a group: with each other record of the file and algorithm.
AmbiguousMatches(records, key) ==
  {pair \in records \X records :
     LET a == pair[1]
         b == pair[2]
     IN  /\ KeyV3(a) = key /\ a # b
         /\ a.path = b.path /\ a.algorithm = b.algorithm
         /\ Ambiguous(a, b)}

\* _cross_kind_links: the other kinds of evidence at the same spot.
CrossKindLinks(records, key) ==
  {r.kind : r \in {q \in records : Spot(q) = key[1]}} \ {key[2]}

\* _build_finding.  Its confidence (the sources' average less a tenth for each
\* ambiguous match) is replaced when the finding is scored, and an operation on
\* which algorithms disagree is no conflict to it.
FindingV3(records, key, group) ==
  LET first == Sorted(group)[1]
      usage == Usage(first)
  IN  [version |-> "operation-v3", identity |-> key,
       component |-> Component(first.path), algorithm |-> first.algorithm,
       usage |-> usage, kind |-> key[2],
       category |-> FindingCategory(usage, Preferred(group)),
       path |-> Preferred(group).path,
       anchor |-> <<"line", first.line, first.column, first.semantic>>,
       sources |-> {r.source : r \in group}, by_source |-> BySource(group),
       conflicting |-> {},
       context_conflicts |-> ContextConflicts(group),
       conflict |-> ContextConflicts(group) # {},
       library |-> ContextValue(group, "library"),
       protocol |-> ContextValue(group, "protocol"),
       key_size |-> ContextValue(group, "key_size"),
       evidence |-> Sorted(group), links |-> CrossKindLinks(records, key),
       ambiguous |-> Cardinality(AmbiguousMatches(records, key))]

\* correlate_v3
CorrelateV3(evidence) ==
  LET records == ToSet(evidence)
  IN  {FindingV3(records, key, {r \in records : KeyV3(r) = key}) : key \in {KeyV3(r) : r \in records}}

\* The environment variable selects version 3; anything else is version 2.
Correlate(version, evidence) ==
  IF version = "v3" THEN CorrelateV3(evidence) ELSE CorrelateV2(evidence)
=============================================================================
