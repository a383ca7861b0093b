---------------------------- MODULE ReviewProofs ----------------------------
(***************************************************************************)
(* Safety of the review of assets and of the reports on them, for every    *)
(* set of reviewers, readers, assets and payloads.                         *)
(***************************************************************************)
EXTENDS AssetReview, DataLemmas, SequenceTheorems

-----------------------------------------------------------------------------
\* Reviews.  The two properties are inductive once rows and loaded rows have the
\* columns they should have, so that a write of some columns leaves a whole row.
RiskColumns == {"score", "label", "vulnerable", "candidate", "hybrid", "confirmed", "capability"}
Whole(stored) ==
  /\ DOMAIN stored.fields = RiskFields
  /\ DOMAIN stored.risk = RiskColumns /\ stored.risk.score \in Int

ReviewShape ==
  /\ row = [a \in Assets |-> row[a]]
  /\ \A a \in Assets : Whole(row[a])
  /\ audit \in Seq([asset : Assets, changes : Payloads])
  /\ review = [r \in Reviewers |-> review[r]]
  /\ \A r \in Reviewers :
       /\ DOMAIN review[r] = {"pc", "asset", "seen", "payload", "answer"}
       /\ review[r].pc = "loaded" =>
            review[r].asset \in Assets /\ review[r].payload \in Payloads /\ Whole(review[r].seen)

ReviewInv == ReviewShape /\ FieldsFollowAudit /\ RiskFollowsFields

LEMMA RiskShape ==
  ASSUME NEW a, NEW kind, NEW fields
  PROVE  DOMAIN Risk(a, kind, fields) = RiskColumns /\ Risk(a, kind, fields).score \in Int
<1>1. ASSUME NEW value
      PROVE  LevelPoints(value) \in Int /\ EffortPoints(value) \in Int /\ ExposurePoints(value) \in Int
  BY DEF LevelPoints, EffortPoints, ExposurePoints, StepPoints, Levels
<1> QED BY <1>1 DEF Risk, Assess, RiskColumns

LEMMA ReviewStarts == ReviewInit => ReviewInv
<1> SUFFICES ASSUME ReviewInit PROVE ReviewInv OBVIOUS
<1>1. ReviewShape
  BY FieldsAssumption, RiskShape DEF ReviewInit, ReviewShape, Whole, IdleReview
<1>2. FieldsFollowAudit
  BY DEF ReviewInit, FieldsFollowAudit
<1>3. RiskFollowsFields
  BY DEF ReviewInit, RiskFollowsFields, ToSet
<1> QED BY <1>1, <1>2, <1>3 DEF ReviewInv

\* A handler that ends leaves the other reviewers alone, and its record whole.
LEMMA EndKeepsReviews ==
  ASSUME ReviewShape, NEW r \in Reviewers, NEW answer, EndReview(r, answer)
  PROVE  /\ review' = [q \in Reviewers |-> review'[q]]
         /\ \A q \in Reviewers : DOMAIN review'[q] = {"pc", "asset", "seen", "payload", "answer"}
         /\ \A q \in Reviewers : q # r => review'[q] = review[q]
         /\ review'[r].pc = "done"
<1>1. PICK ended : ended = [IdleReview EXCEPT !.pc = "done",
               !.answer = IF review[r].answer = "none" THEN answer ELSE review[r].answer]
  OBVIOUS
<1>2. DOMAIN ended = {"pc", "asset", "seen", "payload", "answer"} /\ ended.pc = "done"
  BY <1>1 DEF IdleReview
<1>3. review' = [review EXCEPT ![r] = ended]
  BY <1>1 DEF EndReview
<1> QED BY <1>2, <1>3 DEF ReviewShape

\* What a commit leaves in its row.
LEMMA CommitKeepsShape ==
  ASSUME ReviewShape, NEW r \in Reviewers, CommitReview(r)
  PROVE  ReviewShape'
<1> DEFINE a == review[r].asset
           seen == review[r].seen
           new == Reviewed(a, seen, review[r].payload)
<1>1. a \in Assets /\ review[r].payload \in Payloads /\ Whole(seen)
  BY DEF ReviewShape, CommitReview
<1>2. row' = [row EXCEPT ![a] = WriteColumns(row[a], seen, new)]
  BY DEF CommitReview
<1>3. Whole(WriteColumns(row[a], seen, new))
  <2>1. new.risk.score \in Int
    BY RiskShape DEF Reviewed
  <2>2. Whole(row[a])
    BY <1>1 DEF ReviewShape
  <2> QED BY <2>1, <2>2 DEF Whole, WriteColumns, RiskColumns
<1>4. row' = [b \in Assets |-> row'[b]] /\ \A b \in Assets : Whole(row'[b])
  BY <1>1, <1>2, <1>3 DEF ReviewShape
<1>5. audit' \in Seq([asset : Assets, changes : Payloads])
  BY <1>1 DEF ReviewShape, CommitReview
<1>6. /\ review' = [q \in Reviewers |-> review'[q]]
      /\ \A q \in Reviewers : DOMAIN review'[q] = {"pc", "asset", "seen", "payload", "answer"}
      /\ \A q \in Reviewers : q # r => review'[q] = review[q]
      /\ review'[r].pc = "done"
  BY EndKeepsReviews DEF CommitReview
<1> QED BY <1>4, <1>5, <1>6 DEF ReviewShape

LEMMA CommitFields ==
  ASSUME ReviewShape, FieldsFollowAudit, NEW r \in Reviewers, CommitReview(r)
  PROVE  FieldsFollowAudit'
<1> DEFINE a == review[r].asset
           seen == review[r].seen
           payload == review[r].payload
           new == Reviewed(a, seen, payload)
<1>0. PICK n \in Nat \ {0} : n = Len(audit) + 1
  BY DEF ReviewShape
<1>1. a \in Assets /\ payload \in Payloads /\ Whole(seen) /\ DOMAIN payload \subseteq RiskFields
  BY FieldsAssumption DEF ReviewShape, CommitReview
<1>2. row' = [row EXCEPT ![a] = WriteColumns(row[a], seen, new)]
  BY DEF CommitReview
<1>3. /\ DOMAIN audit' = 1..n /\ DOMAIN audit = 1..(n - 1)
      /\ \A i \in DOMAIN audit : audit'[i] = audit[i]
      /\ audit'[n] = [asset |-> a, changes |-> payload]
  BY <1>0, <1>1 DEF ReviewShape, CommitReview
<1>4. crossed' = crossed \cup {<<a, f>> : f \in {g \in DOMAIN payload :
                                              row[a].fields[g] # seen.fields[g]}}
  BY DEF CommitReview
<1> SUFFICES ASSUME NEW b \in Assets, NEW f \in RiskFields, <<b, f>> \notin crossed'
             PROVE  \/ /\ \A i \in DOMAIN audit' : ~Sets(i, b, f)'
                       /\ row'[b].fields[f] = Initial[f]
                    \/ \E i \in DOMAIN audit' :
                         /\ Sets(i, b, f)'
                         /\ \A j \in DOMAIN audit' : j > i => ~Sets(j, b, f)'
                         /\ row'[b].fields[f] = audit'[i].changes[f]
  BY DEF FieldsFollowAudit
<1>5. \A i \in DOMAIN audit : Sets(i, b, f)' <=> Sets(i, b, f)
  BY <1>3 DEF Sets
<1>6. Sets(n, b, f)' <=> b = a /\ f \in DOMAIN payload
  BY <1>3 DEF Sets
<1>7. \/ /\ \A i \in DOMAIN audit : ~Sets(i, b, f)
         /\ row[b].fields[f] = Initial[f]
      \/ \E i \in DOMAIN audit :
           /\ Sets(i, b, f)
           /\ \A j \in DOMAIN audit : j > i => ~Sets(j, b, f)
           /\ row[b].fields[f] = audit[i].changes[f]
  BY <1>4 DEF FieldsFollowAudit
<1>8. CASE b = a /\ f \in DOMAIN payload
  <2>1. row[a].fields[f] = seen.fields[f]
    BY <1>4, <1>8
  <2>2. new.fields[f] = payload[f]
    BY <1>8 DEF Reviewed, Changed
  <2>3. row'[a].fields[f] = payload[f]
    BY <1>1, <1>2, <2>1, <2>2 DEF WriteColumns, ReviewShape
  <2>4. n \in DOMAIN audit' /\ \A j \in DOMAIN audit' : ~(j > n)
    BY <1>3
  <2>5. row'[b].fields[f] = audit'[n].changes[f] /\ Sets(n, b, f)'
    BY <1>3, <1>6, <1>8, <2>3
  <2> QED BY <2>4, <2>5
<1>9. CASE ~(b = a /\ f \in DOMAIN payload)
  <2>1. row'[b].fields[f] = row[b].fields[f]
    <3>1. CASE b # a
      BY <1>2, <3>1 DEF ReviewShape
    <3>2. CASE b = a /\ f \notin DOMAIN payload
      <4>1. new.fields[f] = seen.fields[f]
        BY <1>1, <3>2 DEF Reviewed, Changed, Whole
      <4> QED BY <1>1, <1>2, <3>2, <4>1 DEF WriteColumns, ReviewShape
    <3> QED BY <1>9, <3>1, <3>2
  <2>2. ~Sets(n, b, f)'
    BY <1>6, <1>9
  <2>3. DOMAIN audit' = DOMAIN audit \cup {n}
    <3>1. \A k \in Nat : k > 0 => 1..k = (1..(k - 1)) \cup {k}
      OBVIOUS
    <3> QED BY <1>3, <3>1
  <2> QED BY <1>3, <1>5, <1>7, <2>1, <2>2, <2>3
<1> QED BY <1>8, <1>9

LEMMA CommitRisk ==
  ASSUME ReviewShape, RiskFollowsFields, NEW r \in Reviewers, CommitReview(r)
  PROVE  RiskFollowsFields'
<1> DEFINE a == review[r].asset
           seen == review[r].seen
           payload == review[r].payload
           new == Reviewed(a, seen, payload)
           columns == {"score", "label", "candidate", "vulnerable", "hybrid"}
<1>1. a \in Assets /\ payload \in Payloads /\ Whole(seen) /\ DOMAIN payload \subseteq RiskFields
  BY FieldsAssumption DEF ReviewShape, CommitReview
<1>2. row' = [row EXCEPT ![a] = WriteColumns(row[a], seen, new)]
  BY DEF CommitReview
<1>3. ASSUME NEW e \in ToSet(audit') PROVE e \in ToSet(audit) \/ e.asset = a
  BY <1>1 DEF ReviewShape, CommitReview, ToSet
<1> SUFFICES ASSUME NEW b \in Assets \ stale', NEW e \in ToSet(audit'), e.asset = b,
                    NEW c \in columns
             PROVE  row'[b].risk[c] = Risk(b, "unknown", row'[b].fields)[c]
  BY DEF RiskFollowsFields
<1>4. CASE b # a
  <2>1. b \notin stale
    BY DEF CommitReview
  <2>2. row'[b] = row[b]
    BY <1>2, <1>4 DEF ReviewShape
  <2> QED BY <1>3, <1>4, <2>1, <2>2 DEF RiskFollowsFields
<1>5. CASE b = a
  <2>1. row[a] = seen
    BY <1>5 DEF CommitReview
  <2>2. row'[a] = WriteColumns(seen, seen, new)
    BY <1>1, <1>2, <2>1 DEF ReviewShape
  <2>3. DOMAIN new.fields = RiskFields /\ new.fields = [f \in RiskFields |-> new.fields[f]]
    BY <1>1 DEF Reviewed, Changed, Whole
  <2>4. row'[a].fields = [f \in RiskFields |-> new.fields[f]]
    BY <2>2 DEF WriteColumns
  <2>5. row'[a].risk[c] = new.risk[c]
    <3>1. c \in DOMAIN seen.risk /\ c \notin {"confirmed", "capability"}
      BY <1>1 DEF Whole, RiskColumns
    <3>2. row'[a].risk[c] = IF c \notin {"confirmed", "capability"} /\ new.risk[c] # seen.risk[c]
                            THEN new.risk[c] ELSE seen.risk[c]
      <4> HIDE DEF new, seen
      <4> QED BY <2>2, <3>1 DEF WriteColumns
    <3> QED BY <3>1, <3>2
  <2>6. new.risk = Risk(a, "unknown", new.fields)
    BY DEF Reviewed
  <2>7. row'[a].fields = new.fields
    BY <2>3, <2>4
  <2> QED BY <1>5, <2>5, <2>6, <2>7
<1> QED BY <1>4, <1>5

LEMMA ReviewStep == ReviewInv /\ [ReviewNext]_reviewVars => ReviewInv'
<1> SUFFICES ASSUME ReviewInv, [ReviewNext]_reviewVars PROVE ReviewInv' OBVIOUS
<1> USE DEF ReviewInv
<1>1. ASSUME NEW r \in Reviewers, CommitReview(r) PROVE ReviewInv'
  BY <1>1, CommitKeepsShape, CommitFields, CommitRisk
<1>2. ASSUME UNCHANGED <<row, audit, stale, crossed>>, ReviewShape' PROVE ReviewInv'
  BY <1>2 DEF FieldsFollowAudit, RiskFollowsFields, Sets
<1>3. ASSUME NEW r \in Reviewers, NEW a \in Assets, NEW p \in Payloads, NEW w \in BOOLEAN,
             LoadForReview(r, a, p, w)
      PROVE  ReviewInv'
  <2>1. ReviewShape'
    BY <1>3 DEF ReviewShape, LoadForReview, IdleReview
  <2> QED BY <1>2, <1>3, <2>1 DEF LoadForReview
<1>4. ASSUME NEW r \in Reviewers, FailReview(r) \/ TimeOut(r) PROVE ReviewInv'
  <2>1. ReviewShape'
    <3>1. CASE FailReview(r)
      <4>1. /\ review' = [q \in Reviewers |-> review'[q]]
            /\ \A q \in Reviewers : DOMAIN review'[q] = {"pc", "asset", "seen", "payload", "answer"}
            /\ \A q \in Reviewers : q # r => review'[q] = review[q]
            /\ review'[r].pc = "done"
        BY <3>1, EndKeepsReviews DEF FailReview
      <4> QED BY <3>1, <4>1 DEF FailReview, ReviewShape, Whole
    <3>2. CASE TimeOut(r)
      BY <3>2 DEF ReviewShape, TimeOut
    <3> QED BY <1>4, <3>1, <3>2
  <2> QED BY <1>2, <1>4, <2>1 DEF FailReview, TimeOut
<1>5. ASSUME UNCHANGED <<row, audit, review, stale, crossed>> PROVE ReviewInv'
  <2>1. ReviewShape'
    BY <1>5 DEF ReviewShape, Whole
  <2> QED BY <1>2, <1>5, <2>1
<1> QED
  BY <1>1, <1>3, <1>4, <1>5
  DEF ReviewNext, reviewVars, CompleteScan, StartRead, FetchPage, NextPage, StreamRows,
      Distribution, ReadGraph

\* Every field of every asset has the value of the last audited PATCH that named it,
\* or its scan's, except a field whose reviews crossed, for any reviewers and payloads.
THEOREM FieldsAlwaysFollowAudit == ReviewSpec => []FieldsFollowAudit
<1>1. ReviewInv => FieldsFollowAudit
  BY DEF ReviewInv
<1> QED BY ReviewStarts, ReviewStep, <1>1, PTL DEF ReviewSpec

\* A reviewed asset carries the assessment of exactly the fields it has, unless a
\* review was committed over a change it had not seen, although commits write columns.
THEOREM RiskAlwaysFollowsFields == ReviewSpec => []RiskFollowsFields
<1>1. ReviewInv => RiskFollowsFields
  BY DEF ReviewInv
<1> QED BY ReviewStarts, ReviewStep, <1>1, PTL DEF ReviewSpec
-----------------------------------------------------------------------------
\* Readers.

Order(query) == {p \in Assets \X Assets : Before(query, p[1], p[2])}
ByColumn(query) == query.sort \in {"name", "confidence", "algorithm"}

\* The five orders.
LEMMA QueryOrders ==
  ASSUME \A a \in Assets : row[a].risk.score \in Int, NEW q \in Queries, NEW S \in SUBSET Assets
  PROVE  Orders(Order(q), S)
<1> DEFINE key(a) == <<Catalog[a].rank, Catalog[a].location, Catalog[a].confidence>>
<1>1. \A a \in S : /\ a \in Assets /\ a \in Int /\ row[a].risk.score \in Int
                   /\ Catalog[a].rank \in Int /\ Catalog[a].location \in Int
                   /\ Catalog[a].confidence \in Int
  BY OrderAssumption
<1>2. \A x, y \in S : <<x, y>> \in Order(q) <=> Before(q, x, y)
  BY <1>1 DEF Order
<1>3. q.sort \in Sorts
  BY OrderAssumption
<1>4. CASE q.sort = "name"
  BY <1>1, <1>2, <1>4 DEF Before, Orders
<1>5. CASE q.sort = "score"
  BY <1>1, <1>2, <1>5 DEF Before, Orders
<1>6. CASE q.sort = "priority"
  BY <1>1, <1>2, <1>6 DEF Before, Orders
<1>7. CASE q.sort = "confidence"
  BY <1>1, <1>2, <1>7 DEF Before, Orders
<1>8. CASE q.sort = "algorithm"
  BY <1>1, <1>2, <1>8 DEF Before, Orders
<1> QED BY <1>3, <1>4, <1>5, <1>6, <1>7, <1>8 DEF Sorts

\* A ranking is each of its assets once.
LEMMA RankedOnce ==
  ASSUME \A a \in Assets : row[a].risk.score \in Int, NEW q \in Queries, NEW s
  PROVE  LET S == Selected(q, s)
             n == Cardinality(S)
         IN  /\ n \in Nat /\ S \subseteq Assets
             /\ Ranked(q, s) \in [1..n -> S]
             /\ IsInjective(Ranked(q, s))
             /\ \A a \in S : \E i \in 1..n : Ranked(q, s)[i] = a
             /\ \A i \in 1..n : 1 + Cardinality(Below(Order(q), S, Ranked(q, s)[i])) = i
<1> DEFINE S == Selected(q, s)
           R == Order(q)
<1>1. S \subseteq Assets /\ IsFiniteSet(S)
  BY OrderAssumption, FS_Subset DEF Selected, AssetsOf, Visible
<1>2. Orders(R, S)
  BY <1>1, QueryOrders
<1>3. \A a \in S : {b \in S : Before(q, b, a)} = Below(R, S, a)
  BY <1>1 DEF Order, Below
<1> DEFINE place(a) == 1 + Cardinality({b \in S : Before(q, b, a)})
           at(i) == CHOOSE a \in S : place(a) = i
<1>4. Ranked(q, s) = [i \in 1..Cardinality(S) |-> at(i)]
  BY DEF Ranked
<1>5. \A a \in S : place(a) = 1 + Cardinality(Below(R, S, a))
  BY <1>3
<1> HIDE DEF S, R, place
<1>6. ASSUME NEW i \in 1..Cardinality(S)
      PROVE  at(i) \in S /\ 1 + Cardinality(Below(R, S, at(i))) = i
  <2>1. \E a \in S : place(a) = i
    BY <1>1, <1>2, <1>5, Places
  <2>2. at(i) \in S /\ place(at(i)) = i
    BY <2>1
  <2> QED BY <1>5, <2>2
<1> HIDE DEF at
<1>7. Ranked(q, s) \in [1..Cardinality(S) -> S]
  BY <1>4, <1>6
<1>8. \A i \in 1..Cardinality(S) : 1 + Cardinality(Below(R, S, Ranked(q, s)[i])) = i
  BY <1>4, <1>6
<1>9. /\ Cardinality(S) \in Nat
      /\ IsInjective(Ranked(q, s))
      /\ \A a \in S : \E i \in 1..Cardinality(S) : Ranked(q, s)[i] = a
  BY <1>1, <1>2, <1>7, <1>8, SortedByPlace
<1> QED BY <1>1, <1>7, <1>8, <1>9 DEF S, R

\* The assets of a completed scan, and the readers that must see them all.
Content(s) == {a \in Assets : Catalog[a].scan = s}
Downloads(x) == x.query.kind = "csv" /\ x.query.label = NoValue
Pages(x) == /\ x.query.kind = "pages" /\ x.query.scan # NoValue
            /\ x.query.label = NoValue /\ ByColumn(x.query)
Drawn(x) == x.query.kind = "graph"
Named(query, s) == IF query.asset = NoValue THEN Content(s) ELSE Content(s) \cap {query.asset}

\* Every item is at its place, as many as the pages so far have room for.
InPlace(x) ==
  LET S == Content(x.scan)
      n == Cardinality(S)
  IN  /\ x.offset \in Nat /\ x.items \in Seq(S)
      /\ Len(x.items) = IF x.offset < n THEN x.offset ELSE n
      /\ \A i \in 1..Len(x.items) : 1 + Cardinality(Below(Order(x.query), S, x.items[i])) = i

ReaderOK(x) ==
  /\ DOMAIN x = {"pc", "query", "scan", "offset", "total", "items", "counts"}
  /\ x.pc = "idle" => x = IdleRead
  /\ x.pc \in {"counted", "next", "done"} => x.query \in Queries
  /\ x.pc = "next" => x.query.kind = "pages"
  /\ Downloads(x) /\ x.pc \in {"counted", "done"} =>
       x.scan \in completed /\ x.total = Cardinality(Content(x.scan))
  /\ Downloads(x) /\ x.pc = "done" =>
       Len(x.items) = x.total /\ ToSet(x.items) = Content(x.scan)
  /\ Pages(x) /\ x.pc \in {"counted", "next", "done"} =>
       /\ x.scan = x.query.scan /\ x.scan \in completed
       /\ x.total = Cardinality(Content(x.scan))
       /\ InPlace(x)
  /\ Pages(x) /\ x.pc = "done" => x.offset >= x.total
  /\ Drawn(x) /\ x.pc \in {"counted", "done"} => x.scan \in completed
  /\ Drawn(x) /\ x.pc = "done" /\ x.counts # NoValue =>
       x.counts = EvidenceGraph(Named(x.query, x.scan))

ReadersInv ==
  /\ read = [r \in Readers |-> read[r]]
  /\ \A r \in Readers : ReaderOK(read[r])

LEMMA ContentOfScan ==
  ASSUME NEW s \in completed
  PROVE  /\ AssetsOf(s) = Content(s)
         /\ \A q : q.label = NoValue => Selected(q, s) = Content(s)
  BY DEF AssetsOf, Visible, Content, Selected

LEMMA ContentFinite ==
  ASSUME NEW s
  PROVE  /\ Content(s) \subseteq Assets /\ IsFiniteSet(Content(s))
         /\ Cardinality(Content(s)) \in Nat
  BY OrderAssumption, FS_Subset, FS_CardinalityType DEF Content

\* The orders by column do not depend on what is reviewed.
LEMMA OrderStays == ASSUME NEW q, ByColumn(q) PROVE Order(q)' = Order(q)
<1>1. \A x, y \in Assets : Before(q, x, y)' <=> Before(q, x, y)
  BY DEF Before, ByColumn
<1> QED BY <1>1 DEF Order

LEMMA ReaderStays ==
  ASSUME NEW x, ReaderOK(x), completed \subseteq completed'
  PROVE  ReaderOK(x)'
<1>1. ASSUME Pages(x) PROVE InPlace(x)' <=> InPlace(x)
  BY <1>1, OrderStays DEF InPlace, Pages, Content, Below
<1> QED BY <1>1 DEF ReaderOK, Downloads, Pages, Drawn, Named, Content, IdleRead, ByColumn

LEMMA ReadersStart == ReviewInit => ReadersInv
  BY DEF ReviewInit, ReadersInv, ReaderOK, IdleRead

LEMMA OneReader ==
  ASSUME ReadersInv, NEW r \in Readers, NEW x, read' = [read EXCEPT ![r] = x],
         ReaderOK(x)', completed' = completed
  PROVE  ReadersInv'
<1>1. \A q \in Readers : q # r => ReaderOK(read[q])'
  BY ReaderStays DEF ReadersInv
<1> QED BY <1>1 DEF ReadersInv

LEMMA Starting ==
  ASSUME ReadersInv, NEW r \in Readers, NEW q \in Queries, StartRead(r, q)
  PROVE  ReadersInv'
<1>0. PICK s : s = Resolve(q)
  OBVIOUS
<1>1. PICK x : x = [IdleRead EXCEPT !.query = q,
                                 !.scan = s,
                                 !.pc = IF s \in completed THEN "counted" ELSE "refused",
                                 !.total = Cardinality(Selected(q, s))]
  OBVIOUS
<1>2. read' = [read EXCEPT ![r] = x] /\ completed' = completed
  BY <1>0, <1>1, Zenon DEF StartRead
<1>3. /\ DOMAIN x = {"pc", "query", "scan", "offset", "total", "items", "counts"}
      /\ x.query = q /\ x.scan = s /\ x.offset = 0 /\ x.items = <<>>
      /\ x.pc = (IF s \in completed THEN "counted" ELSE "refused")
      /\ x.total = Cardinality(Selected(q, s))
  BY <1>1 DEF IdleRead
<1>4. ASSUME s \in completed, q.label = NoValue PROVE x.total = Cardinality(Content(s))
  BY <1>3, <1>4, ContentOfScan
<1>5. ASSUME Pages(x), s \in completed
      PROVE  s = q.scan /\ InPlace(x)
  <2>1. s = q.scan
    BY <1>0, <1>3, <1>5 DEF Pages, Resolve
  <2>2. Cardinality(Content(s)) \in Nat
    BY ContentFinite
  <2> QED BY <1>3, <2>1, <2>2 DEF InPlace
<1>6. ReaderOK(x)
  BY <1>3, <1>4, <1>5 DEF ReaderOK, Downloads, Pages, Drawn
<1>7. ReaderOK(x)'
  BY <1>2, <1>6, ReaderStays
<1> QED BY <1>2, <1>7, OneReader

\* A page adds the assets of the next places.
LEMMA PageInPlace ==
  ASSUME NEW S, Cardinality(S) \in Nat, NEW ranked \in Seq(S), Len(ranked) = Cardinality(S),
         NEW items \in Seq(S), NEW offset \in Nat,
         Len(items) = IF offset < Len(ranked) THEN offset ELSE Len(ranked),
         NEW P, \A i \in 1..Len(items) : <<i, items[i]>> \in P,
         \A i \in 1..Len(ranked) : <<i, ranked[i]>> \in P
  PROVE  LET new == items \o SubSeq(ranked, offset + 1, Min({offset + PageSize, Len(ranked)}))
             next == offset + PageSize
         IN  /\ new \in Seq(S)
             /\ Len(new) = IF next < Len(ranked) THEN next ELSE Len(ranked)
             /\ \A i \in 1..Len(new) : <<i, new[i]>> \in P
<1> DEFINE n == Len(ranked)
           next == offset + PageSize
           last == IF next < n THEN next ELSE n
           page == SubSeq(ranked, offset + 1, last)
           new == items \o page
<1>1. n \in Nat /\ PageSize \in Nat \ {0} /\ next \in Nat /\ last \in Nat
  BY OrderAssumption
<1>2. Min({next, n}) = last
  BY <1>1 DEF Min
<1>3. CASE offset < n
  <2>1. page \in Seq(S) /\ Len(page) = last - offset
    BY <1>1, <1>3
  <2>2. \A i \in 1..Len(page) : page[i] = ranked[offset + i]
    BY <1>1, <1>3, <2>1
  <2>3. new \in Seq(S) /\ Len(new) = last
    BY <1>1, <1>3, <2>1
  <2>4. \A i \in 1..offset : new[i] = items[i]
    BY <1>1, <1>3, <2>1
  <2>5. \A i \in (offset + 1)..last : new[i] = ranked[i]
    <3>1. SUFFICES ASSUME NEW i \in (offset + 1)..last PROVE new[i] = ranked[i] OBVIOUS
    <3>2. i \in Nat /\ i > offset /\ i <= last /\ i - offset \in 1..Len(page)
      BY <1>1, <1>3, <2>1
    <3>3. new[i] = page[i - offset]
      <4> HIDE DEF page
      <4> QED BY <1>3, <2>1, <3>2, ConcatProperties
    <3>4. page[i - offset] = ranked[offset + (i - offset)]
      BY <2>2, <3>2
    <3>5. offset + (i - offset) = i
      BY <3>2
    <3> QED BY <3>3, <3>4, <3>5
  <2> HIDE DEF new
  <2>6. \A i \in 1..last : <<i, new[i]>> \in P
    <3>1. SUFFICES ASSUME NEW i \in 1..last PROVE <<i, new[i]>> \in P OBVIOUS
    <3>2. CASE i <= offset
      BY <1>3, <2>4, <3>2
    <3>3. CASE i > offset
      BY <1>1, <2>5, <3>3
    <3> QED BY <1>1, <3>2, <3>3
  <2> QED BY <1>1, <1>2, <2>3, <2>6 DEF new
<1>4. CASE offset >= n
  <2>1. page = <<>> /\ last = n
    BY <1>1, <1>4
  <2>2. new = items
    BY <2>1, ConcatEmptySeq
  <2>3. ~(next < n) /\ Len(items) = n
    BY <1>1, <1>4
  <2>4. /\ new \in Seq(S)
        /\ Len(new) = IF next < n THEN next ELSE n
        /\ \A i \in 1..Len(new) : <<i, new[i]>> \in P
    <3> HIDE DEF new
    <3> QED BY <2>2, <2>3
  <2> QED BY <1>2, <2>4
<1>5. offset < n \/ offset >= n
  BY <1>1
<1> QED BY <1>3, <1>4, <1>5, Zenon

\* An action on one reader that leaves it its query, its scan and its offset.
LEMMA Fetching ==
  ASSUME ReadersInv, ReviewShape, NEW r \in Readers, FetchPage(r)
  PROVE  ReadersInv'
<1>0. PICK x, q, s : x = read[r] /\ q = x.query /\ s = x.scan
  OBVIOUS
<1>1. ReaderOK(x) /\ x.pc = "counted" /\ q.kind = "pages" /\ q \in Queries
  BY <1>0 DEF ReadersInv, FetchPage, ReaderOK
<1>2. PICK ranked : ranked = Ranked(q, s)
  OBVIOUS
<1>3. PICK y : y = [x EXCEPT !.items = @ \o SubSeq(ranked, x.offset + 1,
                                                   Min({x.offset + PageSize, Len(ranked)})),
                             !.offset = @ + PageSize,
                             !.pc = IF x.offset + PageSize >= x.total THEN "done" ELSE "next"]
  OBVIOUS
<1>4. read' = [read EXCEPT ![r] = y] /\ completed' = completed
  BY <1>0, <1>2, <1>3 DEF FetchPage, ReadersInv
<1>5. /\ DOMAIN y = DOMAIN x /\ y.query = q /\ y.scan = s /\ y.total = x.total
      /\ y.items = x.items \o SubSeq(ranked, x.offset + 1, Min({x.offset + PageSize, Len(ranked)}))
      /\ y.offset = x.offset + PageSize
      /\ y.pc = IF x.offset + PageSize >= x.total THEN "done" ELSE "next"
  BY <1>0, <1>1, <1>3 DEF ReaderOK
<1>6. ASSUME Pages(y) PROVE InPlace(y)
  <2>1. /\ Pages(x) /\ s \in completed /\ s = q.scan /\ q.label = NoValue
        /\ InPlace(x)
    BY <1>0, <1>1, <1>5, <1>6 DEF Pages, ReaderOK
  <2>2. Selected(q, s) = Content(s) /\ Cardinality(Content(s)) \in Nat
    BY <2>1, ContentOfScan, ContentFinite
  <2>3. \A a \in Assets : row[a].risk.score \in Int
    BY DEF ReviewShape, Whole
  <2> DEFINE place(a) == 1 + Cardinality(Below(Order(q), Content(s), a))
  <2>4. PICK S, n, P : /\ S = Content(s) /\ n = Cardinality(S)
                       /\ P = {p \in Nat \X S : place(p[2]) = p[1]}
    OBVIOUS
  <2>5. \A i \in Nat, a \in S : <<i, a>> \in P <=> place(a) = i
    BY <2>4
  <2>6. /\ ranked \in Seq(S) /\ Len(ranked) = n
        /\ \A i \in 1..Len(ranked) : <<i, ranked[i]>> \in P
    <3>1. ranked \in [1..n -> S] /\ \A i \in 1..n : place(ranked[i]) = i
      BY <1>1, <1>2, <2>2, <2>3, <2>4, RankedOnce
    <3> HIDE DEF place
    <3>2. n \in Nat
      BY <2>2, <2>4
    <3> QED BY <2>5, <3>1, <3>2
  <2>7. /\ x.offset \in Nat /\ x.items \in Seq(S)
        /\ Len(x.items) = IF x.offset < n THEN x.offset ELSE n
        /\ \A i \in 1..Len(x.items) : <<i, x.items[i]>> \in P
    <3>1. \A i \in 1..Len(x.items) : place(x.items[i]) = i
      BY <1>0, <2>1 DEF InPlace
    <3>2. /\ x.offset \in Nat /\ x.items \in Seq(S)
          /\ Len(x.items) = IF x.offset < n THEN x.offset ELSE n
      BY <1>0, <2>1, <2>4 DEF InPlace
    <3> HIDE DEF place
    <3> QED BY <2>5, <3>1, <3>2
  <2>8. /\ y.items \in Seq(S)
        /\ Len(y.items) = IF y.offset < n THEN y.offset ELSE n
        /\ \A i \in 1..Len(y.items) : <<i, y.items[i]>> \in P
    <3>1. n = Cardinality(S) /\ Cardinality(S) \in Nat /\ Len(ranked) = Cardinality(S)
      BY <2>2, <2>4, <2>6
    <3>2. Len(x.items) = IF x.offset < Len(ranked) THEN x.offset ELSE Len(ranked)
      BY <2>6, <2>7
    <3>3. LET new == x.items \o SubSeq(ranked, x.offset + 1,
                                       Min({x.offset + PageSize, Len(ranked)}))
              next == x.offset + PageSize
          IN  /\ new \in Seq(S)
              /\ Len(new) = IF next < Len(ranked) THEN next ELSE Len(ranked)
              /\ \A i \in 1..Len(new) : <<i, new[i]>> \in P
      <4> HIDE DEF place
      <4> QED BY <2>6, <2>7, <3>1, <3>2, PageInPlace, Zenon
    <3> QED BY <1>5, <2>6, <3>3, Zenon
  <2>9. y.offset \in Nat
    BY <1>5, <2>7, OrderAssumption
  <2>10. \A i \in 1..Len(y.items) : place(y.items[i]) = i
    <3>1. SUFFICES ASSUME NEW i \in 1..Len(y.items) PROVE place(y.items[i]) = i
      OBVIOUS
    <3>2. i \in Nat /\ y.items[i] \in S /\ <<i, y.items[i]>> \in P
      BY <2>8
    <3> QED BY <2>5, <3>2, Zenon
  <2> QED BY <1>5, <2>4, <2>8, <2>9, <2>10 DEF InPlace
<1>7. ReaderOK(y)
  <2>1. ASSUME Pages(y)
        PROVE  /\ y.scan = y.query.scan /\ y.scan \in completed
               /\ y.total = Cardinality(Content(y.scan))
               /\ y.pc = "done" => y.offset >= y.total
    BY <1>0, <1>1, <1>5, <2>1 DEF Pages, ReaderOK
  <2>2. ~Downloads(y) /\ ~Drawn(y)
    BY <1>1, <1>5 DEF Downloads, Drawn
  <2>3. y.pc # "idle" /\ DOMAIN y = {"pc", "query", "scan", "offset", "total", "items", "counts"}
    BY <1>1, <1>5 DEF ReaderOK
  <2> QED BY <1>1, <1>5, <1>6, <2>1, <2>2, <2>3 DEF ReaderOK
<1>8. ReaderOK(y)'
  BY <1>4, <1>7, ReaderStays
<1> QED BY <1>4, <1>8, OneReader

LEMMA NextPaging ==
  ASSUME ReadersInv, NEW r \in Readers, NextPage(r)
  PROVE  ReadersInv'
<1>0. PICK x, q : x = read[r] /\ q = x.query
  OBVIOUS
<1>1. PICK s : s = Resolve(q)
  OBVIOUS
<1>2. PICK y : y = [x EXCEPT !.scan = s, !.total = Cardinality(Selected(q, s)), !.pc = "counted"]
  OBVIOUS
<1>3. read' = [read EXCEPT ![r] = y] /\ completed' = completed
  BY <1>0, <1>1, <1>2 DEF NextPage, ReadersInv
<1>4. ReaderOK(x) /\ x.pc = "next" /\ q.kind = "pages" /\ q \in Queries
  BY <1>0 DEF ReadersInv, NextPage, ReaderOK
<1>5. /\ DOMAIN y = DOMAIN x /\ y.query = q /\ y.scan = s /\ y.pc = "counted"
      /\ y.items = x.items /\ y.offset = x.offset
      /\ y.total = Cardinality(Selected(q, s))
  BY <1>0, <1>2, <1>4 DEF ReaderOK
<1>6. ASSUME Pages(y)
      PROVE  /\ s = x.scan /\ s = q.scan /\ s \in completed /\ InPlace(y)
             /\ y.total = Cardinality(Content(s))
  <2>1. Pages(x) /\ q.scan # NoValue /\ q.label = NoValue
    BY <1>0, <1>5, <1>6 DEF Pages
  <2>2. x.scan = q.scan /\ x.scan \in completed /\ InPlace(x)
    BY <1>0, <1>4, <2>1 DEF ReaderOK
  <2>3. s = q.scan
    BY <1>1, <2>1 DEF Resolve
  <2>4. Selected(q, s) = Content(s)
    BY <2>1, <2>2, <2>3, ContentOfScan
  <2> QED BY <1>0, <1>5, <2>2, <2>3, <2>4 DEF InPlace
<1>7. ReaderOK(y)
  BY <1>4, <1>5, <1>6 DEF ReaderOK, Downloads, Drawn
<1>8. ReaderOK(y)'
  BY <1>3, <1>7, ReaderStays
<1> QED BY <1>3, <1>8, OneReader

LEMMA Streaming ==
  ASSUME ReadersInv, ReviewShape, NEW r \in Readers, StreamRows(r)
  PROVE  ReadersInv'
<1>0. PICK x, q, s : x = read[r] /\ q = x.query /\ s = x.scan
  OBVIOUS
<1>1. PICK ranked : ranked = Ranked(q, s)
  OBVIOUS
<1>2. PICK y : y = [x EXCEPT !.items = ranked, !.pc = "done"]
  OBVIOUS
<1>3. read' = [read EXCEPT ![r] = y] /\ completed' = completed
  BY <1>0, <1>1, <1>2 DEF StreamRows, ReadersInv
<1>4. ReaderOK(x) /\ x.pc = "counted" /\ q.kind = "csv" /\ q \in Queries
  BY <1>0 DEF ReadersInv, StreamRows, ReaderOK
<1>5. /\ DOMAIN y = DOMAIN x /\ y.query = q /\ y.scan = s /\ y.pc = "done"
      /\ y.items = ranked /\ y.total = x.total
  BY <1>0, <1>2, <1>4 DEF ReaderOK
<1>6. ASSUME Downloads(y)
      PROVE  /\ s \in completed /\ y.total = Cardinality(Content(s))
             /\ Len(y.items) = y.total /\ ToSet(y.items) = Content(s)
  <2>1. Downloads(x) /\ q.label = NoValue
    BY <1>0, <1>5, <1>6 DEF Downloads
  <2>2. s \in completed /\ y.total = Cardinality(Content(s))
    BY <1>0, <1>4, <1>5, <2>1 DEF ReaderOK
  <2>3. Selected(q, s) = Content(s)
    BY <2>1, <2>2, ContentOfScan
  <2>4. \A a \in Assets : row[a].risk.score \in Int
    BY DEF ReviewShape, Whole
  <2>5. /\ ranked \in [1..Cardinality(Content(s)) -> Content(s)]
        /\ Cardinality(Content(s)) \in Nat
        /\ \A a \in Content(s) : \E i \in 1..Cardinality(Content(s)) : ranked[i] = a
    BY <1>1, <1>4, <2>3, <2>4, RankedOnce
  <2>6. Len(ranked) = Cardinality(Content(s)) /\ ToSet(ranked) = Content(s)
    BY <2>5 DEF ToSet
  <2> QED BY <1>5, <2>2, <2>6
<1>7. ReaderOK(y)
  BY <1>4, <1>5, <1>6 DEF ReaderOK, Pages, Downloads, Drawn
<1>8. ReaderOK(y)'
  BY <1>3, <1>7, ReaderStays
<1> QED BY <1>3, <1>8, OneReader

LEMMA Summing ==
  ASSUME ReadersInv, NEW r \in Readers, Distribution(r) \/ ReadGraph(r)
  PROVE  ReadersInv'
<1>0. PICK x : x = read[r]
  OBVIOUS
<1>1. PICK counts :
        /\ read' = [read EXCEPT ![r] = [x EXCEPT !.counts = counts, !.pc = "done"]]
        /\ \/ x.query.kind = "summary"
           \/ /\ x.query.kind = "graph"
              /\ counts # NoValue => counts = EvidenceGraph(Asked(x.query, x.scan))
  <2>1. CASE Distribution(r)
    BY <1>0, <2>1, Zenon DEF Distribution, ReadersInv
  <2>2. CASE ReadGraph(r)
    BY <1>0, <2>2, Zenon DEF ReadGraph, ReadersInv
  <2> QED BY <2>1, <2>2
<1>2. PICK y : y = [x EXCEPT !.counts = counts, !.pc = "done"]
  OBVIOUS
<1>3. read' = [read EXCEPT ![r] = y] /\ completed' = completed
  BY <1>1, <1>2 DEF Distribution, ReadGraph
<1>4. ReaderOK(x) /\ x.pc = "counted" /\ x.query.kind \in {"summary", "graph"}
  BY <1>0 DEF ReadersInv, Distribution, ReadGraph
<1>5. /\ DOMAIN y = DOMAIN x /\ y.query = x.query /\ y.pc = "done"
      /\ y.scan = x.scan /\ y.counts = counts
  BY <1>2, <1>4 DEF ReaderOK
<1>6. ASSUME Drawn(x), counts # NoValue
      PROVE  x.scan \in completed /\ counts = EvidenceGraph(Named(x.query, x.scan))
  <2>1. x.scan \in completed
    BY <1>4, <1>6 DEF ReaderOK
  <2>2. Asked(x.query, x.scan) = Named(x.query, x.scan)
    BY <2>1, ContentOfScan DEF Asked, Named
  <2> QED BY <1>1, <1>6, <2>1, <2>2 DEF Drawn
<1>7. ReaderOK(y)
  BY <1>4, <1>5, <1>6 DEF ReaderOK, Pages, Downloads, Drawn
<1>8. ReaderOK(y)'
  BY <1>3, <1>7, ReaderStays
<1> QED BY <1>3, <1>8, OneReader

LEMMA ReadersStep == ReviewInv /\ ReadersInv /\ [ReviewNext]_reviewVars => ReadersInv'
<1> SUFFICES ASSUME ReviewInv, ReadersInv, [ReviewNext]_reviewVars PROVE ReadersInv'
  OBVIOUS
<1>1. ReviewShape
  BY DEF ReviewInv
<1>2. ASSUME UNCHANGED read, completed \subseteq completed' PROVE ReadersInv'
  <2>1. \A q \in Readers : ReaderOK(read[q])'
    BY <1>2, ReaderStays DEF ReadersInv
  <2> QED BY <1>2, <2>1 DEF ReadersInv
<1>3. ASSUME NEW s \in Scans, CompleteScan(s) PROVE ReadersInv'
  BY <1>2, <1>3 DEF CompleteScan
<1>4. ASSUME NEW r \in Reviewers, NEW a \in Assets, NEW p \in Payloads, NEW w \in BOOLEAN,
             LoadForReview(r, a, p, w)
      PROVE  ReadersInv'
  BY <1>2, <1>4 DEF LoadForReview
<1>5. ASSUME NEW r \in Reviewers, CommitReview(r) \/ FailReview(r) \/ TimeOut(r)
      PROVE  ReadersInv'
  BY <1>2, <1>5 DEF CommitReview, FailReview, TimeOut
<1>6. ASSUME UNCHANGED reviewVars PROVE ReadersInv'
  BY <1>2, <1>6 DEF reviewVars
<1> QED
  BY <1>1, <1>3, <1>4, <1>5, <1>6, Starting, Fetching, NextPaging, Streaming, Summing
  DEF ReviewNext

\* Pages in a stable order, and the rows of a download, are the assets of the scan that
\* was asked for, each once, however reviews and scans commit between the statements.
THEOREM ReadersAlwaysSeeAScan == ReviewSpec => []ReadersSeeAScan
<1>1. ReviewInv /\ ReadersInv => ReadersSeeAScan
  <2> SUFFICES ASSUME ReviewInv, ReadersInv, NEW r \in Readers, NEW x, x = read[r], x.pc = "done"
               PROVE  /\ Downloads(x) =>
                           Len(x.items) = x.total /\ ToSet(x.items) = AssetsOf(x.scan)
                      /\ Pages(x) => ToSet(x.items) = AssetsOf(x.scan) /\ IsInjective(x.items)
    BY DEF ReadersSeeAScan, Downloads, Pages, ByColumn
  <2>1. ReaderOK(x)
    BY DEF ReadersInv
  <2>2. ASSUME Downloads(x) PROVE Len(x.items) = x.total /\ ToSet(x.items) = AssetsOf(x.scan)
    BY <2>1, <2>2, ContentOfScan DEF ReaderOK
  <2>3. ASSUME Pages(x) PROVE ToSet(x.items) = AssetsOf(x.scan) /\ IsInjective(x.items)
    <3>1. /\ x.scan \in completed /\ x.total = Cardinality(Content(x.scan))
          /\ InPlace(x) /\ x.offset >= x.total
      BY <2>1, <2>3 DEF ReaderOK
    <3> DEFINE S == Content(x.scan)
               n == Cardinality(S)
    <3>2. n \in Nat /\ IsFiniteSet(S) /\ S \subseteq Assets
      BY ContentFinite
    <3>3. /\ x.items \in Seq(S) /\ Len(x.items) = n
          /\ \A i \in 1..n : 1 + Cardinality(Below(Order(x.query), S, x.items[i])) = i
      BY <3>1, <3>2 DEF InPlace
    <3>4. x.query \in Queries /\ \A a \in Assets : row[a].risk.score \in Int
      BY <2>1 DEF ReaderOK, ReviewInv, ReviewShape, Whole
    <3>5. Orders(Order(x.query), S)
      BY <3>2, <3>4, QueryOrders
    <3>6. x.items \in [1..n -> S]
      BY <3>2, <3>3
    <3>7. IsInjective(x.items) /\ \A a \in S : \E i \in 1..n : x.items[i] = a
      <4>1. PICK T, items, R : T = S /\ items = x.items /\ R = Order(x.query)
        OBVIOUS
      <4>2. /\ IsFiniteSet(T) /\ Orders(R, T) /\ items \in [1..Cardinality(T) -> T]
            /\ \A i \in 1..Cardinality(T) : 1 + Cardinality(Below(R, T, items[i])) = i
        BY <3>2, <3>3, <3>5, <3>6, <4>1
      <4>3. IsInjective(items)
        BY <4>2, SortedByPlace
      <4>4. ASSUME NEW a \in T PROVE \E i \in 1..Cardinality(T) : items[i] = a
        <5>1. 1 + Cardinality(Below(R, T, a)) \in 1..Cardinality(T)
          BY <4>2, Places
        <5>2. items[1 + Cardinality(Below(R, T, a))] = a
          BY <4>2, <5>1, Places
        <5> QED BY <5>1, <5>2
      <4> QED BY <4>1, <4>3, <4>4
    <3>8. ToSet(x.items) = S
      BY <3>6, <3>7 DEF ToSet
    <3> QED BY <3>1, <3>7, <3>8, ContentOfScan
  <2> QED BY <2>2, <2>3
<1> QED BY ReviewStarts, ReviewStep, ReadersStart, ReadersStep, <1>1, PTL DEF ReviewSpec
-----------------------------------------------------------------------------
\* The evidence graph.

\* The assets in the order of their ids, up to the i-th.
FirstOf(here, i) == {a \in here : Cardinality({b \in here : b <= a}) <= i}

LEMMA MinOfTwo ==
  ASSUME NEW a \in Int, NEW b \in Int
  PROVE  Min({a, b}) = IF a <= b THEN a ELSE b
<1>1. \E x \in {a, b} : \A y \in {a, b} : x <= y
  OBVIOUS
<1>2. Min({a, b}) \in {a, b} /\ \A y \in {a, b} : Min({a, b}) <= y
  BY <1>1, Zenon DEF Min
<1> QED BY <1>2

LEMMA IdsInOrder ==
  ASSUME NEW here \in SUBSET Assets
  PROVE  /\ Cardinality(here) \in Nat
         /\ FirstOf(here, 0) = {}
         /\ FirstOf(here, Cardinality(here)) = here
         /\ \A i \in 1..Cardinality(here) :
              /\ IdAt(here, i) \in here
              /\ IdAt(here, i) \notin FirstOf(here, i - 1)
              /\ FirstOf(here, i) = FirstOf(here, i - 1) \cup {IdAt(here, i)}
<1> DEFINE R == {p \in here \X here : p[1] < p[2]}
           n == Cardinality(here)
           place(a) == Cardinality({b \in here : b <= a})
<1>1. IsFiniteSet(here) /\ n \in Nat /\ here \subseteq Int
  BY OrderAssumption, FS_Subset, FS_CardinalityType
<1>2. Orders(R, here)
  BY <1>1 DEF Orders
<1>3. ASSUME NEW a \in here PROVE place(a) = 1 + Cardinality(Below(R, here, a))
  <2>1. {b \in here : b <= a} = Below(R, here, a) \cup {a} /\ a \notin Below(R, here, a)
    <3>1. Below(R, here, a) = {b \in here : b < a}
      BY DEF Below
    <3>2. a \in Int /\ \A b \in here : b \in Int
      BY <1>1
    <3>3. \A b \in here : b <= a <=> b < a \/ b = a
      BY <3>2
    <3>4. ~(a < a)
      BY <3>2
    <3> HIDE DEF R
    <3> QED BY <3>1, <3>3, <3>4
  <2>2. IsFiniteSet(Below(R, here, a))
    BY <1>1, FS_Subset DEF Below
  <2>3. Cardinality(Below(R, here, a) \cup {a}) = Cardinality(Below(R, here, a)) + 1
    BY <2>1, <2>2, FS_AddElement
  <2>4. Cardinality(Below(R, here, a)) \in Nat
    BY <2>2, FS_CardinalityType
  <2>5. place(a) = Cardinality(Below(R, here, a)) + 1
    BY <2>1, <2>3
  <2> QED BY <2>4, <2>5
<1>4. \A a \in here : place(a) \in 1..n
  BY <1>1, <1>2, <1>3, Places
<1>5. \A a, b \in here : place(a) = place(b) => a = b
  <2>1. SUFFICES ASSUME NEW a \in here, NEW b \in here, place(a) = place(b) PROVE a = b
    OBVIOUS
  <2>2. Cardinality(Below(R, here, a)) \in Nat /\ Cardinality(Below(R, here, b)) \in Nat
    BY <1>1, <1>2, Places
  <2>3. Cardinality(Below(R, here, a)) = Cardinality(Below(R, here, b))
    BY <1>3, <2>1, <2>2
  <2> QED BY <1>1, <1>2, <2>3, Places
<1>6. \A i \in 1..n : \E a \in here : place(a) = i
  <2>1. \A i \in 1..n : \E a \in here : 1 + Cardinality(Below(R, here, a)) = i
    <3>1. PICK T, Q : T = here /\ Q = R
      OBVIOUS
    <3>2. IsFiniteSet(T) /\ Orders(Q, T)
      BY <1>1, <1>2, <3>1
    <3>3. \A i \in 1..Cardinality(T) : \E a \in T : 1 + Cardinality(Below(Q, T, a)) = i
      BY <3>2, Places
    <3> HIDE DEF R
    <3> QED BY <3>1, <3>3
  <2> HIDE DEF place, R, n
  <2> QED BY <1>3, <2>1
<1>7. \A i \in 1..n : IdAt(here, i) \in here /\ place(IdAt(here, i)) = i
  BY <1>6 DEF IdAt
<1>8. \A i : FirstOf(here, i) = {a \in here : place(a) <= i}
  BY DEF FirstOf
<1> HIDE DEF place, n
<1>9. FirstOf(here, 0) = {} /\ FirstOf(here, n) = here
  <2>1. \A a \in here : place(a) \in Int /\ place(a) > 0 /\ place(a) <= n
    BY <1>1, <1>4
  <2>2. {a \in here : place(a) <= 0} = {} /\ {a \in here : place(a) <= n} = here
    BY <2>1
  <2> QED BY <1>8, <2>2
<1>10. ASSUME NEW i \in 1..n
       PROVE  /\ IdAt(here, i) \in here
              /\ IdAt(here, i) \notin FirstOf(here, i - 1)
              /\ FirstOf(here, i) = FirstOf(here, i - 1) \cup {IdAt(here, i)}
  <2>1. IdAt(here, i) \in here /\ place(IdAt(here, i)) = i
    BY <1>7
  <2>2. ASSUME NEW a \in here
        PROVE  place(a) <= i <=> place(a) <= i - 1 \/ a = IdAt(here, i)
    <3>1. place(a) \in Int /\ i \in Int
      BY <1>1, <1>4
    <3>2. place(a) = i <=> a = IdAt(here, i)
      BY <1>5, <2>1
    <3> QED BY <3>1, <3>2
  <2>3. {a \in here : place(a) <= i}
          = {a \in here : place(a) <= i - 1} \cup {IdAt(here, i)}
    BY <2>1, <2>2
  <2>4. ~(place(IdAt(here, i)) <= i - 1)
    BY <2>1
  <2> QED BY <1>8, <2>1, <2>3, <2>4
<1> QED BY <1>1, <1>9, <1>10 DEF n

LEMMA SourcesAdd ==
  ASSUME NEW A \in SUBSET Assets, NEW a \in Assets, a \notin A
  PROVE  /\ Cardinality(SourcesOf(A)) \in Nat /\ Cardinality(Catalog[a].sources) \in Nat
         /\ Cardinality(SourcesOf(A \cup {a}))
              = Cardinality(SourcesOf(A)) + Cardinality(Catalog[a].sources)
<1> DEFINE X == Catalog[a].sources
           own == {<<a, source>> : source \in X}
<1>1. IsFiniteSet(SourcesOf(A))
  <2> DEFINE sets == {{<<b, source>> : source \in Catalog[b].sources} : b \in A}
             f == [b \in A |-> {<<b, source>> : source \in Catalog[b].sources}]
  <2>1. IsFiniteSet(A)
    BY OrderAssumption, FS_Subset
  <2>2. f \in Surjection(A, sets)
    BY DEF Surjection
  <2>3. IsFiniteSet(sets)
    <3> HIDE DEF f, sets
    <3> QED BY <2>1, <2>2, FS_Surjection
  <2>4. ASSUME NEW b \in A PROVE IsFiniteSet({<<b, source>> : source \in Catalog[b].sources})
    <3> DEFINE T == {<<b, source>> : source \in Catalog[b].sources}
               h == [source \in Catalog[b].sources |-> <<b, source>>]
    <3>1. h \in Surjection(Catalog[b].sources, T)
      BY DEF Surjection
    <3>2. IsFiniteSet(Catalog[b].sources)
      BY GraphAssumption
    <3> HIDE DEF h, T
    <3> QED BY <3>1, <3>2, FS_Surjection DEF T
  <2>5. \A Y \in sets : IsFiniteSet(Y)
    BY <2>4
  <2>6. IsFiniteSet(UNION sets)
    <3> HIDE DEF sets
    <3> QED BY <2>3, <2>5, FS_UNION
  <2> QED BY <2>6 DEF SourcesOf
<1>2. IsFiniteSet(own) /\ Cardinality(own) = Cardinality(X) /\ Cardinality(X) \in Nat
  <2> DEFINE f == [source \in X |-> <<a, source>>]
  <2>1. IsFiniteSet(X)
    BY GraphAssumption
  <2>2. f \in Surjection(X, own) /\ f \in Injection(X, own)
    BY DEF Surjection, Injection, IsInjective
  <2> HIDE DEF f, own, X
  <2> QED BY <2>1, <2>2, FS_Surjection, FS_CardinalityType
<1>3. SourcesOf(A \cup {a}) = SourcesOf(A) \cup own
  BY DEF SourcesOf
<1>4. SourcesOf(A) \cap own = {}
  BY DEF SourcesOf
<1>5. Cardinality(SourcesOf(A) \cap own) = 0
  BY <1>4, FS_EmptySet
<1> HIDE DEF own, X
<1>6. Cardinality(SourcesOf(A)) \in Nat
  BY <1>1, FS_CardinalityType
<1>7. Cardinality(SourcesOf(A) \cup own)
        = Cardinality(SourcesOf(A)) + Cardinality(own) - Cardinality(SourcesOf(A) \cap own)
  BY <1>1, <1>2, FS_Union
<1>8. Cardinality(SourcesOf(A \cup {a})) = Cardinality(SourcesOf(A)) + Cardinality(X)
  <2>1. PICK all, one, two, none : /\ all = Cardinality(SourcesOf(A) \cup own)
                                   /\ one = Cardinality(SourcesOf(A))
                                   /\ two = Cardinality(own)
                                   /\ none = Cardinality(SourcesOf(A) \cap own)
    OBVIOUS
  <2>2. all = one + two - none /\ none = 0 /\ one \in Nat /\ two \in Nat
    BY <1>2, <1>5, <1>6, <1>7, <2>1, Zenon
  <2>3. all = one + two
    BY <2>2
  <2> QED BY <1>2, <1>3, <2>1, <2>3, Zenon
<1> QED BY <1>2, <1>6, <1>8 DEF X

Graphs == [nodes : Nat, edges : Nat, assets : Nat,
           reasons : SUBSET {"asset_limit", "node_limit", "edge_limit"}]

\* What is said of a graph of which `done` assets of `here` have been looked at.
HonestGraph(graph, limited, done, wanted) ==
  /\ graph \in Graphs
  /\ graph.nodes <= GraphNodes /\ graph.edges <= GraphEdges
  /\ graph.assets <= done /\ graph.edges <= wanted
  /\ graph.reasons = {} <=> ~limited /\ graph.assets = done /\ graph.edges = wanted

LEMMA GraphStepHonest ==
  ASSUME NEW graph \in Graphs, NEW a \in Assets, NEW limited \in BOOLEAN, NEW done \in Nat,
         NEW wanted \in Nat, HonestGraph(graph, limited, done, wanted)
  PROVE  HonestGraph(GraphStep(graph, a), limited, done + 1,
                     wanted + Cardinality(Catalog[a].sources))
<1> DEFINE w == Cardinality(Catalog[a].sources)
           room == Min({GraphNodes - graph.nodes - 1, GraphEdges - graph.edges})
           added == Min({w, room})
           nodes == graph.nodes + 1 + added
           edges == graph.edges + added
           skipped == IF added = w THEN {}
                      ELSE (IF nodes >= GraphNodes THEN {"node_limit"} ELSE {})
                             \cup (IF edges >= GraphEdges THEN {"edge_limit"} ELSE {})
<1>1. w \in Nat
  BY GraphAssumption, FS_CardinalityType
<1>2. /\ graph.nodes \in Nat /\ graph.edges \in Nat /\ graph.assets \in Nat
      /\ GraphNodes \in Nat \ {0} /\ GraphEdges \in Nat \ {0}
      /\ graph.reasons \subseteq {"asset_limit", "node_limit", "edge_limit"}
      /\ graph.nodes <= GraphNodes /\ graph.edges <= GraphEdges
  BY GraphAssumption DEF Graphs, HonestGraph
<1>3. CASE graph.nodes >= GraphNodes
  <2>1. GraphStep(graph, a) = [graph EXCEPT !.reasons = @ \cup {"node_limit"}]
    BY <1>3 DEF GraphStep
  <2> QED BY <1>1, <1>2, <2>1 DEF HonestGraph, Graphs
<1>4. CASE ~(graph.nodes >= GraphNodes)
  <2> DEFINE g == [nodes |-> nodes, edges |-> edges, assets |-> graph.assets + 1,
                   reasons |-> graph.reasons \cup skipped]
  <2>1. GraphStep(graph, a) = g
    BY <1>4 DEF GraphStep
  <2>2. /\ room \in Nat /\ room <= GraphNodes - graph.nodes - 1
        /\ room <= GraphEdges - graph.edges
        /\ room = GraphNodes - graph.nodes - 1 \/ room = GraphEdges - graph.edges
    <3>1. GraphNodes - graph.nodes - 1 \in Nat /\ GraphEdges - graph.edges \in Nat
      BY <1>2, <1>4
    <3> QED BY <3>1, MinOfTwo
  <2> HIDE DEF room
  <2>3. added \in Nat /\ added <= w /\ added <= room /\ (added = w \/ added = room)
    BY <1>1, <2>2, MinOfTwo
  <2> HIDE DEF added, w
  <2>4. skipped = {} <=> added = w
    BY <1>2, <2>2, <2>3
  <2>5. skipped \subseteq {"node_limit", "edge_limit"}
    OBVIOUS
  <2>6. /\ nodes \in Nat /\ edges \in Nat /\ nodes <= GraphNodes /\ edges <= GraphEdges
        /\ edges <= wanted + w
        /\ edges = wanted + w <=> graph.edges = wanted /\ added = w
    BY <1>1, <1>2, <2>2, <2>3 DEF HonestGraph
  <2> HIDE DEF nodes, edges, skipped
  <2>7. g \in Graphs
    <3>1. graph.reasons \cup skipped \in SUBSET {"asset_limit", "node_limit", "edge_limit"}
      BY <1>2, <2>5
    <3>2. graph.assets + 1 \in Nat
      BY <1>2
    <3> QED BY <2>6, <3>1, <3>2 DEF Graphs
  <2>8. /\ graph.assets <= done /\ graph.edges <= wanted
        /\ graph.reasons = {} <=> ~limited /\ graph.assets = done /\ graph.edges = wanted
    BY DEF HonestGraph
  <2>9. graph.assets + 1 <= done + 1 /\ (graph.assets + 1 = done + 1 <=> graph.assets = done)
    BY <1>2, <2>8
  <2>10. g.reasons = {} <=> graph.reasons = {} /\ added = w
    BY <2>4
  <2>11. g.nodes = nodes /\ g.edges = edges /\ g.assets = graph.assets + 1
    OBVIOUS
  <2> HIDE DEF g
  <2>12. HonestGraph(g, limited, done + 1, wanted + w)
    BY <2>6, <2>7, <2>8, <2>9, <2>10, <2>11 DEF HonestGraph
  <2> QED BY <2>1, <2>12 DEF w
<1> QED BY <1>3, <1>4

LEMMA EvidenceGraphHonest ==
  ASSUME NEW here \in SUBSET Assets
  PROVE  LET graph == EvidenceGraph(here)
         IN  /\ graph.nodes <= GraphNodes /\ graph.edges <= GraphEdges
             /\ graph.reasons = {} <=>
                  /\ graph.assets = Cardinality(here)
                  /\ graph.edges = Cardinality(SourcesOf(here))
<1> DEFINE n == Cardinality(here)
           limited == n > GraphAssets
           taken == IF limited THEN GraphAssets ELSE n
           start == [nodes |-> 0, edges |-> 0, assets |-> 0,
                     reasons |-> IF limited THEN {"asset_limit"} ELSE {}]
           Grows(graph) == graph = [i \in 0..taken |->
                             IF i = 0 THEN start
                                      ELSE GraphStep(graph[i - 1], IdAt(here, i))]
           graph == CHOOSE g : Grows(g)
           wanted(i) == Cardinality(SourcesOf(FirstOf(here, i)))
<1>1. EvidenceGraph(here) = graph[taken]
  BY DEF EvidenceGraph
<1>2. n \in Nat /\ taken \in Nat /\ taken <= n /\ GraphAssets \in Nat
  BY IdsInOrder, GraphAssumption
<1>3. \A i \in 1..taken : IdAt(here, i) \in Assets
  BY <1>2, IdsInOrder
<1> DEFINE Small == {g \in Graphs : g.nodes <= GraphNodes /\ g.edges <= GraphEdges}
<1>4. start \in Small
  BY GraphAssumption DEF Graphs
<1>5. ASSUME NEW g \in Small, NEW a \in Assets PROVE GraphStep(g, a) \in Small
  <2>1. g \in Graphs /\ g.assets \in Nat /\ g.edges \in Nat
    BY DEF Graphs
  <2>2. PICK full \in BOOLEAN : full <=> g.reasons # {}
    OBVIOUS
  <2>3. HonestGraph(g, full, g.assets, g.edges)
    BY <2>1, <2>2 DEF HonestGraph
  <2>4. HonestGraph(GraphStep(g, a), full, g.assets + 1,
                    g.edges + Cardinality(Catalog[a].sources))
    BY <2>1, <2>3, GraphStepHonest
  <2> QED BY <2>4 DEF HonestGraph
<1>6. \E g : Grows(g)
  <2> DEFINE f == [p \in Small \X (1..taken) |-> GraphStep(p[1], IdAt(here, p[2]))]
  <2>1. f \in [Small \X (1..taken) -> Small]
    BY <1>3, <1>5
  <2>2. \E g \in [0..taken -> Small] :
           g[0] = start /\ \A i \in 1..taken : g[i] = f[<<g[i - 1], i>>]
    <3> HIDE DEF f, start, taken, Small
    <3>1. \E g \in [0..taken -> Small] : Iterates(g, taken, start, f)
      BY <1>2, <1>4, <2>1, Recursion
    <3> QED BY <3>1 DEF Iterates
  <2>3. PICK g \in [0..taken -> Small] :
           g[0] = start /\ \A i \in 1..taken : g[i] = f[<<g[i - 1], i>>]
    BY <2>2
  <2>4. \A i \in 1..taken : f[<<g[i - 1], i>>] = GraphStep(g[i - 1], IdAt(here, i))
    <3>1. SUFFICES ASSUME NEW i \in 1..taken
                   PROVE  f[<<g[i - 1], i>>] = GraphStep(g[i - 1], IdAt(here, i))
      OBVIOUS
    <3>2. g[i - 1] \in Small
      <4>1. i - 1 \in 0..taken
        BY <1>2
      <4> HIDE DEF Small, taken
      <4> QED BY <2>3, <4>1
    <3> HIDE DEF Small, taken
    <3> QED BY <3>2
  <2> HIDE DEF f, start, taken
  <2>5. Grows(g)
    <3>1. \A i \in 0..taken : i # 0 => i \in 1..taken
      BY <1>2
    <3>2. \A i \in 0..taken : g[i] = IF i = 0 THEN start
                                     ELSE GraphStep(g[i - 1], IdAt(here, i))
      BY <2>3, <2>4, <3>1
    <3>3. g = [i \in 0..taken |-> g[i]]
      BY <2>3
    <3> QED BY <3>2, <3>3
  <2> QED BY <2>5
<1>7. Grows(graph)
  BY <1>6
<1> HIDE DEF graph
<1> DEFINE T == {i \in 0..taken : HonestGraph(graph[i], limited, i, wanted(i))}
<1>8. 0 \in T
  <2>1. graph[0] = start /\ 0 \in 0..taken
    BY <1>2, <1>7
  <2>2. wanted(0) = 0
    <3>1. SourcesOf({}) = {}
      BY DEF SourcesOf
    <3> QED BY <3>1, IdsInOrder, FS_EmptySet
  <2>3. HonestGraph(start, limited, 0, 0)
    BY GraphAssumption DEF HonestGraph, Graphs
  <2> HIDE DEF start, wanted, limited, taken
  <2> QED BY <2>1, <2>2, <2>3
<1>9. ASSUME NEW i \in 0..(taken - 1), i \in T PROVE i + 1 \in T
  <2>1. /\ i \in Nat /\ i + 1 \in 0..taken /\ i + 1 \in 1..taken /\ i + 1 \in 1..n
        /\ i + 1 # 0 /\ (i + 1) - 1 = i
    BY <1>2
  <2>2. PICK a \in Assets : a = IdAt(here, i + 1)
    BY <1>3, <2>1
  <2>3. graph[i + 1] = GraphStep(graph[i], a)
    <3> HIDE DEF taken, start
    <3> QED BY <1>7, <2>1, <2>2
  <2>4. /\ FirstOf(here, i + 1) = FirstOf(here, i) \cup {a} /\ a \notin FirstOf(here, i)
        /\ FirstOf(here, i) \in SUBSET Assets
    <3>1. FirstOf(here, i) \in SUBSET Assets
      BY DEF FirstOf
    <3>2. \A k \in 1..n : /\ IdAt(here, k) \notin FirstOf(here, k - 1)
                          /\ FirstOf(here, k) = FirstOf(here, k - 1) \cup {IdAt(here, k)}
      BY IdsInOrder
    <3> HIDE DEF n
    <3> QED BY <2>1, <2>2, <3>1, <3>2
  <2>5. wanted(i) \in Nat /\ wanted(i + 1) = wanted(i) + Cardinality(Catalog[a].sources)
    BY <2>4, SourcesAdd
  <2>6. limited \in BOOLEAN
    OBVIOUS
  <2>7. HonestGraph(graph[i], limited, i, wanted(i))
    BY <1>9
  <2> HIDE DEF limited, taken, wanted
  <2>8. graph[i] \in Graphs
    BY <2>7 DEF HonestGraph
  <2>9. HonestGraph(graph[i + 1], limited, i + 1, wanted(i + 1))
    BY <2>1, <2>3, <2>5, <2>6, <2>7, <2>8, GraphStepHonest
  <2> QED BY <2>1, <2>9
<1>10. taken \in T
  <2>1. taken \in 0..taken
    BY <1>2
  <2> HIDE DEF T, taken
  <2> QED BY <1>2, <1>8, <1>9, <2>1, UpTo
<1>11. HonestGraph(graph[taken], limited, taken, wanted(taken))
  BY <1>10
<1>12. PICK g : g = graph[taken]
  OBVIOUS
<1>13. CASE limited
  <2>1. g.assets \in Nat /\ g.assets <= GraphAssets /\ g.reasons # {}
    BY <1>11, <1>12, <1>13 DEF HonestGraph, Graphs
  <2>2. g.assets # n
    BY <1>2, <1>13, <2>1
  <2>3. g.nodes <= GraphNodes /\ g.edges <= GraphEdges
    BY <1>11, <1>12 DEF HonestGraph
  <2> QED BY <1>1, <1>12, <2>1, <2>2, <2>3
<1>14. CASE ~limited
  <2>1. taken = n /\ wanted(taken) = Cardinality(SourcesOf(here))
    BY <1>14, IdsInOrder
  <2>2. /\ g.nodes <= GraphNodes /\ g.edges <= GraphEdges
        /\ g.reasons = {} <=> g.assets = n /\ g.edges = Cardinality(SourcesOf(here))
    BY <1>11, <1>12, <1>14, <2>1 DEF HonestGraph
  <2> QED BY <1>1, <1>12, <2>2
<1> QED BY <1>13, <1>14

\* The evidence graph, of a scan or of one asset, keeps its limits and gives a reason
\* exactly if an asset or a source of what was asked for is missing from it, for any
\* catalogue and any limits.
THEOREM GraphsAreHonest == ReviewSpec => []GraphIsHonest
<1>1. ReadersInv => GraphIsHonest
  <2> SUFFICES ASSUME ReadersInv, NEW r \in Readers, NEW x, x = read[r], x.pc = "done",
                      Drawn(x), x.counts # NoValue, NEW here, here = Asked(x.query, x.scan)
               PROVE  /\ x.counts.nodes <= GraphNodes /\ x.counts.edges <= GraphEdges
                      /\ x.counts.reasons = {} <=>
                           /\ x.counts.assets = Cardinality(here)
                           /\ x.counts.edges = Cardinality(SourcesOf(here))
    BY DEF GraphIsHonest, Drawn
  <2>1. x.scan \in completed /\ x.counts = EvidenceGraph(Named(x.query, x.scan))
    BY DEF ReadersInv, ReaderOK
  <2>2. here = Named(x.query, x.scan) /\ here \in SUBSET Assets
    BY <2>1, ContentOfScan, ContentFinite DEF Asked, Named
  <2> QED BY <2>1, <2>2, EvidenceGraphHonest
<1> QED BY ReviewStarts, ReviewStep, ReadersStart, ReadersStep, <1>1, PTL DEF ReviewSpec
=============================================================================
