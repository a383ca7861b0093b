--------------------------- MODULE MatchingProofs ---------------------------
(***************************************************************************)
(* Discovery assurance, for every repository, scan and ground truth: the   *)
(* Hungarian algorithm of the evaluation finds a best pairing.             *)
(***************************************************************************)
EXTENDS Assurance, DataLemmas

Indexed(seq) == Len(seq) \in Nat /\ DOMAIN seq = 1..Len(seq)

-----------------------------------------------------------------------------
\* The matching.  Everything is said of the rows and columns and of the slack of
\* each pair: its cost less the two potentials.
RowCount == Len(Rows)
ColumnCount == Len(Columns)
Costs == [r \in 1..RowCount |-> [c \in 1..ColumnCount |-> Cost(r, c)]]
Slack(r, c) == Costs[r][c] - u[r] - v[c]

Sides == Indexed(expected) /\ Indexed(actual)

MatchingTypes ==
  /\ row \in 0..RowCount
  /\ u \in [0..RowCount -> Int] /\ v \in [0..ColumnCount -> Int]
  /\ p \in [0..ColumnCount -> 0..RowCount]
  /\ way \in [0..ColumnCount -> 0..ColumnCount]
  /\ used \in [0..ColumnCount -> BOOLEAN]
  /\ minimum \in [0..ColumnCount -> Int \cup {Infinity}]
  /\ column_zero \in 0..ColumnCount

\* The potentials bound the cost of the rows that were entered, and a column that
\* is not matched has never paid.
Feasible(top) == \A r \in 1..top, c \in 1..ColumnCount : Slack(r, c) >= 0
Paid == \A c \in 1..ColumnCount : v[c] <= 0 /\ (p[c] = 0 => v[c] = 0)

\* The columns of S have different rows, each at no slack, and all rows there are.
Assigned(S) ==
  /\ \A c \in S : p[c] <= row
  /\ \A c, d \in S : p[c] = p[d] /\ p[c] # 0 => c = d
  /\ \A c \in S \ {0}, r \in 1..RowCount : p[c] = r => Slack(r, c) = 0
  /\ \A r \in 1..row : \E c \in S : p[c] = r

\* The tree of the columns that were reached, by the order in which they were: each
\* was reached from an earlier one, at no slack to that one's row.
Reached(c) == used[c] \/ c = column_zero
Leads(rank) ==
  \A c \in 1..ColumnCount : Reached(c) /\ rank[c] <= rank[column_zero] =>
    /\ used[way[c]] /\ rank[way[c]] < rank[c]
    /\ p[way[c]] # 0 /\ \A r \in 1..RowCount : p[way[c]] = r => Slack(r, c) = 0
Ranks == [0..ColumnCount -> Nat]

\* A new row is in column 0; a column outside the tree knows its least slack to the
\* rows of the tree, once there are any.
Growing ==
  /\ row # 0 /\ p[0] = row /\ p[column_zero] # 0 /\ ~used[column_zero]
  /\ \A c \in 0..ColumnCount : used[c] => p[c] # 0
  /\ \E rank \in Ranks :
       Leads(rank) /\ \A c \in 0..ColumnCount : used[c] => rank[c] < rank[column_zero]
  /\ \/ /\ column_zero = 0 /\ Feasible(row - 1)
        /\ \A c \in 0..ColumnCount : ~used[c] /\ minimum[c] = Infinity
     \/ /\ column_zero # 0 /\ used[0] /\ Feasible(row)
        /\ \A c \in 1..ColumnCount : ~used[c] =>
             /\ minimum[c] \in Nat
             /\ used[way[c]]
             /\ \A r \in 1..RowCount : p[way[c]] = r => minimum[c] = Slack(r, c)
             /\ \A d \in 0..ColumnCount, r \in 1..RowCount :
                  used[d] /\ p[d] = r => minimum[c] <= Slack(r, c)

MatchingInv ==
  /\ Sides /\ MatchingTypes /\ Paid
  /\ stage = "rows" => column_zero = 0
  /\ stage \in {"rows", "augment"} =>
       Feasible(row) /\ Assigned(0..ColumnCount \ {column_zero})
  /\ stage = "grow" => Assigned(0..ColumnCount) /\ Growing
  /\ stage = "augment" =>
       /\ column_zero # 0
       /\ \E rank \in Ranks : Leads(rank)

\* What is left when all rows are in.
Best ==
  /\ Sides /\ MatchingTypes /\ row = RowCount /\ Paid /\ Feasible(RowCount)
  /\ Assigned(1..ColumnCount)

EvaluationInv ==
  /\ stage \in {"asked", "rows", "grow", "augment", "matched", "done", "refused"}
  /\ half = "evaluation" /\ stage = "asked" => truth \in Truths /\ assets \in ScanAssets
  /\ half = "scan" => stage = "asked"
  /\ stage = "asked" => ~report.available
  /\ stage \in {"rows", "grow", "augment"} => MatchingInv
  /\ stage = "matched" => Best
  /\ MatchingIsBest
-----------------------------------------------------------------------------
\* Parts of sequences.

\* A function on 1..k is a sequence of length k.
LEMMA FunctionsAreIndexed ==
  ASSUME NEW k \in Nat, NEW f, f = [i \in 1..k |-> f[i]]
  PROVE  Indexed(f) /\ Len(f) = k
<1>1. f \in Seq({f[i] : i \in 1..k})
  OBVIOUS
<1> QED BY <1>1 DEF Indexed

\* The numbers of a finite set, in their order.
LEMMA Numbered ==
  ASSUME NEW S \in SUBSET Int, IsFiniteSet(S)
  PROVE  /\ Cardinality(S) \in Nat
         /\ \A k \in 1..Cardinality(S) : /\ At(S, k) \in S
                                         /\ Cardinality({j \in S : j <= At(S, k)}) = k
         /\ \A k, l \in 1..Cardinality(S) : At(S, k) = At(S, l) => k = l
         /\ \A i \in S : \E k \in 1..Cardinality(S) : At(S, k) = i
<1> DEFINE R == {x \in S \X S : x[1] < x[2]}
           upto(i) == {j \in S : j <= i}
<1>1. Orders(R, S)
  BY DEF Orders
<1>2. ASSUME NEW i \in S
      PROVE  Cardinality(upto(i)) = 1 + Cardinality(Below(R, S, i))
  <2>1. \A b \in S : <<b, i>> \in R <=> b < i
    OBVIOUS
  <2> HIDE DEF R
  <2>2. PICK low : low = Below(R, S, i)
    OBVIOUS
  <2>3. upto(i) = low \cup {i} /\ i \notin low /\ low \in SUBSET S
    <3>1. i \in Int /\ \A b \in S : b \in Int /\ (b \in low <=> b < i)
      BY <2>1, <2>2 DEF Below
    <3>2. low \in SUBSET S
      BY <2>2 DEF Below
    <3>3. \A b \in S : b \in upto(i) <=> b \in low \/ b = i
      BY <3>1
    <3>4. upto(i) \in SUBSET S
      OBVIOUS
    <3> HIDE DEF upto
    <3>5. i \notin low
      BY <3>1
    <3>6. \A b : b \in upto(i) <=> b \in low \cup {i}
      BY <3>2, <3>3, <3>4
    <3> QED BY <3>2, <3>5, <3>6
  <2>4. IsFiniteSet(low)
    BY <2>3, FS_Subset
  <2>5. Cardinality(low \cup {i}) = Cardinality(low) + 1
    BY <2>3, <2>4, FS_AddElement
  <2>6. Cardinality(low) \in Nat
    BY <2>4, FS_CardinalityType
  <2> HIDE DEF upto
  <2> QED BY <2>2, <2>3, <2>5, <2>6
<1>3. Cardinality(S) \in Nat
  BY FS_CardinalityType
<1> HIDE DEF R
<1>4. /\ \A i, j \in S : Cardinality(upto(i)) = Cardinality(upto(j)) => i = j
      /\ \A k \in 1..Cardinality(S) : \E i \in S : Cardinality(upto(i)) = k
      /\ \A i \in S : Cardinality(upto(i)) \in 1..Cardinality(S)
  <2>1. /\ \A i, j \in S : Cardinality(Below(R, S, i)) = Cardinality(Below(R, S, j)) => i = j
        /\ \A k \in 1..Cardinality(S) : \E i \in S : 1 + Cardinality(Below(R, S, i)) = k
        /\ \A i \in S : /\ Cardinality(Below(R, S, i)) \in Nat
                         /\ 1 + Cardinality(Below(R, S, i)) \in 1..Cardinality(S)
    BY <1>1, Places
  <2> QED BY <1>2, <2>1
<1>5. ASSUME NEW k \in 1..Cardinality(S)
      PROVE  At(S, k) \in S /\ Cardinality(upto(At(S, k))) = k
  BY <1>4 DEF At
<1>6. \A k, l \in 1..Cardinality(S) : At(S, k) = At(S, l) => k = l
  BY <1>5
<1>7. ASSUME NEW i \in S PROVE \E k \in 1..Cardinality(S) : At(S, k) = i
  <2>1. PICK k : k = Cardinality(upto(i))
    OBVIOUS
  <2>2. k \in 1..Cardinality(S)
    BY <1>4, <2>1
  <2> QED BY <1>4, <1>5, <2>1, <2>2
<1> QED BY <1>3, <1>5, <1>6, <1>7

\* A part of a sequence is a sequence, of the elements at the indices that were
\* chosen, each once.
LEMMA PartsAreIndexed ==
  ASSUME NEW seq, Indexed(seq), NEW S \in SUBSET (DOMAIN seq)
  PROVE  /\ Indexed(Selected(seq, S))
         /\ ToSet(Selected(seq, S)) = {seq[i] : i \in S}
         /\ \A k \in DOMAIN Selected(seq, S) : /\ At(S, k) \in S
                                              /\ Selected(seq, S)[k] = seq[At(S, k)]
         /\ \A k, l \in DOMAIN Selected(seq, S) : At(S, k) = At(S, l) => k = l
<1>1. IsFiniteSet(S) /\ S \in SUBSET Int
  <2>1. Len(seq) \in Nat /\ DOMAIN seq = 1..Len(seq)
    BY DEF Indexed
  <2>2. ASSUME NEW k \in Nat PROVE IsFiniteSet(1..k)
    BY FS_Interval
  <2>3. IsFiniteSet(DOMAIN seq)
    BY <2>1, <2>2
  <2>4. IsFiniteSet(S)
    BY <2>3, FS_Subset
  <2> QED BY <2>1, <2>4
<1>2. /\ Cardinality(S) \in Nat
      /\ \A k \in 1..Cardinality(S) : At(S, k) \in S
      /\ \A k, l \in 1..Cardinality(S) : At(S, k) = At(S, l) => k = l
      /\ \A i \in S : \E k \in 1..Cardinality(S) : At(S, k) = i
  BY <1>1, Numbered
<1>3. PICK part : part = Selected(seq, S)
  OBVIOUS
<1>4. part = [k \in 1..Cardinality(S) |-> seq[At(S, k)]]
  BY <1>3 DEF Selected
<1>5. Indexed(part)
  BY <1>2, <1>4, FunctionsAreIndexed
<1>6. ToSet(part) = {seq[i] : i \in S}
  BY <1>2, <1>4 DEF ToSet
<1> QED BY <1>2, <1>3, <1>4, <1>5, <1>6

-----------------------------------------------------------------------------
\* The rows and columns.

\* The side with fewer operations makes the rows.
LEMMA SidesMeet ==
  ASSUME Sides
  PROVE  /\ RowCount \in Nat /\ ColumnCount \in Nat /\ RowCount <= ColumnCount
         /\ IF Swapped THEN RowCount = Len(actual) /\ ColumnCount = Len(expected)
            ELSE RowCount = Len(expected) /\ ColumnCount = Len(actual)
  BY DEF Sides, Indexed, RowCount, ColumnCount, Rows, Columns, Swapped

\* The scores there are: -2 across components, 100 and more only of one usage, nothing
\* between 0 and 100.  The swap argument below rests on the gap.
LEMMA ScoresAreNumbers ==
  ASSUME NEW e, NEW a
  PROVE  /\ MatchScore(e, a) \in Int
         /\ MatchScore(e, a) >= -2
         /\ MatchScore(e, a) = -2 <=> e.component # a.component
         /\ e.component = a.component /\ e.usage = a.usage <=> MatchScore(e, a) >= 100
         /\ MatchScore(e, a) < 100 => MatchScore(e, a) <= 0
  BY DEF MatchScore

\* The cost of a pair is a number,
LEMMA CostsAreNumbers ==
  ASSUME NEW r \in 1..RowCount, NEW c \in 1..ColumnCount
  PROVE  Costs[r][c] \in Int /\ Costs[r][c] = Cost(r, c)
<1>1. Cost(r, c) \in Int
  BY ScoresAreNumbers DEF Cost
<1> QED BY <1>1 DEF Costs

\* and so is its slack.
LEMMA SlacksAreNumbers ==
  ASSUME Sides, MatchingTypes, NEW r \in 1..RowCount, NEW c \in 1..ColumnCount
  PROVE  Slack(r, c) \in Int
<1>1. RowCount \in Nat /\ ColumnCount \in Nat
  BY SidesMeet
<1>2. u \in [0..RowCount -> Int] /\ v \in [0..ColumnCount -> Int]
  BY DEF MatchingTypes
<1>3. r \in 0..RowCount /\ c \in 0..ColumnCount
  BY <1>1
<1>4. u[r] \in Int /\ v[c] \in Int
  BY <1>2, <1>3
<1> QED BY <1>4, CostsAreNumbers DEF Slack

\* The operations stay what they are while they are matched.
LEMMA SidesStay ==
  ASSUME UNCHANGED <<expected, actual>>
  PROVE  /\ RowCount' = RowCount /\ ColumnCount' = ColumnCount /\ Costs' = Costs
         /\ Sides' = Sides
  BY DEF RowCount, ColumnCount, Costs, Cost, Rows, Columns, Swapped, Sides, Indexed

\* The next row enters through column 0, and keeps the assignment of the rows before it.
LEMMA RowAdded ==
  ASSUME stage = "rows", MatchingInv, AddRow, row < RowCount
  PROVE  MatchingInv'
<1> DEFINE n == ColumnCount
<1>1. Sides /\ MatchingTypes /\ Paid /\ column_zero = 0 /\ Feasible(row) /\ Assigned(0..n \ {0})
  BY DEF MatchingInv
<1>2. /\ n \in Nat /\ RowCount \in Nat
      /\ RowCount' = RowCount /\ ColumnCount' = n /\ Costs' = Costs /\ Sides'
  BY <1>1, SidesMeet, SidesStay DEF AddRow
<1>3. /\ row' = row + 1 /\ p' = [p EXCEPT ![0] = row + 1] /\ column_zero' = 0
      /\ minimum' = [c \in 0..n |-> Infinity] /\ used' = [c \in 0..n |-> FALSE]
      /\ stage' = "grow" /\ u' = u /\ v' = v /\ way' = way
  BY DEF AddRow, Lines, RowCount, ColumnCount
<1> HIDE DEF n
<1>4. /\ row \in 0..RowCount /\ p \in [0..n -> 0..RowCount] /\ 0 \in 0..n
  BY <1>1, <1>2 DEF MatchingTypes, n
<1>5. p'[0] = row + 1 /\ \A c \in 0..n \ {0} : p'[c] = p[c] /\ p[c] <= row
  BY <1>1, <1>3, <1>4 DEF Assigned
<1>6. MatchingTypes'
  <2>1. /\ row' \in 0..RowCount /\ p' \in [0..n -> 0..RowCount] /\ column_zero' \in 0..n
        /\ minimum' \in [0..n -> Int \cup {Infinity}] /\ used' \in [0..n -> BOOLEAN]
    BY <1>2, <1>3, <1>4
  <2>2. /\ u' \in [0..RowCount -> Int] /\ v' \in [0..n -> Int] /\ way' \in [0..n -> 0..n]
    BY <1>1, <1>3, Zenon DEF MatchingTypes, n
  <2> QED BY <1>2, <2>1, <2>2, Zenon DEF MatchingTypes
<1>7. Paid'
  BY <1>1, <1>2, <1>3, <1>5 DEF Paid, n
<1>8. \A r \in 1..RowCount, c \in 1..n : Slack(r, c)' = Slack(r, c)
  BY <1>2, <1>3 DEF Slack
<1>9. Assigned(0..ColumnCount)'
  <2>1. \A c \in (0..n) \ {0}, r \in 1..RowCount : p'[c] = r => Slack(r, c)' = 0
    <3>1. \A c \in (0..n) \ {0} : c \in 1..n
      BY <1>2
    <3> QED BY <1>1, <1>5, <1>8, <3>1 DEF Assigned
  <2>2. \A r \in 1..(row + 1) : \E c \in 0..n : p'[c] = r
    BY <1>1, <1>4, <1>5 DEF Assigned
  <2>3. \A c, d \in 0..n : p'[c] = p'[d] /\ p'[c] # 0 => c = d
    BY <1>1, <1>4, <1>5 DEF Assigned
  <2>4. \A c \in 0..n : p'[c] <= row'
    BY <1>3, <1>4, <1>5
  <2> QED BY <1>2, <1>3, <2>1, <2>2, <2>3, <2>4 DEF Assigned
<1>10. Growing'
  <2>0. PICK rank : rank = [c \in 0..n |-> 0]
    OBVIOUS
  <2>1. rank \in Ranks'
    BY <1>2, <2>0 DEF Ranks
  <2>2. Leads(rank)' /\ \A c \in 0..n : used'[c] => rank[c] < rank[column_zero']
    BY <1>2, <1>3, <2>0 DEF Leads, Reached
  <2>3. Feasible(row - 1)'
    <3>1. \A r \in 1..row, c \in 1..n : Slack(r, c) >= 0
      BY <1>1 DEF Feasible, n
    <3>2. \A r \in 1..row, c \in 1..n : Slack(r, c)' >= 0
      BY <1>2, <1>4, <1>8, <3>1
    <3>3. row' - 1 = row
      BY <1>3, <1>4
    <3> QED BY <1>2, <3>2, <3>3 DEF Feasible
  <2> QED BY <1>2, <1>3, <1>4, <1>5, <2>1, <2>2, <2>3 DEF Growing
<1> QED BY <1>2, <1>3, <1>6, <1>7, <1>9, <1>10 DEF MatchingInv

\* After the last row every row has a column and the potentials are feasible for all.
LEMMA MatchingEnds ==
  ASSUME stage = "rows", MatchingInv, AddRow, ~(row < RowCount)
  PROVE  stage' = "matched" /\ Best'
<1> DEFINE n == ColumnCount
<1>1. /\ Sides /\ MatchingTypes /\ Paid /\ Feasible(row)
      /\ Assigned((0..n) \ {0})
  BY DEF MatchingInv
<1>2. n \in Nat /\ RowCount \in Nat /\ row \in 0..RowCount
  BY <1>1, SidesMeet DEF MatchingTypes
<1>3. row = RowCount
  BY <1>2
<1>4. /\ stage' = "matched" /\ UNCHANGED <<expected, actual, matchingVars>>
  BY DEF AddRow, RowCount, matchingVars
<1>5. (0..n) \ {0} = 1..n
  BY <1>2
<1>6. Best
  BY <1>1, <1>3, <1>5 DEF Best
<1>7. /\ RowCount' = RowCount /\ ColumnCount' = n /\ Costs' = Costs /\ Sides'
  BY <1>1, <1>4, SidesStay
<1>8. Best'
  BY <1>4, <1>6, <1>7
  DEF Best, MatchingTypes, Paid, Feasible, Assigned, Slack, matchingVars
<1> QED BY <1>4, <1>8

\* Augment takes the end of the path out of the assignment's debt: the column it leaves
\* gets the row of the column it was reached from, which is reached earlier.
LEMMA PathTurned ==
  ASSUME stage = "augment", MatchingInv, Augment
  PROVE  MatchingInv'
<1> DEFINE n == ColumnCount
<1>1. /\ Sides /\ MatchingTypes /\ Paid /\ column_zero # 0 /\ Feasible(row)
      /\ Assigned((0..n) \ {column_zero})
  BY DEF MatchingInv
<1>2. /\ n \in Nat /\ RowCount \in Nat
      /\ RowCount' = RowCount /\ ColumnCount' = n /\ Costs' = Costs /\ Sides'
  BY <1>1, SidesMeet, SidesStay DEF Augment
<1>3. PICK z, w : z = column_zero /\ w = way[column_zero]
  OBVIOUS
<1>4. /\ p' = [p EXCEPT ![z] = p[w]] /\ column_zero' = w
      /\ stage' = (IF w = 0 THEN "rows" ELSE "augment")
      /\ UNCHANGED <<row, u, v, way, minimum, used>>
  BY <1>3 DEF Augment
<1>5. /\ z \in 1..n /\ w \in 0..n /\ row \in 0..RowCount
      /\ p \in [0..n -> 0..RowCount] /\ way \in [0..n -> 0..n]
  <2>1. /\ column_zero \in 0..n /\ way \in [0..n -> 0..n] /\ row \in 0..RowCount
        /\ p \in [0..n -> 0..RowCount]
    BY <1>1 DEF MatchingTypes
  <2>2. column_zero # 0
    BY <1>1
  <2> HIDE DEF n
  <2>3. way[column_zero] \in 0..n
    BY <2>1
  <2>4. column_zero \in 1..n
    BY <1>2, <2>1, <2>2
  <2> QED BY <1>3, <2>1, <2>3, <2>4
<1>6. PICK rank \in Ranks : Leads(rank)
  BY DEF MatchingInv
<1>7. \A c \in 0..n : rank[c] \in Nat
  BY <1>6 DEF Ranks
<1> HIDE DEF n
<1>8. /\ used[w] /\ rank[w] < rank[z] /\ p[w] # 0
      /\ \A r \in 1..RowCount : p[w] = r => Slack(r, z) = 0
  BY <1>3, <1>5, <1>6, <1>7 DEF Leads, Reached, n
<1>9. w # z
  BY <1>5, <1>7, <1>8
<1>10. p'[z] = p[w] /\ \A c \in (0..n) \ {z} : p'[c] = p[c]
  BY <1>4, <1>5
<1>11. \A r \in 1..RowCount, c \in 1..n : Slack(r, c)' = Slack(r, c)
  BY <1>2, <1>4 DEF Slack
<1>12. MatchingTypes'
  <2>1. p' \in [0..n -> 0..RowCount] /\ column_zero' \in 0..n
    BY <1>4, <1>5
  <2> QED BY <1>1, <1>2, <1>4, <2>1, Zenon DEF MatchingTypes, n
<1>13. Paid'
  BY <1>1, <1>2, <1>4, <1>8, <1>10 DEF Paid, n
<1>14. Feasible(row)'
  BY <1>1, <1>2, <1>4, <1>5, <1>11 DEF Feasible, n
<1>15. Assigned(0..ColumnCount \ {column_zero})'
  <2> DEFINE S == (0..n) \ {z}
             T == (0..n) \ {w}
  <2>1. /\ \A c \in S : p[c] <= row
        /\ \A c, d \in S : p[c] = p[d] /\ p[c] # 0 => c = d
        /\ \A c \in S \ {0}, r \in 1..RowCount : p[c] = r => Slack(r, c) = 0
        /\ \A r \in 1..row : \E c \in S : p[c] = r
    BY <1>1, <1>3 DEF Assigned
  <2>2. \A c \in T : p'[c] <= row
    BY <1>5, <1>9, <1>10, <2>1
  <2>3. \A c, d \in T : p'[c] = p'[d] /\ p'[c] # 0 => c = d
    BY <1>5, <1>9, <1>10, <2>1
  <2>4. \A c \in T \ {0}, r \in 1..RowCount : p'[c] = r => Slack(r, c)' = 0
    <3>1. \A c \in T \ {0} : c \in 1..n
      BY <1>2
    <3> QED BY <1>5, <1>8, <1>10, <1>11, <2>1, <3>1
  <2>5. \A r \in 1..row : \E c \in T : p'[c] = r
    <3> SUFFICES ASSUME NEW r \in 1..row PROVE \E c \in T : p'[c] = r
      OBVIOUS
    <3>1. PICK c \in S : p[c] = r
      BY <2>1
    <3>2. CASE c = w
      BY <1>5, <1>9, <1>10, <3>1, <3>2
    <3>3. CASE c # w
      BY <1>10, <3>1, <3>3
    <3> QED BY <3>2, <3>3
  <2> HIDE DEF S
  <2> QED BY <1>2, <1>4, <2>2, <2>3, <2>4, <2>5 DEF Assigned
<1>16. Leads(rank)'
  <2> SUFFICES ASSUME NEW c \in 1..n, used[c] \/ c = w, rank[c] <= rank[w]
               PROVE  /\ used[way[c]] /\ rank[way[c]] < rank[c]
                      /\ p'[way[c]] # 0
                      /\ \A r \in 1..RowCount : p'[way[c]] = r => Slack(r, c)' = 0
    BY <1>2, <1>4 DEF Leads, Reached
  <2>1. way[c] \in 0..n /\ c \in 0..n
    BY <1>2, <1>5
  <2>2. /\ used[way[c]] /\ rank[way[c]] < rank[c] /\ p[way[c]] # 0
        /\ \A r \in 1..RowCount : p[way[c]] = r => Slack(r, c) = 0
    BY <1>3, <1>5, <1>6, <1>7, <1>8, <2>1 DEF Leads, Reached, n
  <2>3. way[c] # z
    BY <1>5, <1>7, <1>8, <2>1, <2>2
  <2> QED BY <1>10, <1>11, <2>1, <2>2, <2>3
<1>17. \E other \in Ranks' : Leads(other)'
  BY <1>2, <1>6, <1>16 DEF Ranks, n
<1> QED BY <1>2, <1>4, <1>12, <1>13, <1>14, <1>15, <1>17 DEF MatchingInv

\* One turn of the inner loop: `least` is what the loop over the columns leaves in
\* minimum, `delta` the least of it.
TreeGrows(least, delta) ==
  /\ column_zero' \in 1..ColumnCount /\ ~used'[column_zero']
  /\ least \in [0..ColumnCount -> Int \cup {Infinity}]
  /\ delta \in Int /\ delta = least[column_zero']
  /\ way' \in [0..ColumnCount -> 0..ColumnCount]
  /\ \A c \in 0..ColumnCount : used'[c] => way'[c] = way[c]
  /\ \A c \in 1..ColumnCount : ~used'[c] =>
       /\ least[c] \in Int /\ delta <= least[c] /\ used'[way'[c]]
       /\ \A r \in 1..RowCount : p[way'[c]] = r => least[c] = Slack(r, c)
       /\ \A d \in 0..ColumnCount, r \in 1..RowCount :
            used'[d] /\ p[d] = r => least[c] <= Slack(r, c)
  /\ minimum' = [c \in 0..ColumnCount |->
                   IF used'[c] THEN least[c] ELSE least[c] - delta]
  /\ Potentials(used', delta)

\* The code's pass over the columns is a choice of a nearest column outside the tree
\* and of a slack that no column outside the tree undercuts.
LEMMA GrowGrowsTree ==
  ASSUME stage = "grow", MatchingInv, Grow
  PROVE  \E least, delta : TreeGrows(least, delta)
<1> DEFINE n == ColumnCount
           m == RowCount
           marked == [used EXCEPT ![column_zero] = TRUE]
           free == {c \in 1..n : ~marked[c]}
           slack(c) == Cost(p[column_zero], c) - u[p[column_zero]] - v[c]
           better(c) == c \in free /\ (minimum[c] = Infinity \/ slack(c) < minimum[c])
           least == [c \in 0..n |-> IF better(c) THEN slack(c) ELSE minimum[c]]
           Nearest(c) == c \in free /\ \A d \in free : least[c] < least[d]
                                                 \/ (least[c] = least[d] /\ c <= d)
           nearest == CHOOSE c \in free : \A d \in free : least[c] < least[d]
                                                 \/ (least[c] = least[d] /\ c <= d)
<1>1. Sides /\ MatchingTypes /\ Assigned(0..n) /\ Growing
  BY DEF MatchingInv
<1>2. n \in Nat /\ m \in Nat /\ m <= n
  BY <1>1, SidesMeet
<1>3. /\ used' = marked /\ Potentials(marked, least[nearest])
      /\ way' = [c \in 0..n |-> IF better(c) THEN column_zero ELSE way[c]]
      /\ minimum' = [c \in 0..n |->
                       IF marked[c] THEN least[c] ELSE least[c] - least[nearest]]
      /\ column_zero' = nearest
  BY DEF Grow, Lines, ColumnCount
<1>4. /\ column_zero \in 0..n /\ p \in [0..n -> 0..m] /\ way \in [0..n -> 0..n]
      /\ used \in [0..n -> BOOLEAN] /\ minimum \in [0..n -> Int \cup {Infinity}]
      /\ row \in 0..m
  BY <1>1 DEF MatchingTypes
<1>5. PICK z, q : z = column_zero /\ q = p[z]
  OBVIOUS
<1>6. /\ row # 0 /\ q # 0 /\ ~used[z] /\ \A c \in 0..n : used[c] => p[c] # 0
      /\ z # 0 => used[0]
  BY <1>1, <1>5 DEF Growing
<1>7. /\ z \in 0..n /\ q \in 1..m
      /\ \A c \in 0..n : marked[c] <=> (used[c] \/ c = z)
      /\ marked[0] /\ 0 \in 0..n
  <2>1. q \in 1..m
    BY <1>2, <1>4, <1>5, <1>6
  <2>2. \A c \in 0..n : marked[c] <=> (used[c] \/ c = z)
    BY <1>4, <1>5
  <2>3. 0 \in 0..n
    BY <1>2
  <2> HIDE DEF marked
  <2>4. marked[0]
    BY <1>6, <2>2, <2>3, Zenon
  <2> QED BY <1>4, <1>5, <2>1, <2>2, <2>3, <2>4, Zenon
<1>8. \A c \in 1..n : slack(c) \in Int /\ slack(c) = Slack(q, c)
  <2> SUFFICES ASSUME NEW c \in 1..n PROVE slack(c) \in Int /\ slack(c) = Slack(q, c)
    OBVIOUS
  <2>1. Costs[q][c] = Cost(q, c) /\ Slack(q, c) \in Int
    BY <1>1, <1>7, CostsAreNumbers, SlacksAreNumbers
  <2> QED BY <1>5, <2>1 DEF Slack
<1>9. free # {}
  <2> SUFFICES ASSUME free = {} PROVE FALSE
    OBVIOUS
  <2>1. \A c \in 0..n : p[c] # 0
    BY <1>2, <1>5, <1>6, <1>7
  <2>2. PICK f \in [0..n -> 1..row] : \A c \in 0..n : f[c] = p[c]
    <3>0. \A c \in 0..n : p[c] <= row
      BY <1>1 DEF Assigned
    <3>1. \A c \in 0..n : p[c] \in 1..row
      <4>1. \A c \in 0..n : p[c] \in 0..m
        BY <1>4
      <4>2. row \in 0..m
        BY <1>4
      <4> HIDE DEF n, m
      <4> QED BY <1>2, <2>1, <3>0, <4>1, <4>2
    <3>2. [c \in 0..n |-> p[c]] \in [0..n -> 1..row]
      BY <3>1
    <3> QED BY <3>2
  <2>3. IsFiniteSet(0..n) /\ Cardinality(0..n) = n + 1
    BY <1>2, FS_Interval
  <2>4. IsFiniteSet(1..row) /\ Cardinality(1..row) = row
    BY <1>2, <1>4, FS_Interval
  <2>5. f \in Injection(0..n, 1..row)
    <3>1. \A c, d \in 0..n : p[c] = p[d] => c = d
      BY <1>1, <2>1 DEF Assigned
    <3> QED BY <2>2, <3>1 DEF Injection, IsInjective
  <2>6. Cardinality(0..n) <= Cardinality(1..row)
    BY <2>4, <2>5, FS_Injection
  <2> HIDE DEF n, m
  <2> QED BY <1>2, <1>4, <2>3, <2>4, <2>6
<1>10. \A c \in free : least[c] \in Int
  BY <1>2, <1>4, <1>8, InfinityAssumption
<1>11. \E c \in free : Nearest(c)
  <2> HIDE DEF least
  <2>1. IsFiniteSet(free)
    <3>1. IsFiniteSet(1..n) /\ free \in SUBSET (1..n)
      BY <1>2, FS_Interval
    <3> HIDE DEF free
    <3> QED BY <3>1, FS_Subset
  <2>2. PICK lo \in free : \A d \in free : least[lo] <= least[d]
    BY <1>9, <1>10, <2>1, Extremes DEF HasExtremes
  <2>3. PICK c \in {d \in free : least[d] = least[lo]} :
          \A d \in {b \in free : least[b] = least[lo]} : c <= d
    <3>1. {d \in free : least[d] = least[lo]} \in SUBSET Nat
      BY <1>2
    <3>2. {d \in free : least[d] = least[lo]} # {}
      OBVIOUS
    <3> HIDE DEF free
    <3> QED BY <3>1, <3>2, Least
  <2> QED BY <1>10, <2>2, <2>3
<1>12. Nearest(nearest)
  BY <1>11
<1>13. /\ nearest \in free /\ \A d \in free : least[nearest] <= least[d]
  <2>1. nearest \in free /\ \A d \in free : least[nearest] < least[d] \/ least[nearest] = least[d]
    BY <1>12
  <2> HIDE DEF nearest, least, free
  <2> QED BY <1>10, <2>1
<1>14. ASSUME NEW c \in free
       PROVE  /\ marked[way'[c]] /\ way'[c] \in 0..n
              /\ \A r \in 1..m : p[way'[c]] = r => least[c] = Slack(r, c)
              /\ \A d \in 0..n, r \in 1..m : marked[d] /\ p[d] = r => least[c] <= Slack(r, c)
  <2> DEFINE w == way'[c]
  <2>1. c \in 1..n /\ c \in 0..n /\ ~used[c] /\ c # z
    <3>1. c \in 1..n /\ ~marked[c]
      OBVIOUS
    <3>2. c \in 0..n
      BY <1>2, <3>1
    <3> HIDE DEF marked
    <3> QED BY <1>7, <3>1, <3>2, Zenon
  <2>2. w = IF better(c) THEN z ELSE way[c]
    BY <1>3, <1>5, <2>1
  <2>3. least[c] = IF better(c) THEN Slack(q, c) ELSE minimum[c]
    BY <1>8, <2>1
  <2>4. CASE z = 0
    <3>1. minimum[c] = Infinity /\ \A d \in 0..n : ~used[d]
      BY <1>1, <1>5, <2>1, <2>4 DEF Growing
    <3>2. better(c)
      BY <3>1
    <3>3. \A d \in 0..n : marked[d] <=> d = z
      <4> HIDE DEF marked
      <4> QED BY <1>7, <3>1, Zenon
    <3>4. w = z /\ least[c] = Slack(q, c)
      BY <2>2, <2>3, <3>2
    <3>5. Slack(q, c) \in Int
      BY <1>8, <2>1
    <3> HIDE DEF better, least, marked, w
    <3>6. w \in 0..n /\ marked[w]
      BY <1>7, <3>3, <3>4, Zenon
    <3>7. \A r \in 1..m : p[w] = r => least[c] = Slack(r, c)
      BY <1>5, <3>4
    <3>8. \A d \in 0..n, r \in 1..m : marked[d] /\ p[d] = r => least[c] <= Slack(r, c)
      BY <1>5, <3>3, <3>4, <3>5
    <3> QED BY <3>6, <3>7, <3>8 DEF w
  <2>5. CASE z # 0
    <3>1. /\ minimum[c] \in Nat /\ used[way[c]]
          /\ \A r \in 1..m : p[way[c]] = r => minimum[c] = Slack(r, c)
          /\ \A d \in 0..n, r \in 1..m : used[d] /\ p[d] = r => minimum[c] <= Slack(r, c)
      BY <1>1, <1>5, <2>1, <2>5 DEF Growing
    <3>2. Slack(q, c) \in Int /\ slack(c) = Slack(q, c)
      BY <1>8, <2>1
    <3>3. better(c) <=> Slack(q, c) < minimum[c]
      BY <2>1, <3>1, <3>2, InfinityAssumption
    <3>4. /\ least[c] <= minimum[c] /\ least[c] <= Slack(q, c)
          /\ \/ w = z /\ least[c] = Slack(q, c)
             \/ w = way[c] /\ least[c] = minimum[c]
      <4> HIDE DEF better, least, w
      <4> QED BY <2>2, <2>3, <3>1, <3>2, <3>3
    <3>5. \A d \in 0..n : marked[d] <=> (used[d] \/ d = z)
      BY <1>7, Zenon
    <3>6. way[c] \in 0..n
      BY <1>4, <2>1
    <3>7. \A d \in 0..n, r \in 1..m : Slack(r, c) \in Int
      BY <1>1, <2>1, SlacksAreNumbers
    <3> HIDE DEF better, least, marked, w
    <3>8. w \in 0..n /\ marked[w]
      BY <1>7, <3>1, <3>4, <3>5, <3>6
    <3>9. \A r \in 1..m : p[w] = r => least[c] = Slack(r, c)
      BY <1>5, <3>1, <3>4
    <3>10. \A d \in 0..n, r \in 1..m : marked[d] /\ p[d] = r => least[c] <= Slack(r, c)
      BY <1>5, <1>7, <3>1, <3>4, <3>5, <3>7, <1>10
    <3> QED BY <3>8, <3>9, <3>10 DEF w
  <2> QED BY <2>4, <2>5
<1>15. \A c \in 0..n : marked[c] => way'[c] = way[c]
  BY <1>3, <1>4
<1>16. least \in [0..n -> Int \cup {Infinity}]
  BY <1>2, <1>4, <1>8
<1>17. way' \in [0..n -> 0..n]
  BY <1>3, <1>4
<1>18. /\ nearest \in 1..n /\ ~marked[nearest] /\ least[nearest] \in Int
       /\ \A c \in 1..n : ~marked[c] =>
            /\ least[c] \in Int /\ least[nearest] <= least[c] /\ marked[way'[c]]
            /\ \A r \in 1..m : p[way'[c]] = r => least[c] = Slack(r, c)
            /\ \A d \in 0..n, r \in 1..m : marked[d] /\ p[d] = r => least[c] <= Slack(r, c)
  <2>1. \A c \in 1..n : ~marked[c] <=> c \in free
    OBVIOUS
  <2>2. nearest \in 1..n
    BY <1>13
  <2> HIDE DEF nearest, least, free, marked
  <2> QED BY <1>10, <1>13, <1>14, <2>1, <2>2
<1>19. TreeGrows(least, least[nearest])
  <2> HIDE DEF nearest, least, free, marked
  <2> QED BY <1>3, <1>15, <1>16, <1>17, <1>18 DEF TreeGrows
<1> QED BY <1>19

\* Such a choice keeps the potentials feasible and adds a column to the tree.
LEMMA TreeGrown ==
  ASSUME stage = "grow", MatchingInv, Grow, NEW least, NEW delta, TreeGrows(least, delta)
  PROVE  MatchingInv'
<1> DEFINE n == ColumnCount
           m == RowCount
           inTree(r) == \E c \in 0..n : used'[c] /\ p[c] = r
<1>1. Sides /\ MatchingTypes /\ Paid /\ Assigned(0..n) /\ Growing
  BY DEF MatchingInv
<1>2. /\ n \in Nat /\ m \in Nat /\ m <= n
      /\ RowCount' = m /\ ColumnCount' = n /\ Costs' = Costs /\ Sides'
  BY <1>1, SidesMeet, SidesStay DEF Grow
<1>3. PICK z, near : z = column_zero /\ near = column_zero'
  OBVIOUS
<1>4. /\ p' = p /\ row' = row /\ stage' = (IF p[near] = 0 THEN "augment" ELSE "grow")
      /\ used' = [used EXCEPT ![z] = TRUE]
  BY <1>3 DEF Grow
<1>5. /\ u \in [0..m -> Int] /\ v \in [0..n -> Int] /\ p \in [0..n -> 0..m]
      /\ way \in [0..n -> 0..n] /\ used \in [0..n -> BOOLEAN] /\ z \in 0..n
      /\ row \in 0..m
  BY <1>1, <1>3 DEF MatchingTypes
<1>6. /\ row # 0 /\ p[0] = row /\ p[z] # 0 /\ ~used[z] /\ (z # 0 => used[0] /\ Feasible(row))
      /\ (z = 0 => Feasible(row - 1) /\ \A c \in 0..n : ~used[c])
      /\ \A c \in 0..n : used[c] => p[c] # 0
  BY <1>1, <1>3 DEF Growing
<1>7. /\ near \in 1..n /\ ~used'[near] /\ delta \in Int /\ delta = least[near]
      /\ way' \in [0..n -> 0..n]
      /\ \A c \in 0..n : used'[c] => way'[c] = way[c]
      /\ \A c \in 1..n : ~used'[c] =>
           /\ least[c] \in Int /\ delta <= least[c] /\ used'[way'[c]]
           /\ \A r \in 1..m : p[way'[c]] = r => least[c] = Slack(r, c)
           /\ \A d \in 0..n, r \in 1..m : used'[d] /\ p[d] = r => least[c] <= Slack(r, c)
      /\ minimum' = [c \in 0..n |-> IF used'[c] THEN least[c] ELSE least[c] - delta]
      /\ least \in [0..n -> Int \cup {Infinity}]
      /\ Potentials(used', delta)
  BY <1>3 DEF TreeGrows
<1>8. /\ u' = [r \in 0..m |-> IF inTree(r) THEN u[r] + delta ELSE u[r]]
      /\ v' = [c \in 0..n |-> IF used'[c] THEN v[c] - delta ELSE v[c]]
  BY <1>7, Zenon DEF Potentials, Lines, RowCount, ColumnCount
<1>9. \A c \in 0..n : used'[c] <=> (used[c] \/ c = z)
  BY <1>4, <1>5
<1>10. used'[0] /\ 0 \in 0..n
  <2>1. 0 \in 0..n
    BY <1>2
  <2> QED BY <1>6, <1>9, <2>1, Zenon
<1>11. \A c \in 0..n : p[c] \in 0..m /\ p[c] <= row /\ (used'[c] => p[c] # 0)
  BY <1>1, <1>5, <1>6, <1>9, Zenon DEF Assigned
<1>12. \A r \in 1..m, c \in 1..n : Slack(r, c) \in Int
  BY <1>1, SlacksAreNumbers
<1>13. ASSUME NEW r \in 1..m, NEW c \in 1..n
       PROVE  Slack(r, c)' = Slack(r, c) + (IF inTree(r) THEN 0 - delta ELSE 0)
                                         + (IF used'[c] THEN delta ELSE 0)
  <2>1. Costs[r][c] \in Int
    BY CostsAreNumbers
  <2>2. r \in 0..m /\ c \in 0..n
    BY <1>2
  <2>3. u[r] \in Int /\ v[c] \in Int
    BY <1>5, <2>2
  <2>4. /\ u'[r] = IF inTree(r) THEN u[r] + delta ELSE u[r]
        /\ v'[c] = IF used'[c] THEN v[c] - delta ELSE v[c]
    BY <1>8, <2>2, Zenon
  <2>5. /\ Slack(r, c)' = Costs[r][c] - u'[r] - v'[c]
        /\ Slack(r, c) = Costs[r][c] - u[r] - v[c]
    BY <1>2 DEF Slack
  <2>6. delta \in Int
    BY <1>7
  <2> HIDE DEF inTree, n, m
  <2> QED BY <2>1, <2>3, <2>4, <2>5, <2>6
<1>14. ASSUME z # 0 PROVE delta >= 0
  <2>1. /\ used'[way'[near]] /\ way'[near] \in 0..n
        /\ \A r \in 1..m : p[way'[near]] = r => delta = Slack(r, near)
    BY <1>2, <1>7
  <2>2. PICK r \in 1..row : p[way'[near]] = r
    <3>1. /\ p[way'[near]] \in 0..m /\ p[way'[near]] <= row /\ p[way'[near]] # 0
          /\ row \in 0..m
      BY <1>5, <1>11, <2>1
    <3> HIDE DEF n, m
    <3> QED BY <1>2, <3>1
  <2>3. Slack(r, near) >= 0
    BY <1>6, <1>7, <1>14 DEF Feasible
  <2> QED BY <1>2, <1>5, <2>1, <2>2, <2>3
<1>15. ASSUME z = 0
       PROVE  /\ \A c \in 0..n : used'[c] <=> c = 0
              /\ \A r : inTree(r) <=> r = row
  <2>1. \A c \in 0..n : used'[c] <=> c = 0
    BY <1>6, <1>9, <1>15, Zenon
  <2> QED BY <1>6, <1>10, <2>1, Zenon
<1>16. ASSUME NEW c \in 0..n, p[c] # 0 PROVE inTree(p[c]) <=> used'[c]
  BY <1>1, <1>16, Zenon DEF Assigned
<1> HIDE DEF inTree
<1>17. Paid'
  <2> SUFFICES ASSUME NEW c \in 1..n PROVE v'[c] <= 0 /\ (p[c] = 0 => v'[c] = 0)
    BY <1>2, <1>4 DEF Paid
  <2>1. c \in 0..n /\ c # 0
    BY <1>2
  <2>2. v[c] \in Int /\ v[c] <= 0 /\ (p[c] = 0 => v[c] = 0)
    BY <1>1, <1>5, <2>1 DEF Paid, n
  <2>3. v'[c] = IF used'[c] THEN v[c] - delta ELSE v[c]
    BY <1>8, <2>1
  <2>4. used'[c] => z # 0 /\ p[c] # 0
    BY <1>11, <1>15, <2>1
  <2> QED BY <1>7, <1>14, <2>2, <2>3, <2>4
<1>18. Feasible(row)'
  <2> SUFFICES ASSUME NEW r \in 1..row, NEW c \in 1..n PROVE Slack(r, c)' >= 0
    BY <1>2, <1>4 DEF Feasible
  <2>1. r \in 1..m /\ c \in 0..n /\ c # 0 /\ Slack(r, c) \in Int
    <3>1. row \in 0..m
      BY <1>5
    <3>2. r \in 1..m /\ c \in 0..n /\ c # 0
      <4> HIDE DEF n, m
      <4> QED BY <1>2, <3>1
    <3> QED BY <1>12, <3>2
  <2>2. CASE z = 0
    <3>1. ~used'[c]
      BY <1>15, <2>1, <2>2
    <3>2. CASE inTree(r)
      <4>1. r = row /\ used'[0] /\ p[0] = r
        BY <1>6, <1>10, <1>15, <2>2, <3>2
      <4>2. delta <= least[c] /\ least[c] \in Int /\ least[c] <= Slack(r, c)
        BY <1>7, <1>10, <2>1, <3>1, <4>1
      <4> QED BY <1>7, <1>13, <2>1, <3>1, <3>2, <4>2
    <3>3. CASE ~inTree(r)
      <4>1. r \in 1..(row - 1)
        BY <1>5, <1>15, <2>2, <3>3
      <4>2. Slack(r, c) >= 0
        BY <1>6, <2>2, <4>1 DEF Feasible
      <4> QED BY <1>13, <2>1, <3>1, <3>3, <4>2
    <3> QED BY <3>2, <3>3
  <2>3. CASE z # 0
    <3>1. Slack(r, c) >= 0 /\ delta >= 0
      BY <1>6, <1>14, <2>3 DEF Feasible
    <3>2. CASE inTree(r) /\ ~used'[c]
      <4>1. PICK d \in 0..n : used'[d] /\ p[d] = r
        BY <3>2 DEF inTree
      <4>2. delta <= least[c] /\ least[c] \in Int /\ least[c] <= Slack(r, c)
        BY <1>7, <2>1, <3>2, <4>1
      <4> QED BY <1>7, <1>13, <2>1, <3>2, <4>2
    <3>3. CASE ~(inTree(r) /\ ~used'[c])
      BY <1>7, <1>13, <2>1, <3>1, <3>3
    <3> QED BY <3>2, <3>3
  <2> QED BY <2>2, <2>3
<1>19. ASSUME NEW S \in SUBSET (0..n), \A r \in 1..row : \E c \in S : p[c] = r
       PROVE  /\ \A c \in S : p'[c] <= row'
              /\ \A c, d \in S : p'[c] = p'[d] /\ p'[c] # 0 => c = d
              /\ \A c \in S \ {0}, r \in 1..m : p'[c] = r => Slack(r, c)' = 0
              /\ \A r \in 1..row' : \E c \in S : p'[c] = r
  <2>1. ASSUME NEW c \in S \ {0}, NEW r \in 1..m, p[c] = r PROVE Slack(r, c)' = 0
    <3>1. c \in 1..n /\ c \in 0..n /\ r # 0
      BY <1>2
    <3>2. Slack(r, c) = 0
      BY <1>1, <2>1, <3>1 DEF Assigned
    <3>3. inTree(r) <=> used'[c]
      BY <1>16, <2>1, <3>1
    <3> QED BY <1>7, <1>13, <2>1, <3>1, <3>2, <3>3
  <2>2. \A c, d \in S : p[c] = p[d] /\ p[c] # 0 => c = d
    BY <1>1 DEF Assigned
  <2> QED BY <1>4, <1>11, <1>19, <2>1, <2>2
<1>20. \A r \in 1..row : \E c \in 0..n : p[c] = r
  BY <1>1 DEF Assigned
<1>21. Assigned(0..ColumnCount)'
  <2>1. 0..n \in SUBSET (0..n)
    OBVIOUS
  <2> QED BY <1>2, <1>19, <1>20, <2>1 DEF Assigned
<1>22. ASSUME p[near] = 0 PROVE Assigned(0..ColumnCount \ {column_zero})'
  <2>1. (0..n) \ {near} \in SUBSET (0..n)
    OBVIOUS
  <2>2. \A r \in 1..row : \E c \in (0..n) \ {near} : p[c] = r
    BY <1>5, <1>20, <1>22
  <2> QED BY <1>2, <1>3, <1>19, <2>1, <2>2 DEF Assigned
<1>23. MatchingTypes'
  <2>1. u' \in [0..m -> Int] /\ v' \in [0..n -> Int]
    BY <1>5, <1>7, <1>8
  <2>2. used' \in [0..n -> BOOLEAN] /\ column_zero' \in 0..n
    BY <1>2, <1>3, <1>4, <1>5, <1>7
  <2>3. minimum' \in [0..n -> Int \cup {Infinity}]
    <3>1. \A c \in 0..n : ~used'[c] => c \in 1..n
      BY <1>2, <1>10
    <3> QED BY <1>7, <3>1
  <2> QED BY <1>2, <1>4, <1>5, <1>7, <2>1, <2>2, <2>3, Zenon DEF MatchingTypes
<1>24. PICK rank \in [0..n -> Nat] :
          Leads(rank) /\ \A c \in 0..n : used[c] => rank[c] < rank[z]
  BY <1>1, <1>3 DEF Growing, Ranks
<1>25. PICK new \in [0..n -> Nat] : new = [rank EXCEPT ![near] = rank[z] + 1]
  <2>1. rank[z] + 1 \in Nat
    BY <1>5, <1>24
  <2>2. [rank EXCEPT ![near] = rank[z] + 1] \in [0..n -> Nat]
    BY <1>24, <2>1
  <2> QED BY <2>2
<1>26. \A c \in 0..n : used'[c] => new[c] = rank[c] /\ new[c] <= rank[z] /\ new[c] < new[near]
  <2>1. near \in 0..n /\ new[near] = rank[z] + 1 /\ \A c \in (0..n) \ {near} : new[c] = rank[c]
    BY <1>2, <1>7, <1>24, <1>25
  <2>2. \A c \in 0..n : rank[c] \in Nat
    BY <1>24
  <2> QED BY <1>5, <1>7, <1>9, <1>24, <2>1, <2>2
<1>27. Leads(new)'
  <2> SUFFICES ASSUME NEW c \in 1..n, used'[c] \/ c = near
               PROVE  /\ used'[way'[c]] /\ new[way'[c]] < new[c] /\ p[way'[c]] # 0
                      /\ \A r \in 1..m : p[way'[c]] = r => Slack(r, c)' = 0
    BY <1>2, <1>3, <1>4 DEF Leads, Reached
  <2>1. way'[c] \in 0..n /\ c \in 0..n /\ c # 0
    <3>1. c \in 0..n /\ c # 0
      BY <1>2
    <3>2. way'[c] \in 0..n
      BY <1>7, <3>1
    <3> QED BY <3>1, <3>2
  <2>2. CASE used'[c]
    <3>1. way'[c] = way[c]
      BY <1>7, <2>1, <2>2
    <3>2. (used[c] \/ c = z) /\ rank[c] <= rank[z]
      BY <1>9, <1>26, <2>1, <2>2
    <3>3. /\ used[way[c]] /\ rank[way[c]] < rank[c] /\ p[way[c]] # 0
          /\ \A r \in 1..m : p[way[c]] = r => Slack(r, c) = 0
      BY <1>3, <1>24, <2>1, <3>2 DEF Leads, Reached
    <3>4. used'[way[c]]
      BY <1>9, <2>1, <3>1, <3>3
    <3>5. new[way[c]] < new[c]
      BY <1>26, <2>1, <2>2, <3>1, <3>3, <3>4
    <3>6. ASSUME NEW r \in 1..m, p[way[c]] = r PROVE Slack(r, c)' = 0
      <4>1. inTree(r)
        BY <2>1, <3>1, <3>4, <3>6 DEF inTree
      <4> QED BY <1>7, <1>13, <2>2, <3>3, <3>6, <4>1
    <3> QED BY <3>1, <3>3, <3>4, <3>5, <3>6
  <2>3. CASE c = near
    <3>1. /\ used'[way'[c]] /\ \A r \in 1..m : p[way'[c]] = r => delta = Slack(r, c)
      BY <1>7, <2>3
    <3>2. new[way'[c]] < new[c] /\ p[way'[c]] # 0
      BY <1>11, <1>26, <2>1, <2>3, <3>1
    <3>3. ASSUME NEW r \in 1..m, p[way'[c]] = r PROVE Slack(r, c)' = 0
      <4>1. inTree(r)
        BY <2>1, <3>1, <3>3 DEF inTree
      <4> QED BY <1>7, <1>13, <2>3, <3>1, <3>3, <4>1
    <3> QED BY <3>1, <3>2, <3>3
  <2> QED BY <2>2, <2>3
<1>28. ASSUME NEW c \in 1..n, ~used'[c]
       PROVE  /\ minimum'[c] \in Nat /\ used'[way'[c]]
              /\ \A r \in 1..m : p[way'[c]] = r => minimum'[c] = Slack(r, c)'
              /\ \A d \in 0..n, r \in 1..m :
                   used'[d] /\ p[d] = r => minimum'[c] <= Slack(r, c)'
  <2>1. c \in 0..n /\ way'[c] \in 0..n
    <3>1. c \in 0..n
      BY <1>2
    <3>2. way'[c] \in 0..n
      BY <1>7, <3>1
    <3> QED BY <3>1, <3>2
  <2>2. minimum'[c] = least[c] - delta
    BY <1>7, <1>28, <2>1
  <2>3. /\ least[c] \in Int /\ delta <= least[c] /\ used'[way'[c]]
        /\ \A r \in 1..m : p[way'[c]] = r => least[c] = Slack(r, c)
        /\ \A d \in 0..n, r \in 1..m : used'[d] /\ p[d] = r => least[c] <= Slack(r, c)
    BY <1>7, <1>28
  <2>4. ASSUME NEW d \in 0..n, NEW r \in 1..m, used'[d], p[d] = r
        PROVE  Slack(r, c)' = Slack(r, c) - delta /\ Slack(r, c) \in Int
    <3>1. inTree(r)
      BY <2>4 DEF inTree
    <3> QED BY <1>7, <1>12, <1>13, <1>28, <3>1
  <2> QED BY <1>7, <2>1, <2>2, <2>3, <2>4
<1>29. ASSUME p[near] # 0 PROVE Growing'
  <2>1. \E rk \in Ranks' : Leads(rk)' /\ \A c \in 0..n : used'[c] => rk[c] < rk[column_zero']
    <3>1. new \in Ranks'
      BY <1>2, <1>25 DEF Ranks
    <3> QED BY <1>3, <1>26, <1>27, <3>1
  <2>2. \A c \in 0..n : used'[c] => p'[c] # 0
    BY <1>4, <1>11
  <2>3. near # 0
    BY <1>7
  <2> QED BY <1>2, <1>3, <1>4, <1>6, <1>7, <1>10, <1>18, <1>28, <1>29, <2>1, <2>2, <2>3
          DEF Growing
<1>30. CASE p[near] = 0
  <2>1. stage' = "augment" /\ column_zero' # 0
    BY <1>3, <1>4, <1>7, <1>30
  <2>2. \E rk \in Ranks' : Leads(rk)'
    BY <1>2, <1>25, <1>27 DEF Ranks
  <2> QED BY <1>2, <1>17, <1>18, <1>22, <1>23, <1>30, <2>1, <2>2 DEF MatchingInv
<1>31. CASE p[near] # 0
  <2>1. stage' = "grow"
    BY <1>4, <1>31
  <2> QED BY <1>2, <1>17, <1>21, <1>23, <1>29, <1>31, <2>1 DEF MatchingInv
<1> QED BY <1>30, <1>31
-----------------------------------------------------------------------------
\* What the matching is worth.

\* A set M of pairs of blocks, such that of any two that belong to the same block
\* one is in a pair of M, has a pair for each of any other one-to-one pairing: in
\* each block all of the one side or all of the other are in M.
InBlocks(E, A, left, right, M, m) ==
  /\ M \in SUBSET (E \X A) /\ IsFiniteSet(M) /\ m \in SUBSET (E \X A)
  /\ \A x \in M \cup m : left[x[1]] = right[x[2]]
  /\ \A x, y \in m : x # y => x[1] # y[1] /\ x[2] # y[2]
  /\ \A e \in E, a \in A : left[e] = right[a] => \E x \in M : x[1] = e \/ x[2] = a

\* Where every pair lies in a block, and in each block M leaves no two ends free, no
\* one-to-one m within blocks has more pairs than M: map a pair of m to the pair of M at
\* its left end if M has all left ends of the block, else to the one at its right end.
LEMMA Blockwise ==
  ASSUME NEW E, NEW A, NEW left, NEW right, NEW M, NEW m
  PROVE  InBlocks(E, A, left, right, M, m) => Cardinality(m) <= Cardinality(M)
<1> SUFFICES ASSUME InBlocks(E, A, left, right, M, m) PROVE Cardinality(m) <= Cardinality(M)
  OBVIOUS
<1> USE DEF InBlocks
<1> DEFINE Full(b) == \A e \in E : left[e] = b => \E x \in M : x[1] = e
           Stands(x, y) == /\ y \in M
                           /\ Full(left[x[1]]) => y[1] = x[1]
                           /\ ~Full(left[x[1]]) => y[2] = x[2]
           f == [x \in m |-> CHOOSE y \in M : Stands(x, y)]
<1>1. ASSUME NEW x \in m PROVE \E y \in M : Stands(x, y)
  <2>1. x[1] \in E /\ x[2] \in A /\ left[x[1]] = right[x[2]]
    OBVIOUS
  <2>2. CASE Full(left[x[1]])
    BY <2>1, <2>2
  <2>3. CASE ~Full(left[x[1]])
    <3>1. PICK e \in E : left[e] = left[x[1]] /\ ~\E y \in M : y[1] = e
      BY <2>3
    <3>2. PICK y \in M : y[1] = e \/ y[2] = x[2]
      BY <2>1, <3>1
    <3> QED BY <2>3, <3>1, <3>2
  <2> QED BY <2>2, <2>3
<1>2. \A x \in m : f[x] \in M /\ Stands(x, f[x])
  <2> HIDE DEF Stands
  <2> QED BY <1>1
<1>3. ASSUME NEW x \in m, NEW y \in m, f[x] = f[y] PROVE x = y
  <2>1. Stands(x, f[x]) /\ Stands(y, f[x])
    BY <1>2, <1>3
  <2>2. f[x] \in M /\ left[f[x][1]] = right[f[x][2]]
    BY <1>2
  <2>3. left[x[1]] = right[x[2]] /\ left[y[1]] = right[y[2]]
    OBVIOUS
  <2> HIDE DEF f, Full
  <2>4. left[x[1]] = left[y[1]]
    BY <2>1, <2>2, <2>3
  <2>5. x[1] = y[1] \/ x[2] = y[2]
    BY <2>1, <2>4
  <2> QED BY <2>5
<1>4. f \in Injection(m, M)
  <2>1. f \in [m -> M]
    <3> HIDE DEF Stands
    <3> QED BY <1>2
  <2> HIDE DEF f
  <2> QED BY <1>3, <2>1 DEF Injection, IsInjective
<1> HIDE DEF f
<1> QED BY <1>4, FS_Injection

Score(i, j) == MatchScore(expected[i], actual[j])
Scored(least) == {x \in Pairs : Score(x[1], x[2]) >= least}

\* With feasible potentials neither moving a matched row to a free column nor exchanging
\* the columns of two rows costs less.
LEMMA NoGainBySwap ==
  ASSUME Best, NEW c \in 1..ColumnCount, p[c] # 0, NEW d \in 1..ColumnCount
  PROVE  /\ p[d] = 0 => Cost(p[c], d) >= Cost(p[c], c)
         /\ p[d] # 0 => Cost(p[c], d) + Cost(p[d], c) >= Cost(p[c], c) + Cost(p[d], d)
<1> DEFINE n == ColumnCount
           m == RowCount
<1>1. /\ Sides /\ Paid /\ Feasible(m) /\ Assigned(1..n) /\ p \in [0..n -> 0..m]
      /\ u \in [0..m -> Int] /\ v \in [0..n -> Int]
  BY DEF Best, MatchingTypes
<1>2. n \in Nat /\ m \in Nat
  BY <1>1, SidesMeet
<1>3. ASSUME NEW r \in 1..m, NEW b \in 1..n
      PROVE  /\ Cost(r, b) \in Int /\ u[r] \in Int /\ v[b] \in Int
             /\ Cost(r, b) >= u[r] + v[b]
             /\ p[b] = r => Cost(r, b) = u[r] + v[b]
             /\ v[b] <= 0 /\ (p[b] = 0 => v[b] = 0)
  <2>1. Costs[r][b] \in Int /\ Costs[r][b] = Cost(r, b)
    BY CostsAreNumbers
  <2>2. r \in 0..m /\ b \in 0..n /\ b # 0
    BY <1>2
  <2>3. u[r] \in Int /\ v[b] \in Int
    BY <1>1, <2>2
  <2>4. Slack(r, b) = Cost(r, b) - u[r] - v[b] /\ Cost(r, b) \in Int
    BY <2>1 DEF Slack
  <2>5. Slack(r, b) >= 0 /\ (p[b] = r => Slack(r, b) = 0)
    BY <1>1, <2>2 DEF Feasible, Assigned
  <2>6. v[b] <= 0 /\ (p[b] = 0 => v[b] = 0)
    BY <1>1 DEF Paid
  <2> HIDE DEF n, m
  <2> QED BY <2>3, <2>4, <2>5, <2>6
<1>4. PICK r, s : r = p[c] /\ s = p[d]
  OBVIOUS
<1>5. r \in 1..m /\ (s # 0 => s \in 1..m)
  <2>1. c \in 0..n /\ d \in 0..n
    BY <1>2
  <2>2. r \in 0..m /\ s \in 0..m /\ r # 0
    BY <1>1, <1>4, <2>1
  <2> HIDE DEF n, m
  <2> QED BY <1>2, <2>2
<1>6. CASE s = 0
  <2>1. /\ Cost(r, d) \in Int /\ Cost(r, d) >= u[r] + v[d] /\ v[d] = 0
        /\ Cost(r, c) \in Int /\ Cost(r, c) = u[r] + v[c] /\ v[c] <= 0
        /\ u[r] \in Int /\ v[c] \in Int
    BY <1>3, <1>4, <1>5, <1>6
  <2>2. Cost(r, d) >= Cost(r, c)
    BY <2>1
  <2> QED BY <1>4, <1>6, <2>2
<1>7. CASE s # 0
  <2>1. /\ Cost(r, d) \in Int /\ Cost(r, d) >= u[r] + v[d]
        /\ Cost(r, c) \in Int /\ Cost(r, c) = u[r] + v[c]
        /\ u[r] \in Int /\ v[c] \in Int /\ v[d] \in Int
    BY <1>3, <1>4, <1>5
  <2>2. /\ Cost(s, c) \in Int /\ Cost(s, c) >= u[s] + v[c] /\ u[s] \in Int
        /\ Cost(s, d) \in Int /\ Cost(s, d) = u[s] + v[d]
    BY <1>3, <1>4, <1>5, <1>7
  <2>3. Cost(r, d) + Cost(s, c) >= Cost(r, c) + Cost(s, d)
    BY <2>1, <2>2
  <2> QED BY <1>4, <1>7, <2>3
<1> QED BY <1>6, <1>7

\* The assignment is a finite one-to-one relation between expected and actual operations.
LEMMA PairsAreOneToOne ==
  ASSUME Best
  PROVE  /\ Pairs \in SUBSET ((DOMAIN expected) \X (DOMAIN actual)) /\ IsFiniteSet(Pairs)
         /\ \A x, y \in Pairs : x[1] = y[1] \/ x[2] = y[2] => x = y
<1> DEFINE n == ColumnCount
           m == RowCount
<1>1. Sides /\ Assigned(1..n) /\ p \in [0..n -> 0..m]
  BY DEF Best, MatchingTypes
<1>2. /\ n \in Nat /\ m \in Nat
      /\ IF Swapped THEN 1..m = DOMAIN actual /\ 1..n = DOMAIN expected
         ELSE 1..m = DOMAIN expected /\ 1..n = DOMAIN actual
  BY <1>1, SidesMeet DEF Sides, Indexed
<1>3. \A c \in 1..n : p[c] # 0 => p[c] \in 1..m
  <2>1. \A c \in 1..n : p[c] \in 0..m
    BY <1>1, <1>2
  <2> HIDE DEF n, m
  <2> QED BY <1>2, <2>1
<1>4. \A x \in Pairs : \E c \in 1..n : /\ p[c] # 0
                                      /\ x = IF Swapped THEN <<c, p[c]>> ELSE <<p[c], c>>
  BY Zenon DEF Pairs, ColumnCount
<1>5. \A c, d \in 1..n : p[c] = p[d] /\ p[c] # 0 => c = d
  BY <1>1 DEF Assigned
<1> HIDE DEF n, m
<1>6. Pairs \in SUBSET ((DOMAIN expected) \X (DOMAIN actual))
  <2> SUFFICES ASSUME NEW x \in Pairs PROVE x \in (DOMAIN expected) \X (DOMAIN actual)
    OBVIOUS
  <2>1. PICK c \in 1..n : p[c] # 0 /\ x = IF Swapped THEN <<c, p[c]>> ELSE <<p[c], c>>
    BY <1>4
  <2>2. p[c] \in 1..m
    BY <1>3, <2>1
  <2> QED BY <1>2, <2>1, <2>2
<1>7. ASSUME NEW x \in Pairs, NEW y \in Pairs, x[1] = y[1] \/ x[2] = y[2] PROVE x = y
  <2>1. PICK c \in 1..n : p[c] # 0 /\ x = IF Swapped THEN <<c, p[c]>> ELSE <<p[c], c>>
    BY <1>4
  <2>2. PICK d \in 1..n : p[d] # 0 /\ y = IF Swapped THEN <<d, p[d]>> ELSE <<p[d], d>>
    BY <1>4
  <2>3. c = d
    BY <1>5, <1>7, <2>1, <2>2
  <2> QED BY <2>1, <2>2, <2>3
<1>8. IsFiniteSet(Pairs)
  <2>1. IsFiniteSet(1..m) /\ IsFiniteSet(1..n)
    BY <1>2, FS_Interval
  <2>2. IsFiniteSet(DOMAIN expected) /\ IsFiniteSet(DOMAIN actual)
    BY <1>2, <2>1
  <2>3. IsFiniteSet((DOMAIN expected) \X (DOMAIN actual))
    BY <2>2, FS_Product
  <2> QED BY <1>6, <2>3, FS_Subset
<1> QED BY <1>6, <1>7, <1>8

\* Two operations of one component (of one usage) are not both without such a partner:
\* otherwise a swap would gain.
LEMMA WorthyPairIsThere ==
  ASSUME Best, NEW i \in DOMAIN expected, NEW j \in DOMAIN actual,
         NEW least \in {-1, 100}, Score(i, j) >= least
  PROVE  \E x \in Scored(least) : x[1] = i \/ x[2] = j
<1> DEFINE n == ColumnCount
           m == RowCount
<1>1. Sides /\ Assigned(1..n) /\ p \in [0..n -> 0..m] /\ row = m
  BY DEF Best, MatchingTypes
<1>2. /\ n \in Nat /\ m \in Nat
      /\ IF Swapped THEN 1..m = DOMAIN actual /\ 1..n = DOMAIN expected
         ELSE 1..m = DOMAIN expected /\ 1..n = DOMAIN actual
  BY <1>1, SidesMeet DEF Sides, Indexed
<1>3. \A a, b : Score(a, b) \in Int /\ Score(a, b) >= -2
                /\ (Score(a, b) < 100 => Score(a, b) <= 0)
  BY ScoresAreNumbers DEF Score
<1> DEFINE S(r, d) == IF Swapped THEN Score(d, r) ELSE Score(r, d)
           Found == \E x \in Scored(least) : x[1] = i \/ x[2] = j
<1>4. ASSUME NEW c \in 1..n, p[c] # 0, IF Swapped THEN c = i \/ p[c] = j ELSE p[c] = i \/ c = j
      PROVE  S(p[c], c) < least \/ Found
  <2>1. PICK x : x = IF Swapped THEN <<c, p[c]>> ELSE <<p[c], c>>
    OBVIOUS
  <2>2. x \in Pairs
    BY <1>4, <2>1 DEF Pairs, ColumnCount
  <2>3. Score(x[1], x[2]) = S(p[c], c) /\ (x[1] = i \/ x[2] = j)
    BY <1>4, <2>1
  <2>4. Score(x[1], x[2]) >= least => Found
    BY <2>2, <2>3 DEF Scored
  <2>5. least \in Int /\ Score(x[1], x[2]) \in Int
    BY <1>3
  <2> HIDE DEF S, Found
  <2> QED BY <2>3, <2>4, <2>5
<1>5. \A r, c : Cost(r, c) = IF Swapped THEN -Score(c, r) ELSE -Score(r, c)
  BY DEF Cost, Score, Rows, Columns
<1>6. PICK k, l : /\ k = (IF Swapped THEN j ELSE i) /\ l = (IF Swapped THEN i ELSE j)
  OBVIOUS
<1>7. k \in 1..m /\ l \in 1..n
  BY <1>2, <1>6
<1>8. PICK c \in 1..n : p[c] = k
  BY <1>1, <1>7 DEF Assigned
<1>9. \A r, d : Cost(r, d) = -S(r, d) /\ S(r, d) \in Int /\ S(r, d) >= -2
                /\ (S(r, d) < 100 => S(r, d) <= 0)
  BY <1>3, <1>5
<1>10. S(k, l) >= least
  BY <1>6
<1> HIDE DEF S, Found
<1>11. S(k, c) < least \/ Found
  <2>1. k # 0
    BY <1>2, <1>7
  <2> QED BY <1>4, <1>6, <1>8, <2>1
<1>12. p[l] = 0 \/ S(p[l], l) < least \/ Found
  BY <1>4, <1>6, <1>7
<1>13. ASSUME S(k, c) < least, p[l] = 0 PROVE FALSE
  <2>1. Cost(k, l) >= Cost(k, c)
    BY <1>2, <1>7, <1>8, <1>13, NoGainBySwap
  <2> QED BY <1>9, <1>10, <1>13, <2>1
<1>14. ASSUME S(k, c) < least, p[l] # 0, S(p[l], l) < least PROVE FALSE
  <2>1. Cost(k, l) + Cost(p[l], c) >= Cost(k, c) + Cost(p[l], l)
    BY <1>2, <1>7, <1>8, <1>14, NoGainBySwap
  <2>2. PICK w, x, y, z : /\ w = S(k, l) /\ x = S(p[l], c) /\ y = S(k, c) /\ z = S(p[l], l)
    OBVIOUS
  <2>3. /\ w \in Int /\ x \in Int /\ y \in Int /\ z \in Int
        /\ w >= least /\ x >= -2 /\ y >= -2 /\ z >= -2 /\ y < least /\ z < least
        /\ (y < 100 => y <= 0) /\ (z < 100 => z <= 0)
    BY <1>9, <1>10, <1>14, <2>2
  <2>4. (-w) + (-x) >= (-y) + (-z)
    BY <1>9, <2>1, <2>2
  <2> QED BY <2>3, <2>4
<1> QED BY <1>11, <1>12, <1>13, <1>14 DEF Found

\* Scored(-1) are the pairs within a component, Scored(100) those of one usage.
Block(operation, least) ==
  IF least = -1 THEN <<operation.component>> ELSE <<operation.component, operation.usage>>

\* A pair scores what its blocks say.
LEMMA ScoredByBlock ==
  ASSUME NEW least \in {-1, 100}, NEW i, NEW j
  PROVE  /\ Score(i, j) \in Int
         /\ Score(i, j) >= least <=> Block(expected[i], least) = Block(actual[j], least)
  BY ScoresAreNumbers DEF Score, Block

\* Hence the assignment has the most pairs within components, and within usages.
LEMMA NoneIsBetter ==
  ASSUME Best, NEW least \in {-1, 100},
         NEW m \in SUBSET ((DOMAIN expected) \X (DOMAIN actual)),
         \A x \in m : Score(x[1], x[2]) >= least,
         \A x, y \in m : x # y => x[1] # y[1] /\ x[2] # y[2]
  PROVE  Cardinality(m) <= Cardinality(Scored(least))
<1> DEFINE E == DOMAIN expected
           A == DOMAIN actual
           M == Scored(least)
           left == [i \in E |-> Block(expected[i], least)]
           right == [j \in A |-> Block(actual[j], least)]
<1>1. M \in SUBSET (E \X A) /\ IsFiniteSet(M)
  BY PairsAreOneToOne, FS_Subset DEF Scored
<1>2. \A i \in E, j \in A : left[i] = right[j] <=> Score(i, j) >= least
  BY ScoredByBlock
<1>3. \A x \in M \cup m : x[1] \in E /\ x[2] \in A /\ Score(x[1], x[2]) >= least
  BY <1>1 DEF Scored
<1>4. \A i \in E, j \in A : left[i] = right[j] => \E x \in M : x[1] = i \/ x[2] = j
  BY <1>2, WorthyPairIsThere
<1> HIDE DEF E, A, M, left, right
<1>5. \A x \in M \cup m : left[x[1]] = right[x[2]]
  BY <1>2, <1>3
<1>6. m \in SUBSET (E \X A)
  BY DEF E, A
<1>7. Cardinality(m) <= Cardinality(M)
  <2>1. InBlocks(E, A, left, right, M, m)
    BY <1>1, <1>4, <1>5, <1>6 DEF InBlocks
  <2> QED BY <2>1, Blockwise
<1> QED BY <1>7 DEF M

\* What a one-to-one function does not reach is the difference of the cardinalities.
LEMMA PairedOff ==
  ASSUME NEW D, IsFiniteSet(D), NEW M, NEW f \in [M -> D],
         \A x, y \in M : f[x] = f[y] => x = y
  PROVE  Cardinality(M) + Cardinality(D \ {f[x] : x \in M}) = Cardinality(D)
<1> DEFINE I == {f[x] : x \in M}
<1>1. IsFiniteSet(I) /\ I \in SUBSET D
  BY FS_Subset
<1>2. f \in Injection(M, I) /\ f \in Surjection(M, I)
  BY DEF Injection, Surjection, IsInjective
<1> HIDE DEF I
<1>3. Cardinality(M) = Cardinality(I)
  BY <1>1, <1>2, FS_Injection
<1>4. Cardinality(D \ I) = Cardinality(D) - Cardinality(D \cap I) /\ D \cap I = I
  BY <1>1, FS_Difference
<1>5. Cardinality(D) \in Nat /\ Cardinality(I) \in Nat
  BY <1>1, FS_CardinalityType
<1>6. Cardinality(M) + Cardinality(D \ I) = Cardinality(D)
  BY <1>3, <1>4, <1>5
<1> QED BY <1>6 DEF I

\* What the report says of a best matching.
Optimal(tp, fp, fn, usage) ==
  /\ \A m \in Pairings : /\ Cardinality(m) <= tp
                         /\ Cardinality({x \in m : UsageRight(x)}) <= usage
  /\ tp + fn = Len(expected) /\ tp + fp = Len(actual)

\* Hence the report of a best assignment is optimal.
LEMMA BestIsOptimal ==
  ASSUME Best
  PROVE  Optimal(Cardinality(Matched), Cardinality(Unexpected), Cardinality(Missed),
                 Cardinality({m \in Matched : UsageRight(m)}))
<1> DEFINE E == DOMAIN expected
           A == DOMAIN actual
<1>1. Matched = Scored(-1)
  BY ScoresAreNumbers DEF Matched, Scored, Score
<1>2. {m \in Matched : UsageRight(m)} = Scored(100)
  BY ScoresAreNumbers DEF Matched, Scored, Score, UsageRight
<1>3. ASSUME NEW m \in Pairings
      PROVE  /\ Cardinality(m) <= Cardinality(Matched)
             /\ Cardinality({x \in m : UsageRight(x)}) <= Cardinality(Scored(100))
  <2>1. /\ m \in SUBSET (E \X A)
        /\ \A x \in m : expected[x[1]].component = actual[x[2]].component
        /\ \A x, y \in m : x # y => x[1] # y[1] /\ x[2] # y[2]
    BY DEF Pairings
  <2>2. \A x \in m : Score(x[1], x[2]) >= -1
    BY <2>1, ScoresAreNumbers DEF Score
  <2>3. \A x \in {y \in m : UsageRight(y)} : Score(x[1], x[2]) >= 100
    BY <2>1, ScoresAreNumbers DEF Score, UsageRight
  <2>4. Cardinality(m) <= Cardinality(Scored(-1))
    BY <2>1, <2>2, NoneIsBetter
  <2>5. PICK k : k = {y \in m : UsageRight(y)}
    OBVIOUS
  <2>6. k \in SUBSET (E \X A) /\ \A x, y \in k : x # y => x[1] # y[1] /\ x[2] # y[2]
    BY <2>1, <2>5
  <2>7. Cardinality(k) <= Cardinality(Scored(100))
    BY <2>3, <2>5, <2>6, NoneIsBetter
  <2> QED BY <1>1, <2>4, <2>5, <2>7
<1>4. /\ Matched \in SUBSET (E \X A)
      /\ \A x, y \in Matched : x[1] = y[1] \/ x[2] = y[2] => x = y
  BY PairsAreOneToOne DEF Matched
<1>5. /\ Len(expected) \in Nat /\ E = 1..Len(expected)
      /\ Len(actual) \in Nat /\ A = 1..Len(actual)
  BY DEF Best, Sides, Indexed
<1>6. /\ IsFiniteSet(E) /\ Cardinality(E) = Len(expected)
      /\ IsFiniteSet(A) /\ Cardinality(A) = Len(actual)
  <2>1. ASSUME NEW k \in Nat PROVE IsFiniteSet(1..k) /\ Cardinality(1..k) = k
    BY FS_Interval
  <2> HIDE DEF E, A
  <2> QED BY <1>5, <2>1
<1> HIDE DEF E, A
<1>7. Cardinality(Matched) + Cardinality(Missed) = Len(expected)
  <2>1. PICK f \in [Matched -> E] : \A x \in Matched : f[x] = x[1]
    <3>1. [x \in Matched |-> x[1]] \in [Matched -> E]
      BY <1>4
    <3> QED BY <3>1
  <2>2. \A x, y \in Matched : f[x] = f[y] => x = y
    BY <1>4, <2>1
  <2>3. Cardinality(Matched) + Cardinality(E \ {f[x] : x \in Matched}) = Cardinality(E)
    BY <1>6, <2>1, <2>2, PairedOff
  <2>4. Missed = E \ {f[x] : x \in Matched}
    BY <2>1 DEF Missed, E
  <2> QED BY <1>6, <2>3, <2>4
<1>8. Cardinality(Matched) + Cardinality(Unexpected) = Len(actual)
  <2>1. PICK f \in [Matched -> A] : \A x \in Matched : f[x] = x[2]
    <3>1. [x \in Matched |-> x[2]] \in [Matched -> A]
      BY <1>4
    <3> QED BY <3>1
  <2>2. \A x, y \in Matched : f[x] = f[y] => x = y
    BY <1>4, <2>1
  <2>3. Cardinality(Matched) + Cardinality(A \ {f[x] : x \in Matched}) = Cardinality(A)
    BY <1>6, <2>1, <2>2, PairedOff
  <2>4. Unexpected = A \ {f[x] : x \in Matched}
    BY <2>1 DEF Unexpected, A
  <2> QED BY <1>6, <2>3, <2>4
<1> QED BY <1>2, <1>3, <1>7, <1>8 DEF Optimal
-----------------------------------------------------------------------------
\* The evaluation.

\* The expected and the actual operations are sequences.
LEMMA OperationsAreIndexed ==
  ASSUME NEW t \in Truths, NEW stored \in ScanAssets
  PROVE  Indexed(ExpectedOperations(t)) /\ Indexed(ActualOperations(stored))
<1>1. DOMAIN t.assets = 1..Len(t.assets) /\ Len(t.assets) \in Nat
  BY EvaluationAssumption
<1>2. Indexed(ExpectedOperations(t))
  BY <1>1, FunctionsAreIndexed DEF ExpectedOperations
<1>3. DOMAIN stored = 1..Len(stored) /\ Len(stored) \in Nat
  BY EvaluationAssumption
<1>4. PICK kept : kept = {i \in DOMAIN stored : stored[i].algorithm # ""}
  OBVIOUS
<1>5. PICK named : named = Selected(stored, kept)
  OBVIOUS
<1>6. Indexed(named)
  BY <1>3, <1>4, <1>5, PartsAreIndexed DEF Indexed
<1>7. Indexed(ActualOperations(stored))
  <2>1. PICK k \in Nat : DOMAIN named = 1..k
    BY <1>6 DEF Indexed
  <2>2. ActualOperations(stored) = [i \in 1..k |-> ActualOperations(stored)[i]]
    BY <1>4, <1>5, <2>1 DEF ActualOperations
  <2> QED BY <2>1, <2>2, FunctionsAreIndexed
<1> QED BY <1>2, <1>7

\* Before the first row.
Fresh ==
  /\ Sides /\ MatchingTypes /\ Paid /\ row = 0 /\ column_zero = 0 /\ Feasible(0)
  /\ Assigned(1..ColumnCount)

\* The evaluation starts without rows assigned.
LEMMA MatchingStarts ==
  ASSUME Sides', StartMatching(expected', actual')
  PROVE  Fresh' /\ (expected' = <<>> \/ actual' = <<>> => RowCount' = 0)
<1>1. /\ RowCount' \in Nat /\ ColumnCount' \in Nat
      /\ expected' = <<>> \/ actual' = <<>> => RowCount' = 0
  BY DEF Sides, Indexed, RowCount, ColumnCount, Rows, Columns, Swapped
<1>2. /\ u' = [r \in 0..RowCount' |-> 0] /\ v' = [c \in 0..ColumnCount' |-> 0]
      /\ p' = [c \in 0..ColumnCount' |-> 0] /\ way' = [c \in 0..ColumnCount' |-> 0]
      /\ row' = 0 /\ column_zero' = 0
      /\ minimum' = [c \in 0..ColumnCount' |-> Infinity]
      /\ used' = [c \in 0..ColumnCount' |-> FALSE]
  BY DEF StartMatching, Lines, RowCount, ColumnCount, Rows, Columns, Swapped
<1>3. MatchingTypes'
  BY <1>1, <1>2 DEF MatchingTypes
<1>4. Paid' /\ Feasible(0)'
  BY <1>1, <1>2 DEF Paid, Feasible
<1>5. Assigned(1..ColumnCount)'
  BY <1>1, <1>2 DEF Assigned
<1> QED BY <1>1, <1>2, <1>3, <1>4, <1>5 DEF Fresh

\* The steps of the evaluation keep its invariant.
LEMMA EvaluationStarts ==
  ASSUME EvaluationInv, half = "evaluation", Evaluate, half' = half
  PROVE  EvaluationInv'
<1>1. stage = "asked" /\ truth \in Truths /\ assets \in ScanAssets /\ ~report.available
  BY DEF Evaluate, EvaluationInv
<1>2. truth' = truth /\ assets' = assets
  BY DEF Evaluate
<1>3. truth.version \in Nat
  BY <1>1, EvaluationAssumption
<1>4. CASE stage' = "refused"
  BY <1>2, <1>4 DEF EvaluationInv, MatchingIsBest
<1>5. CASE stage' = "done" /\ (report' = report \/ truth.version < 2)
  BY <1>1, <1>2, <1>3, <1>5 DEF EvaluationInv, MatchingIsBest
<1>6. CASE /\ expected' = ExpectedOperations(truth) /\ actual' = ActualOperations(assets)
           /\ StartMatching(expected', actual')
           /\ stage' = IF expected' = <<>> \/ actual' = <<>> THEN "matched" ELSE "rows"
  <2>1. Sides'
    BY <1>1, <1>6, OperationsAreIndexed DEF Sides, Indexed
  <2>2. Fresh' /\ (expected' = <<>> \/ actual' = <<>> => RowCount' = 0)
    BY <1>6, <2>1, MatchingStarts
  <2>3. RowCount' \in Nat /\ ColumnCount' \in Nat
    BY <2>1 DEF Sides, Indexed, RowCount, ColumnCount, Rows, Columns, Swapped
  <2>4. CASE stage' = "matched"
    <3>1. RowCount' = 0
      BY <1>6, <2>2, <2>4
    <3>2. Best'
      BY <2>2, <3>1 DEF Fresh, Best, Feasible
    <3> QED BY <2>4, <3>2 DEF EvaluationInv, MatchingIsBest
  <2>5. CASE stage' = "rows"
    <3>1. (0..ColumnCount' \ {0}) = 1..ColumnCount'
      BY <2>3
    <3>2. MatchingInv'
      BY <2>2, <2>5, <3>1 DEF Fresh, MatchingInv, Feasible, Assigned
    <3> QED BY <2>5, <3>2 DEF EvaluationInv, MatchingIsBest
  <2> QED BY <1>6, <2>4, <2>5
<1> QED BY <1>4, <1>5, <1>6, Zenon DEF Evaluate

\* The steps of the algorithm keep its invariant.
LEMMA EvaluationGoesOn ==
  ASSUME EvaluationInv, half = "evaluation", AddRow \/ Grow \/ Augment, half' = half
  PROVE  EvaluationInv'
<1>1. CASE AddRow
  <2>1. stage = "rows" /\ MatchingInv
    BY <1>1 DEF AddRow, EvaluationInv
  <2>2. CASE row < RowCount
    <3>1. MatchingInv' /\ stage' = "grow"
      BY <1>1, <2>1, <2>2, RowAdded DEF AddRow, RowCount
    <3> QED BY <3>1 DEF EvaluationInv, MatchingIsBest
  <2>3. CASE ~(row < RowCount)
    <3>1. Best' /\ stage' = "matched"
      BY <1>1, <2>1, <2>3, MatchingEnds
    <3> QED BY <3>1 DEF EvaluationInv, MatchingIsBest
  <2> QED BY <2>2, <2>3
<1>2. CASE Grow
  <2>1. stage = "grow" /\ MatchingInv
    BY <1>2 DEF Grow, EvaluationInv
  <2>2. PICK least, delta : TreeGrows(least, delta)
    BY <1>2, <2>1, GrowGrowsTree
  <2>3. MatchingInv'
    BY <1>2, <2>1, <2>2, TreeGrown
  <2>4. stage' \in {"augment", "grow"}
    BY <1>2 DEF Grow
  <2> QED BY <2>3, <2>4 DEF EvaluationInv, MatchingIsBest
<1>3. CASE Augment
  <2>1. stage = "augment" /\ MatchingInv
    BY <1>3 DEF Augment, EvaluationInv
  <2>2. MatchingInv' /\ stage' \in {"augment", "rows"}
    BY <1>3, <2>1, PathTurned DEF Augment
  <2> QED BY <2>2 DEF EvaluationInv, MatchingIsBest
<1> QED BY <1>1, <1>2, <1>3

\* The report is that of the assignment.
LEMMA EvaluationReports ==
  ASSUME EvaluationInv, half = "evaluation", Summarise, half' = half
  PROVE  EvaluationInv'
<1>1. /\ Best /\ stage' = "done" /\ report' = OperationReport
      /\ expected' = expected /\ actual' = actual
  BY DEF Summarise, EvaluationInv
<1>2. /\ report'.tp = Cardinality(Matched) /\ report'.fp = Cardinality(Unexpected)
      /\ report'.fn = Cardinality(Missed)
      /\ report'.usage_correct = Cardinality({m \in Matched : UsageRight(m)})
  BY <1>1 DEF OperationReport
<1>3. Optimal(report'.tp, report'.fp, report'.fn, report'.usage_correct)
  BY <1>1, <1>2, BestIsOptimal
<1>4. Pairings' = Pairings /\ \A x : UsageRight(x)' = UsageRight(x)
  BY <1>1 DEF Pairings, UsageRight
<1>5. MatchingIsBest'
  BY <1>1, <1>3, <1>4 DEF MatchingIsBest, Optimal
<1> QED BY <1>1, <1>5 DEF EvaluationInv

\* No pairing of expected operations and findings within components has more
\* matches than the report of _match_operations, or more of the right usage, and
\* its counts add up: for every ground truth, every scan and every way to write
\* the algorithm's infinity.
THEOREM MatchingsAreBest == Spec => []MatchingIsBest
<1>1. Init => EvaluationInv
  BY DEF Init, EvaluationInit, EvaluationInv, MatchingIsBest, NoReport
<1>2. EvaluationInv /\ [Next]_assuranceVars => EvaluationInv'
  <2> SUFFICES ASSUME EvaluationInv, [Next]_assuranceVars PROVE EvaluationInv'
    OBVIOUS
  <2>1. CASE Scanning \/ UNCHANGED assuranceVars
    <3>1. half' = half /\ UNCHANGED evaluationVars
      BY <2>1 DEF Scanning, assuranceVars
    <3>2. /\ RowCount' = RowCount /\ ColumnCount' = ColumnCount /\ Costs' = Costs
          /\ Sides' = Sides
      BY <3>1, SidesStay DEF evaluationVars
    <3>3. (MatchingInv <=> MatchingInv') /\ (Best <=> Best')
      BY <3>1, <3>2
      DEF MatchingInv, Best, MatchingTypes, Paid, Feasible, Assigned, Growing, Leads, Ranks,
          Reached, Slack, evaluationVars
    <3>4. MatchingIsBest <=> MatchingIsBest'
      BY <3>1 DEF MatchingIsBest, Pairings, UsageRight, evaluationVars
    <3> QED BY <3>1, <3>3, <3>4 DEF EvaluationInv, evaluationVars
  <2>2. CASE Evaluating
    BY <2>2, EvaluationStarts, EvaluationGoesOn, EvaluationReports DEF Evaluating, EvaluationNext
  <2> QED BY <2>1, <2>2 DEF Next
<1>3. EvaluationInv => MatchingIsBest
  BY DEF EvaluationInv
<1> QED BY <1>1, <1>2, <1>3, PTL DEF Spec
=============================================================================
