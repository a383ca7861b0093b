---------------------------- MODULE ReportProofs ----------------------------
(***************************************************************************)
(* From the inventory to the report, for every repository, limit and       *)
(* budget: the coverage is not overstated, every observation is in the     *)
(* report, the findings depend neither on the order of the walk nor on the *)
(* numbers drawn, and a disagreement that version 2 reports has two sides. *)
(* Parts of sequences are those of MatchingProofs.                         *)
(***************************************************************************)
EXTENDS MatchingProofs

-----------------------------------------------------------------------------
\* Lists and finite sets.

IsList(seq) == seq \in Seq(ToSet(seq))

\* A list has its indices, and nothing else.
LEMMA ListsAreIndexed ==
  ASSUME NEW seq, IsList(seq)
  PROVE  Indexed(seq) /\ seq = [k \in DOMAIN seq |-> seq[k]]
  BY DEF IsList, Indexed

\* What has the indices of a list is one.
LEMMA ListsByIndex ==
  ASSUME NEW seq, Len(seq) \in Nat, DOMAIN seq = 1..Len(seq), seq = [k \in 1..Len(seq) |-> seq[k]]
  PROVE  IsList(seq)
<1>1. \A k \in DOMAIN seq : seq[k] \in ToSet(seq)
  BY DEF ToSet
<1> QED BY <1>1 DEF IsList

\* One more element.
LEMMA Appended ==
  ASSUME NEW seq, IsList(seq), NEW x
  PROVE  /\ IsList(Append(seq, x)) /\ Len(seq) \in Nat /\ DOMAIN seq = 1..Len(seq)
         /\ Len(Append(seq, x)) = Len(seq) + 1 /\ DOMAIN Append(seq, x) = 1..(Len(seq) + 1)
         /\ \A k \in 1..Len(seq) : Append(seq, x)[k] = seq[k]
         /\ Append(seq, x)[Len(seq) + 1] = x
<1>1. PICK S : S = ToSet(seq) \cup {x}
  OBVIOUS
<1>2. seq \in Seq(S)
  <2>1. seq \in Seq(ToSet(seq)) /\ ToSet(seq) \subseteq S
    BY <1>1 DEF IsList
  <2> HIDE <1>1
  <2> QED BY <2>1
<1>3. x \in S
  BY <1>1
<1>4. PICK new : new = Append(seq, x)
  OBVIOUS
<1>5. /\ new \in Seq(S) /\ Len(seq) \in Nat /\ DOMAIN seq = 1..Len(seq)
      /\ Len(new) = Len(seq) + 1 /\ DOMAIN new = 1..(Len(seq) + 1)
      /\ \A k \in 1..Len(seq) : new[k] = seq[k]
      /\ new[Len(seq) + 1] = x
  BY <1>2, <1>3, <1>4
<1>6. IsList(new)
  <2>1. \A k \in DOMAIN new : new[k] \in ToSet(new)
    BY DEF ToSet
  <2>2. new = [k \in 1..Len(new) |-> new[k]] /\ Len(new) \in Nat /\ DOMAIN new = 1..Len(new)
    BY <1>5
  <2> QED BY <2>1, <2>2 DEF IsList
<1> QED BY <1>4, <1>5, <1>6

\* One more entry, the others as they were.
LEMMA PutPuts ==
  ASSUME NEW map, NEW key, NEW value
  PROVE  /\ DOMAIN Put(map, key, value) = DOMAIN map \cup {key}
         /\ Put(map, key, value)[key] = value
         /\ \A k \in DOMAIN map : k # key => Put(map, key, value)[k] = map[k]
  BY DEF Put

\* A set of several has two that differ.
LEMMA MoreThanOne ==
  ASSUME NEW S, IsFiniteSet(S)
  PROVE  Cardinality(S) > 1 <=> \E x, y \in S : x # y
<1>1. Cardinality(S) \in Nat
  BY FS_CardinalityType
<1>2. ASSUME Cardinality(S) > 1 PROVE \E x, y \in S : x # y
  <2>1. PICK x \in S : TRUE
    BY <1>1, <1>2, FS_EmptySet
  <2>2. S # {x}
    BY <1>2, FS_Singleton
  <2> QED BY <2>1, <2>2
<1>3. ASSUME NEW x \in S, NEW y \in S, x # y PROVE Cardinality(S) > 1
  <2>1. {x, y} \in SUBSET S
    OBVIOUS
  <2>2. IsFiniteSet({x}) /\ Cardinality({x}) = 1
    BY FS_Singleton
  <2>3. Cardinality({x} \cup {y}) = 2
    BY <1>3, <2>2, FS_AddElement
  <2>4. Cardinality({x} \cup {y}) <= Cardinality(S)
    BY <2>1, FS_Subset
  <2> QED BY <1>1, <2>3, <2>4
<1> QED BY <1>2, <1>3

\* What a function makes of a finite set is finite.
LEMMA ImagesAreFinite ==
  ASSUME NEW S, IsFiniteSet(S), NEW T, NEW f, f \in [S -> T],
         \A y \in T : \E x \in S : f[x] = y
  PROVE  IsFiniteSet(T)
<1>1. f \in Surjection(S, T)
  BY DEF Surjection
<1> QED BY <1>1, FS_Surjection

\* A list has finitely many elements.
LEMMA ListsAreFinite ==
  ASSUME NEW seq, Indexed(seq)
  PROVE  IsFiniteSet(ToSet(seq))
<1>1. ASSUME NEW k \in Nat PROVE IsFiniteSet(1..k)
  BY FS_Interval
<1>2. IsFiniteSet(DOMAIN seq)
  BY <1>1 DEF Indexed
<1>3. ToSet(seq) = {seq[i] : i \in DOMAIN seq}
  BY DEF ToSet
<1>4. PICK S, T, f : S = DOMAIN seq /\ T = ToSet(seq) /\ f = [i \in S |-> seq[i]]
  OBVIOUS
<1>5. IsFiniteSet(S) /\ f \in [S -> T] /\ \A y \in T : \E x \in S : f[x] = y
  BY <1>2, <1>3, <1>4
<1>6. IsFiniteSet(T)
  BY <1>5, ImagesAreFinite
<1> QED BY <1>4, <1>6
-----------------------------------------------------------------------------
\* The scan.  Files are the supported files; Failing and Reading are how the table of
\* failures and the handlers' statuses speak of one of them.
Files == inventory.supported
Paths == {Files[i].path : i \in DOMAIN Files}
Failing(path) == path \in DOMAIN codes
Noted(path) == \E k \in DOMAIN ran[path] : ran[path][k] # "ok"

Apart(files) ==
  /\ Indexed(files)
  /\ \A i \in DOMAIN files : files[i].path # Root
  /\ \A i, j \in DOMAIN files : files[i].path = files[j].path => i = j
PartOf(part, files, S) == \A k \in DOMAIN part : \E i \in S : part[k] = files[i]
FilesApart(files) ==
  Apart(files) /\ \A i \in DOMAIN files : Supported(files[i]) /\ files[i] \in WalkedFiles

\* What is known of the i-th file while the scan is at `next`.
FileAccounted(i) ==
  LET path == Files[i].path
  IN  /\ i < next => Failing(path) \/ path \in DOMAIN ran
      /\ i = next /\ phase = "reading" =>
           path \in DOMAIN ran /\ Len(ran[path]) < Len(HandlersFor(Files[i]))
      /\ path \in DOMAIN ran =>
           /\ i < next \/ (i = next /\ phase = "reading")
           /\ IsList(ran[path])
           /\ Failing(path) <=> Noted(path)
           /\ i < next => Len(ran[path]) = Len(HandlersFor(Files[i]))

Accounting ==
  /\ FilesApart(Files)
  /\ next \in 1..(Len(Files) + 1)
  /\ phase = "reading" => next \in DOMAIN Files
  /\ DOMAIN codes \subseteq Paths \cup {Root}
  /\ \A i \in DOMAIN Files : FileAccounted(i)

ScanInv ==
  /\ half = "scan" => tree \in Trees
  /\ phase \in {"start", "collecting", "reading", "rejected"} => metrics = NoMetrics
  /\ phase = "start" => next = 1 /\ codes = <<>> /\ ran = <<>>
  /\ phase \in {"collecting", "reading"} => Accounting
  /\ EveryFileAccounted
-----------------------------------------------------------------------------
\* A supported file has a handler.
LEMMA HandlersAreThere ==
  ASSUME NEW file, Supported(file)
  PROVE  Indexed(HandlersFor(file)) /\ Len(HandlersFor(file)) > 0
<1>1. PICK named, others : /\ named = IF Last(file.path) \in Manifests THEN <<"dep">> ELSE <<>>
                           /\ others = ExtensionHandlers(file.ext)
  OBVIOUS
<1>2. PICK S : S = {i \in DOMAIN others : others[i] \notin ToSet(named)}
  OBVIOUS
<1>3. others \in Seq({"ast", "rule", "cert"})
  <2>1. PICK a, b, c : /\ a = IF file.ext = ".py" THEN <<"ast">> ELSE <<>>
                       /\ b = IF file.ext \in CodeExtensions THEN <<"rule">> ELSE <<>>
                       /\ c = IF file.ext \in CertExtensions THEN <<"cert">> ELSE <<>>
    OBVIOUS
  <2>2. /\ a \in Seq({"ast", "rule", "cert"}) /\ b \in Seq({"ast", "rule", "cert"})
        /\ c \in Seq({"ast", "rule", "cert"})
    <3>1. <<"ast">> \in Seq({"ast", "rule", "cert"})
      OBVIOUS
    <3>2. <<"rule">> \in Seq({"ast", "rule", "cert"})
      OBVIOUS
    <3>3. <<"cert">> \in Seq({"ast", "rule", "cert"})
      OBVIOUS
    <3>4. <<>> \in Seq({"ast", "rule", "cert"})
      OBVIOUS
    <3> QED BY <2>1, <3>1, <3>2, <3>3, <3>4, Zenon
  <2>3. a \o b \o c \in Seq({"ast", "rule", "cert"})
    BY <2>2
  <2>4. others = a \o b \o c
    BY <1>1, <2>1 DEF ExtensionHandlers
  <2> QED BY <2>3, <2>4
<1>4. Indexed(Selected(others, S))
  BY <1>2, <1>3, PartsAreIndexed DEF Indexed
<1>5. PICK more, T : more = Selected(others, S) /\ T = {more[i] : i \in DOMAIN more} \cup {"dep"}
  OBVIOUS
<1>6. more \in Seq(T) /\ named \in Seq(T)
  <2>1. PICK k \in Nat : DOMAIN more = 1..k
    BY <1>4, <1>5 DEF Indexed
  <2>2. more = [i \in 1..k |-> more[i]]
    BY <1>5, <2>1 DEF Selected
  <2>3. \A i \in 1..k : more[i] \in T
    BY <1>5, <2>1
  <2>4. more \in Seq(T)
    BY <2>2, <2>3
  <2>5. <<"dep">> \in Seq(T) /\ <<>> \in Seq(T)
    BY <1>5
  <2> QED BY <1>1, <2>4, <2>5, Zenon
<1>7. HandlersFor(file) = named \o more
  BY <1>1, <1>2, <1>5 DEF HandlersFor
<1>8. /\ named \o more \in Seq(T)
      /\ Len(named \o more) = Len(named) + Len(more) /\ Len(named) \in Nat /\ Len(more) \in Nat
  BY <1>6
<1>9. CASE Last(file.path) \in Manifests
  <2>1. Len(named) = 1
    BY <1>1, <1>9
  <2> QED BY <1>7, <1>8, <2>1 DEF Indexed
<1>10. CASE Last(file.path) \notin Manifests
  <2>1. named = <<>> /\ file.ext \in CodeExtensions \cup CertExtensions
    BY <1>1, <1>10 DEF Supported
  <2>2. others # <<>>
    BY <1>1, <2>1 DEF ExtensionHandlers
  <2>3. S = 1..Len(others) /\ Len(others) > 0
    BY <1>2, <1>3, <2>1, <2>2 DEF ToSet
  <2>4. 1 \in S
    BY <1>3, <2>3
  <2>5. ToSet(more) = {others[i] : i \in S}
    BY <1>2, <1>3, <1>5, PartsAreIndexed DEF Indexed
  <2>6. PICK i \in DOMAIN more : more[i] = others[1]
    BY <2>4, <2>5 DEF ToSet
  <2>7. Len(more) > 0
    BY <1>6, <1>8, <2>6
  <2> QED BY <1>7, <1>8, <2>7 DEF Indexed
<1> QED BY <1>9, <1>10

\* Parts of a list of files that are apart are apart.
LEMMA PartsAreApart ==
  ASSUME NEW files, Apart(files), NEW S \in SUBSET (DOMAIN files),
         NEW part, part = Selected(files, S)
  PROVE  Apart(part) /\ PartOf(part, files, S)
<1>1. /\ Indexed(part)
      /\ \A k \in DOMAIN part : At(S, k) \in S /\ part[k] = files[At(S, k)]
      /\ \A k, l \in DOMAIN part : At(S, k) = At(S, l) => k = l
  BY PartsAreIndexed DEF Apart
<1> QED BY <1>1 DEF Apart, PartOf

\* Hence the supported files, of what os.walk found.
LEMMA InventoryIsApart ==
  ASSUME tree \in Trees, NEW supported,
         supported = Selected(Walked, {i \in DOMAIN Walked : Supported(Walked[i])})
  PROVE  FilesApart(supported)
<1>1. PICK found : found = tree.files
  OBVIOUS
<1>2. Apart(found)
  BY <1>1, TreesAssumption DEF Apart, Indexed, Root
<1>3. PICK walked : walked = Walked
  OBVIOUS
<1>4. Apart(walked) /\ \A i \in DOMAIN walked : walked[i] \in WalkedFiles
  <2>1. PICK S \in SUBSET (DOMAIN found) :
          S = {i \in DOMAIN found : ToSet(Front(found[i].path)) \cap Excluded = {}}
    OBVIOUS
  <2>2. walked = Selected(found, S)
    BY <1>1, <1>3, <2>1 DEF Walked
  <2>3. Apart(walked) /\ PartOf(walked, found, S)
    BY <1>2, <2>1, <2>2, PartsAreApart
  <2>4. \A i \in DOMAIN found : found[i] \in WalkedFiles
    BY <1>1 DEF WalkedFiles, ToSet
  <2> QED BY <2>1, <2>3, <2>4 DEF PartOf
<1>5. PICK S \in SUBSET (DOMAIN walked) : S = {i \in DOMAIN walked : Supported(walked[i])}
  OBVIOUS
<1>6. PICK part : part = Selected(walked, S)
  OBVIOUS
<1>7. Apart(part) /\ PartOf(part, walked, S)
  BY <1>4, <1>5, <1>6, PartsAreApart
<1>8. \A k \in DOMAIN part : Supported(part[k]) /\ part[k] \in WalkedFiles
  BY <1>4, <1>5, <1>7 DEF PartOf
<1>9. supported = part
  BY <1>3, <1>5, <1>6
<1> QED BY <1>7, <1>8, <1>9 DEF FilesApart

\* The inventory puts the scan at its first file.
LEMMA Inventoried ==
  ASSUME ScanInv, half = "scan", Inventory
  PROVE  Accounting'
<1>1. PICK supported : /\ supported = Selected(Walked, {i \in DOMAIN Walked : Supported(Walked[i])})
                       /\ inventory'.supported = supported
  BY DEF Inventory
<1>2. FilesApart(supported)
  BY <1>1, InventoryIsApart DEF ScanInv
<1>3. phase' = "collecting" /\ next' = 1 /\ ran' = <<>>
  BY DEF Inventory, ScanInv
<1>4. DOMAIN codes' \subseteq {supported[i].path : i \in DOMAIN supported} \cup {Root}
  <2>1. PICK unfit : unfit = {f \in ToSet(supported) : Unfit(f) # "fit"}
    OBVIOUS
  <2>2. PICK over : DOMAIN codes' = {f.path : f \in unfit} \cup (IF over THEN {Root} ELSE {})
    BY <1>1, <2>1 DEF Inventory
  <2>3. \A f \in unfit : \E i \in DOMAIN supported : f = supported[i]
    BY <2>1 DEF ToSet
  <2>4. CASE over
    BY <2>2, <2>3, <2>4
  <2>5. CASE ~over
    BY <2>2, <2>3, <2>5
  <2> QED BY <2>4, <2>5
<1>5. Files' = supported
  BY <1>1 DEF Files
<1>6. DOMAIN codes' \subseteq (Paths \cup {Root})'
  BY <1>4, <1>5 DEF Paths
<1>7. Len(supported) \in Nat /\ DOMAIN supported = 1..Len(supported)
  BY <1>2 DEF FilesApart, Apart, Indexed
<1>8. \A i \in DOMAIN supported : FileAccounted(i)'
  BY <1>3, <1>5, <1>7 DEF FileAccounted
<1> QED BY <1>2, <1>3, <1>5, <1>6, <1>7, <1>8 DEF Accounting

\* A file that has failed before it is its turn.
LEMMA PathSkipped ==
  ASSUME Accounting, SkipPath
  PROVE  Accounting'
<1>1. /\ phase = "collecting" /\ phase' = phase /\ next' = next + 1 /\ codes' = codes
      /\ ran' = ran /\ Files' = Files /\ next <= Len(Files) /\ Failing(Files[next].path)
  BY DEF SkipPath, Files, Failing
<1>2. /\ Len(Files) \in Nat /\ DOMAIN Files = 1..Len(Files) /\ next \in 1..(Len(Files) + 1)
      /\ FilesApart(Files) /\ DOMAIN codes \subseteq Paths \cup {Root}
      /\ \A i \in DOMAIN Files : FileAccounted(i)
  BY DEF Accounting, FilesApart, Apart, Indexed
<1>3. ASSUME NEW i \in DOMAIN Files PROVE FileAccounted(i)'
  <2>1. FileAccounted(i)
    BY <1>2
  <2>2. i < next + 1 <=> i < next \/ i = next
    BY <1>2
  <2> QED BY <1>1, <1>2, <2>1, <2>2 DEF FileAccounted, Failing, Noted
<1> QED BY <1>1, <1>2, <1>3 DEF Accounting, Paths

\* A file that the budget no longer allows, or the first look at it.
LEMMA PathOpened ==
  ASSUME Accounting, OpenPath
  PROVE  Accounting'
<1>1. PICK path : path = Files[next].path
  OBVIOUS
<1>2. /\ phase = "collecting" /\ Files' = Files /\ next <= Len(Files) /\ ~Failing(path)
      /\ \/ /\ \E reason : codes' = Put(codes, path, reason)
            /\ next' = next + 1 /\ phase' = phase /\ ran' = ran
         \/ /\ ran' = Put(ran, path, <<>>) /\ phase' = "reading"
            /\ next' = next /\ codes' = codes
  BY <1>1 DEF OpenPath, BudgetStop, Files, Failing
<1>3. /\ Len(Files) \in Nat /\ DOMAIN Files = 1..Len(Files) /\ next \in 1..(Len(Files) + 1)
      /\ FilesApart(Files) /\ DOMAIN codes \subseteq Paths \cup {Root}
      /\ \A i \in DOMAIN Files : FileAccounted(i)
  BY DEF Accounting, FilesApart, Apart, Indexed
<1>4. next \in DOMAIN Files /\ path \in Paths /\ Supported(Files[next])
  BY <1>1, <1>2, <1>3 DEF Paths, FilesApart
<1>5. \A i \in DOMAIN Files : Files[i].path = path => i = next
  BY <1>1, <1>3, <1>4 DEF FilesApart, Apart
<1>6. path \notin DOMAIN ran
  <2>1. FileAccounted(next)
    BY <1>3, <1>4
  <2> QED BY <1>1, <1>2, <1>3, <2>1 DEF FileAccounted
<1>7. CASE \E reason : codes' = Put(codes, path, reason) /\ next' = next + 1 /\ phase' = phase /\ ran' = ran
  <2>1. PICK reason : codes' = Put(codes, path, reason)
    BY <1>7
  <2>2. DOMAIN codes' = DOMAIN codes \cup {path}
    BY <2>1, PutPuts
  <2>3. ASSUME NEW i \in DOMAIN Files PROVE FileAccounted(i)'
    <3>1. FileAccounted(i)
      BY <1>3
    <3>2. CASE i = next
      BY <1>1, <1>2, <1>3, <1>6, <1>7, <2>2, <3>2 DEF FileAccounted, Failing
    <3>3. CASE i # next
      <4>1. (i < next + 1 <=> i < next) /\ Files[i].path # path
        BY <1>3, <1>5, <3>3
      <4> QED BY <1>2, <1>7, <2>2, <3>1, <4>1 DEF FileAccounted, Failing, Noted
    <3> QED BY <3>2, <3>3
  <2>4. next' \in 1..(Len(Files) + 1)
    BY <1>2, <1>3, <1>7
  <2>5. Paths' = Paths
    BY <1>2 DEF Paths
  <2> QED BY <1>2, <1>3, <1>4, <1>7, <2>2, <2>3, <2>4, <2>5 DEF Accounting
<1>8. CASE ran' = Put(ran, path, <<>>) /\ phase' = "reading" /\ next' = next /\ codes' = codes
  <2>1. /\ DOMAIN ran' = DOMAIN ran \cup {path} /\ ran'[path] = <<>>
        /\ \A q \in DOMAIN ran : q # path => ran'[q] = ran[q]
    <3>1. PICK new : new = Put(ran, path, <<>>)
      OBVIOUS
    <3>2. /\ DOMAIN new = DOMAIN ran \cup {path} /\ new[path] = <<>>
          /\ \A q \in DOMAIN ran : q # path => new[q] = ran[q]
      BY <3>1 DEF Put
    <3> QED BY <1>8, <3>1, <3>2
  <2>2. IsList(<<>>) /\ Len(<<>>) = 0
    BY DEF IsList
  <2>3. Len(HandlersFor(Files[next])) > 0
    BY <1>4, HandlersAreThere
  <2>4. ~Noted(path)'
    BY <2>1 DEF Noted
  <2>5. ASSUME NEW i \in DOMAIN Files PROVE FileAccounted(i)'
    <3>1. FileAccounted(i)
      BY <1>3
    <3>2. CASE i = next
      BY <1>1, <1>2, <1>3, <1>8, <2>1, <2>2, <2>3, <2>4, <3>2 DEF FileAccounted, Failing
    <3>3. CASE i # next
      <4>1. Files[i].path # path
        BY <1>5, <3>3
      <4> QED BY <1>2, <1>8, <2>1, <3>1, <3>3, <4>1 DEF FileAccounted, Failing, Noted
    <3> QED BY <3>2, <3>3
  <2>6. Paths' = Paths
    BY <1>2 DEF Paths
  <2> QED BY <1>2, <1>3, <1>4, <1>8, <2>5, <2>6 DEF Accounting
<1> QED BY <1>2, <1>7, <1>8

\* A handler that has read the file, whatever it says of it.
LEMMA PathRead ==
  ASSUME Accounting, ReadPath
  PROVE  phase' = "rejected" \/ Accounting'
<1> SUFFICES ASSUME phase' # "rejected" PROVE Accounting'
  OBVIOUS
<1>1. PICK path, before : path = Files[next].path /\ before = ran[path]
  OBVIOUS
<1>2. PICK handlers : handlers = HandlersFor(Files[next])
  OBVIOUS
<1>3. PICK status, reason :
        /\ phase = "reading" /\ Files' = Files
        /\ codes' = IF status = "ok" THEN codes ELSE Default(codes, path, reason)
        /\ ran' = [ran EXCEPT ![path] = Append(before, status)]
        /\ IF Len(before) + 1 < Len(handlers) THEN phase' = phase /\ next' = next
           ELSE phase' = "collecting" /\ next' = next + 1
  <2>1. PICK content \in Reads[path] :
          LET result == Handle(handlers[Len(before) + 1], Files[next], content)
              reason == IF handlers[Len(before) + 1] = "cert" /\ result.status = "reports"
                        THEN "certificate_error" ELSE "parse_error"
          IN  /\ codes' = IF result.status = "ok" THEN codes
                          ELSE Default(codes, path, reason)
              /\ ran' = [ran EXCEPT ![path] = Append(@, result.status)]
              /\ IF Len(before) + 1 < Len(handlers) THEN phase' = phase /\ next' = next
                 ELSE phase' = "collecting" /\ next' = next + 1
    BY <1>1, <1>2 DEF ReadPath, Files
  <2>2. phase = "reading" /\ Files' = Files
    BY DEF ReadPath, Files
  <2> QED BY <1>1, <2>1, <2>2
<1>4. /\ Len(Files) \in Nat /\ DOMAIN Files = 1..Len(Files) /\ next \in 1..Len(Files)
      /\ FilesApart(Files) /\ DOMAIN codes \subseteq Paths \cup {Root}
      /\ \A i \in DOMAIN Files : FileAccounted(i)
  BY <1>3 DEF Accounting, FilesApart, Apart, Indexed
<1>5. /\ path \in DOMAIN ran /\ IsList(before) /\ Len(before) < Len(handlers)
      /\ Failing(path) <=> Noted(path)
  BY <1>1, <1>2, <1>3, <1>4 DEF FileAccounted
<1>6. path \in Paths /\ \A i \in DOMAIN Files : Files[i].path = path => i = next
  BY <1>1, <1>4 DEF FilesApart, Apart, Paths
<1>7. PICK after : after = Append(before, status)
  OBVIOUS
<1>8. /\ IsList(after) /\ Len(before) \in Nat /\ DOMAIN before = 1..Len(before)
      /\ Len(after) = Len(before) + 1 /\ DOMAIN after = 1..(Len(before) + 1)
      /\ \A k \in 1..Len(before) : after[k] = before[k]
      /\ after[Len(before) + 1] = status
  BY <1>5, <1>7, Appended
<1>9. /\ DOMAIN ran' = DOMAIN ran /\ ran'[path] = after
      /\ \A q \in DOMAIN ran : q # path => ran'[q] = ran[q]
  BY <1>3, <1>5, <1>7
<1>10. /\ DOMAIN codes' = IF status = "ok" THEN DOMAIN codes ELSE DOMAIN codes \cup {path}
  BY <1>3 DEF Default, Put
<1>11. Noted(path)' <=> Noted(path) \/ status # "ok"
  <2>1. Noted(path) <=> \E k \in 1..Len(before) : before[k] # "ok"
    BY <1>1, <1>8 DEF Noted
  <2>2. Noted(path)' <=> \E k \in 1..(Len(before) + 1) : after[k] # "ok"
    BY <1>8, <1>9 DEF Noted
  <2>3. \A k \in 1..(Len(before) + 1) : k \in 1..Len(before) \/ k = Len(before) + 1
    BY <1>8
  <2>4. \A k \in 1..Len(before) : k \in 1..(Len(before) + 1)
    BY <1>8
  <2>5. Len(before) + 1 \in 1..(Len(before) + 1)
    BY <1>8
  <2> QED BY <1>8, <2>1, <2>2, <2>3, <2>4, <2>5, Zenon
<1>12. Failing(path)' <=> Noted(path)'
  BY <1>5, <1>10, <1>11 DEF Failing
<1>13. Len(handlers) \in Nat
  <2>1. Supported(Files[next])
    BY <1>4 DEF FilesApart
  <2> QED BY <1>2, <2>1, HandlersAreThere DEF Indexed
<1>14. ASSUME NEW i \in DOMAIN Files PROVE FileAccounted(i)'
  <2>1. FileAccounted(i)
    BY <1>4
  <2>2. CASE i = next
    <3>1. path \in DOMAIN ran' /\ IsList(ran'[path]) /\ (Failing(path)' <=> Noted(path)')
      BY <1>5, <1>8, <1>9, <1>12
    <3>2. CASE Len(before) + 1 < Len(handlers)
      <4>1. /\ phase' = "reading" /\ next' = next /\ ~(next < next)
            /\ Len(ran'[path]) < Len(handlers)
        BY <1>3, <1>4, <1>8, <1>9, <3>2
      <4> QED BY <1>1, <1>2, <1>3, <2>2, <3>1, <4>1 DEF FileAccounted
    <3>3. CASE ~(Len(before) + 1 < Len(handlers))
      <4>1. /\ phase' = "collecting" /\ next < next' /\ next # next'
            /\ Len(ran'[path]) = Len(handlers)
        BY <1>3, <1>4, <1>5, <1>8, <1>9, <1>13, <3>3
      <4> QED BY <1>1, <1>2, <1>3, <2>2, <3>1, <4>1 DEF FileAccounted
    <3> QED BY <3>2, <3>3
  <2>3. CASE i # next
    <3>1. Files[i].path # path
      BY <1>6, <2>3
    <3>2. (i < next' <=> i < next) /\ (i = next' => phase' = "collecting")
      BY <1>3, <1>4, <2>3
    <3>3. /\ Failing(Files[i].path)' <=> Failing(Files[i].path)
          /\ Files[i].path \in DOMAIN ran => (Noted(Files[i].path)' <=> Noted(Files[i].path))
      BY <1>3, <1>9, <1>10, <3>1 DEF Failing, Noted
    <3> QED BY <1>3, <1>9, <2>1, <2>3, <3>1, <3>2, <3>3 DEF FileAccounted
  <2> QED BY <2>2, <2>3
<1>15. Paths' = Paths /\ DOMAIN codes' \subseteq Paths \cup {Root}
  BY <1>3, <1>4, <1>6, <1>10 DEF Paths
<1> QED BY <1>3, <1>4, <1>14, <1>15 DEF Accounting

\* The figures fit when all files had their turn.
LEMMA Measured ==
  ASSUME Accounting, Measure
  PROVE  EveryFileAccounted'
<1>1. /\ Files' = Files /\ codes' = codes /\ ran' = ran /\ next > Len(Files)
      /\ phase = "collecting"
  BY DEF Measure, Files
<1>2. /\ Len(Files) \in Nat /\ DOMAIN Files = 1..Len(Files) /\ next \in 1..(Len(Files) + 1)
      /\ FilesApart(Files) /\ DOMAIN codes \subseteq Paths \cup {Root}
      /\ \A i \in DOMAIN Files : FileAccounted(i)
  BY DEF Accounting, FilesApart, Apart, Indexed
<1>3. PICK clean : clean = {f.path : f \in {g \in ToSet(Files) :
             /\ g.path \in DOMAIN ran /\ Len(ran[g.path]) = Len(HandlersFor(g))
             /\ \A i \in DOMAIN ran[g.path] : ran[g.path][i] = "ok"}}
  OBVIOUS
<1>4. \A i \in DOMAIN Files : Files[i].path \in clean <=> ~Failing(Files[i].path)
  <2>1. SUFFICES ASSUME NEW i \in DOMAIN Files
                 PROVE  Files[i].path \in clean <=> ~Failing(Files[i].path)
    OBVIOUS
  <2>2. FileAccounted(i) /\ i < next
    BY <1>1, <1>2
  <2>3. Files[i].path \in clean =>
          Files[i].path \in DOMAIN ran /\ ~Noted(Files[i].path)
    BY <1>3 DEF Noted
  <2>4. ASSUME Files[i].path \in DOMAIN ran, ~Noted(Files[i].path),
               Len(ran[Files[i].path]) = Len(HandlersFor(Files[i]))
        PROVE  Files[i].path \in clean
    <3>1. PICK file : file = Files[i]
      OBVIOUS
    <3>2. file \in ToSet(Files)
      BY <3>1 DEF ToSet
    <3>4. PICK good : good = {g \in ToSet(Files) :
             /\ g.path \in DOMAIN ran /\ Len(ran[g.path]) = Len(HandlersFor(g))
             /\ \A k \in DOMAIN ran[g.path] : ran[g.path][k] = "ok"}
      OBVIOUS
    <3>5. file \in good
      BY <2>4, <3>1, <3>2, <3>4 DEF Noted
    <3>6. clean = {f.path : f \in good}
      BY <1>3, <3>4
    <3> QED BY <3>1, <3>5, <3>6
  <2> QED BY <2>2, <2>3, <2>4 DEF FileAccounted
<1>5. clean = Paths \ DOMAIN codes
  <2>1. clean \subseteq Paths
    BY <1>3 DEF Paths, ToSet
  <2> QED BY <1>4, <2>1 DEF Paths, Failing
<1>6. /\ IsFiniteSet(Paths) /\ Cardinality(Paths) = Len(Files) /\ Root \notin Paths
  <2>1. PICK files, n : files = Files /\ n = Len(Files)
    OBVIOUS
  <2>2. [i \in 1..n |-> files[i].path] \in Bijection(1..n, Paths)
    BY <1>2, <2>1 DEF Bijection, Injection, Surjection, IsInjective, FilesApart, Apart, Paths
  <2>3. IsFiniteSet(1..n) /\ Cardinality(1..n) = n
    <3>1. ASSUME NEW k \in Nat PROVE IsFiniteSet(1..k) /\ Cardinality(1..k) = k
      BY FS_Interval
    <3>2. n \in Nat
      BY <1>2, <2>1
    <3> QED BY <3>1, <3>2
  <2>4. IsFiniteSet(Paths) /\ Cardinality(Paths) = n
    <3>1. PICK f, whole : f \in Bijection(whole, Paths) /\ IsFiniteSet(whole) /\ Cardinality(whole) = n
      BY <2>2, <2>3
    <3>2. ExistsBijection(whole, Paths)
      BY <3>1 DEF ExistsBijection
    <3> QED BY <3>1, <3>2, FS_Bijection
  <2> QED BY <1>2, <2>1, <2>4 DEF FilesApart, Apart, Paths
<1>7. PICK extra \in {0, 1} : /\ extra = IF Root \in DOMAIN codes THEN 1 ELSE 0
                             /\ Cardinality(DOMAIN codes) = Cardinality(Paths \cap DOMAIN codes) + extra
                             /\ IsFiniteSet(DOMAIN codes)
  <2>1. IsFiniteSet(Paths \cap DOMAIN codes)
    BY <1>6, FS_Subset
  <2>2. CASE Root \in DOMAIN codes
    <3>1. DOMAIN codes = (Paths \cap DOMAIN codes) \cup {Root}
      BY <1>2, <2>2
    <3> QED BY <1>6, <2>1, <2>2, <3>1, FS_AddElement
  <2>3. CASE Root \notin DOMAIN codes
    <3>1. DOMAIN codes = Paths \cap DOMAIN codes
      BY <1>2, <2>3
    <3>2. Cardinality(DOMAIN codes) \in Nat
      BY <2>1, <3>1, FS_CardinalityType
    <3> QED BY <2>1, <2>3, <3>1, <3>2
  <2> QED BY <2>2, <2>3
<1>8. Cardinality(clean) = Len(Files) - Cardinality(Paths \cap DOMAIN codes)
  BY <1>5, <1>6, FS_Difference
<1>9. Cardinality(DOMAIN codes) \in Nat /\ Cardinality(clean) \in Nat
      /\ Cardinality(Paths \cap DOMAIN codes) \in Nat
  BY <1>5, <1>6, <1>7, FS_CardinalityType, FS_Subset
<1>10. PICK failed, left : /\ failed = Cardinality(DOMAIN codes) /\ left = Len(Files) - failed
                           /\ metrics'.scanned = (IF left < 0 THEN 0 ELSE left)
                           /\ metrics'.failures = {<<path, codes[path]>> : path \in {q \in DOMAIN codes : Listed(q)}}
                           /\ metrics'.blind_spots = BlindSpots(failed)
  BY DEF Measure, Files
<1>11. metrics'.scanned <= Cardinality(clean)
       /\ (metrics'.scanned < Cardinality(clean) => Root \in DOMAIN codes)
  BY <1>2, <1>7, <1>8, <1>9, <1>10
<1>12. PICK listed : listed = {f[1] : f \in metrics'.failures}
  OBVIOUS
<1>13. listed = DOMAIN codes \ {Root}
  <2>1. PICK named : named = {q \in DOMAIN codes : Listed(q)}
    OBVIOUS
  <2>2. metrics'.failures = {<<path, codes[path]>> : path \in named}
    BY <1>10, <2>1
  <2>3. \A q \in named : <<q, codes[q]>> \in metrics'.failures /\ <<q, codes[q]>>[1] = q
    BY <2>2
  <2>4. \A f \in metrics'.failures : f[1] \in named
    BY <2>2
  <2>5. listed = named
    BY <1>12, <2>3, <2>4
  <2> QED BY <2>1, <2>5 DEF Listed
<1>14. Paths \ clean = listed
  BY <1>2, <1>5, <1>6, <1>13
<1>15. listed # {} => "evidence may be partial" \in metrics'.blind_spots
  <2>1. listed # {} => failed > 0
    BY <1>7, <1>9, <1>10, <1>13, FS_EmptySet
  <2> QED BY <1>10, <2>1 DEF BlindSpots
<1>16. Paths = {f.path : f \in ToSet(Files)}
  BY DEF Paths, ToSet
<1> QED BY <1>1, <1>3, <1>11, <1>12, <1>14, <1>15, <1>16 DEF EveryFileAccounted, Files

\* Every step of a scan keeps the accounts.
LEMMA ScanKept ==
  ASSUME ScanInv, [Next]_assuranceVars
  PROVE  ScanInv'
<1> USE DEF ScanInv
<1>1. CASE UNCHANGED <<half, scanVars>>
  BY <1>1 DEF scanVars, Accounting, FileAccounted, Files, Paths, Failing, Noted, EveryFileAccounted
<1>2. CASE half = "scan" /\ half' = half /\ CollectNext
  <2>1. tree' = tree
    BY <1>2 DEF CollectNext, RejectScan, Reject, Inventory, SkipPath, OpenPath, ReadPath, Measure
  <2>2. CASE RejectScan
    BY <1>2, <2>1, <2>2 DEF RejectScan, Reject, EveryFileAccounted
  <2>3. CASE Inventory
    <3>1. Accounting' /\ metrics' = NoMetrics /\ phase' = "collecting"
      BY <1>2, <2>3, Inventoried DEF Inventory
    <3> QED BY <1>2, <2>1, <3>1 DEF EveryFileAccounted
  <2>4. CASE SkipPath
    <3>1. Accounting' /\ metrics' = NoMetrics /\ phase' = "collecting"
      BY <2>4, PathSkipped DEF SkipPath
    <3> QED BY <1>2, <2>1, <3>1 DEF EveryFileAccounted
  <2>5. CASE OpenPath
    <3>1. Accounting' /\ metrics' = NoMetrics /\ phase' # "start"
      BY <2>5, PathOpened DEF OpenPath
    <3> QED BY <1>2, <2>1, <3>1 DEF EveryFileAccounted
  <2>6. CASE ReadPath
    <3>1. (phase' = "rejected" \/ Accounting') /\ metrics' = NoMetrics /\ phase' # "start"
      BY <2>6, PathRead DEF ReadPath
    <3> QED BY <1>2, <2>1, <3>1 DEF EveryFileAccounted
  <2>7. CASE Measure
    <3>1. EveryFileAccounted' /\ phase' = "collected"
      BY <2>7, Measured DEF Measure
    <3> QED BY <1>2, <2>1, <3>1
  <2> QED BY <1>2, <2>2, <2>3, <2>4, <2>5, <2>6, <2>7 DEF CollectNext
<1>3. CASE half' = half /\ CorrelateEvidence
  BY <1>3 DEF CorrelateEvidence, EveryFileAccounted
<1> QED BY <1>1, <1>2, <1>3
        DEF Next, Scanning, Evaluating, ReportNext, Claim, Collect, Persist, Fail, assuranceVars,
            reportVars

\* Hence in every reachable state.
LEMMA ScanHeld == Spec => []ScanInv
<1>1. Init => ScanInv
  BY DEF Init, ReportInit, ScanInit, ScanInv, EveryFileAccounted
<1>2. ScanInv /\ [Next]_assuranceVars => ScanInv'
  BY ScanKept
<1> QED BY <1>1, <1>2, PTL DEF Spec

\* When scan_with_metrics returns, each supported file was read by all of its handlers
\* without a failure or is in the list of failures, never both, and no more files
\* count as scanned than were read: the coverage of the report is not overstated.
THEOREM FilesAreAccounted == Spec => []EveryFileAccounted
<1>1. ScanInv => EveryFileAccounted
  BY DEF ScanInv
<1> QED BY <1>1, ScanHeld, PTL
-----------------------------------------------------------------------------
\* The correlation of evidence.  Kept is what a version makes findings of, KeyOf what
\* it groups it by, and FindingFor the finding of a group.
Kept(version, records) ==
  {r \in records : version = "v3" \/ ~Suppressed(records, r)}
KeyOf(version, r) == IF version = "v3" THEN KeyV3(r) ELSE KeyV2(r)
GroupOf(version, records, key) == {r \in Kept(version, records) : KeyOf(version, r) = key}
FindingFor(version, records, key) ==
  IF version = "v3" THEN FindingV3(records, key, GroupOf(version, records, key))
  ELSE FindingV2(records, key, GroupOf(version, records, key))
Keys(version, records) == {KeyOf(version, r) : r \in Kept(version, records)}

\* A record as a collector's observation becomes one, evidence as the collectors leave
\* it (each record has its number), and records that have numbers of their own.
IsRecord(r) ==
  r.id \in Int /\ DOMAIN r = DOMAIN Observation /\ Observed(r) \in Contents
Recording(seq) == IsList(seq) /\ \A i \in DOMAIN seq : seq[i].id = i /\ IsRecord(seq[i])
Distinct(records) ==
  /\ IsFiniteSet(records) /\ \A r \in records : IsRecord(r)
  /\ \A q, r \in records : q.id = r.id => q = r

\* Evidence has numbers of its own, and so have parts of it.
LEMMA EvidenceIsDistinct ==
  ASSUME NEW seq, Recording(seq)
  PROVE  Distinct(ToSet(seq))
<1>1. IsFiniteSet(ToSet(seq))
  BY ListsAreIndexed, ListsAreFinite DEF Recording
<1> QED BY <1>1 DEF Recording, Distinct, ToSet

LEMMA PartsAreDistinct ==
  ASSUME NEW records, Distinct(records), NEW part \in SUBSET records
  PROVE  Distinct(part)
  BY FS_Subset DEF Distinct

\* The groups of the two versions.
GroupV2(records, key) == {r \in {q \in records : ~Suppressed(records, q)} : KeyV2(r) = key}
GroupV3(records, key) == {r \in records : KeyV3(r) = key}

\* Findings are for the keys of what is kept.
LEMMA FindingsByKey ==
  ASSUME NEW seq, NEW version, NEW records, records = ToSet(seq)
  PROVE  Correlate(version, seq) =
           {FindingFor(version, records, key) : key \in Keys(version, records)}
<1>1. CASE version = "v3"
  <2>1. Kept(version, records) = records
    BY <1>1 DEF Kept
  <2>2. \A r : KeyOf(version, r) = KeyV3(r)
    BY <1>1 DEF KeyOf
  <2>3. \A key : GroupOf(version, records, key) = GroupV3(records, key)
    BY <2>1, <2>2 DEF GroupOf, GroupV3
  <2>4. \A key : FindingFor(version, records, key) = FindingV3(records, key, GroupV3(records, key))
    BY <1>1, <2>3 DEF FindingFor
  <2>5. Keys(version, records) = {KeyV3(r) : r \in records}
    BY <2>1, <2>2 DEF Keys
  <2>6. Correlate(version, seq) =
          {FindingV3(records, key, GroupV3(records, key)) : key \in {KeyV3(r) : r \in records}}
    BY <1>1 DEF Correlate, CorrelateV3, GroupV3
  <2> QED BY <2>4, <2>5, <2>6
<1>2. CASE version # "v3"
  <2>1. PICK kept : kept = {r \in records : ~Suppressed(records, r)}
    OBVIOUS
  <2>2. Kept(version, records) = kept
    BY <1>2, <2>1 DEF Kept
  <2>3. \A r : KeyOf(version, r) = KeyV2(r)
    BY <1>2 DEF KeyOf
  <2>4. \A key : GroupOf(version, records, key) = GroupV2(records, key)
    BY <2>1, <2>2, <2>3 DEF GroupOf, GroupV2
  <2>5. \A key : FindingFor(version, records, key) = FindingV2(records, key, GroupV2(records, key))
    BY <1>2, <2>4 DEF FindingFor
  <2>6. Keys(version, records) = {KeyV2(r) : r \in kept}
    BY <2>2, <2>3 DEF Keys
  <2>7. Correlate(version, seq) =
          {FindingV2(records, key, GroupV2(records, key)) : key \in {KeyV2(r) : r \in kept}}
    BY <1>2, <2>1 DEF Correlate, CorrelateV2, GroupV2
  <2> QED BY <2>5, <2>6, <2>7
<1> QED BY <1>1, <1>2
-----------------------------------------------------------------------------
\* The order of the records.
Sooner(records) == {pair \in records \X records : Earlier(pair[1], pair[2])}

\* It is one: records with the same text have different numbers.
LEMMA TextOrders ==
  ASSUME NEW records, Distinct(records)
  PROVE  Orders(Sooner(records), records)
<1> DEFINE text(r) == TextRank[Observed(r)]
<1>1. \A r \in records : text(r) \in Int /\ r.id \in Int
  BY TextAssumption DEF Distinct, IsRecord
<1>2. \A q, r \in records : Earlier(q, r) <=> text(q) < text(r) \/ (text(q) = text(r) /\ q.id < r.id)
  BY DEF Earlier
<1>3. \A q, r \in records : <<q, r>> \in Sooner(records) <=> Earlier(q, r)
  BY DEF Sooner
<1>4. \A q, r \in records : q.id = r.id => q = r
  BY DEF Distinct
<1> HIDE DEF text
<1>5. \A r \in records : ~Earlier(r, r)
  BY <1>1, <1>2
<1>6. \A x, y, z \in records : Earlier(x, y) /\ Earlier(y, z) => Earlier(x, z)
  BY <1>1, <1>2
<1>7. \A x, y \in records : x # y => Earlier(x, y) \/ Earlier(y, x)
  BY <1>1, <1>2, <1>4
<1> QED BY <1>3, <1>5, <1>6, <1>7 DEF Orders

\* A sorted group: all of it, each record at its place.
InOrder(list, group) ==
  /\ Indexed(list) /\ Len(list) = Cardinality(group) /\ ToSet(list) = group
  /\ \A k \in DOMAIN list : /\ list[k] \in group
                            /\ 1 + Cardinality({q \in group : Earlier(q, list[k])}) = k

LEMMA SortedIsInOrder ==
  ASSUME NEW group, Distinct(group)
  PROVE  InOrder(Sorted(group), group)
<1>1. PICK n : n = Cardinality(group)
  OBVIOUS
<1>2. IsFiniteSet(group) /\ n \in Nat
  BY <1>1, FS_CardinalityType DEF Distinct
<1>3. Orders(Sooner(group), group)
  BY TextOrders
<1>4. \A r \in group : Below(Sooner(group), group, r) = {q \in group : Earlier(q, r)}
  BY DEF Below, Sooner
<1>5. /\ \A i \in 1..n : \E r \in group : 1 + Cardinality(Below(Sooner(group), group, r)) = i
      /\ \A r \in group : 1 + Cardinality(Below(Sooner(group), group, r)) \in 1..n
  BY <1>1, <1>2, <1>3, Places
<1>6. PICK list : list = [k \in 1..n |-> CHOOSE r \in group :
                            1 + Cardinality({q \in group : Earlier(q, r)}) = k]
  OBVIOUS
<1>7. ASSUME NEW k \in 1..n
      PROVE  list[k] \in group /\ 1 + Cardinality({q \in group : Earlier(q, list[k])}) = k
  <2>1. \E r \in group : 1 + Cardinality({q \in group : Earlier(q, r)}) = k
    BY <1>4, <1>5
  <2> QED BY <1>6, <2>1
<1>8. list \in [1..n -> group] /\ DOMAIN list = 1..n
  BY <1>6, <1>7
<1>9. Len(list) = n /\ Indexed(list)
  BY <1>2, <1>8 DEF Indexed
<1>10. \A i \in 1..n : 1 + Cardinality(Below(Sooner(group), group, list[i])) = i
  BY <1>4, <1>7
<1>11. \A r \in group : \E i \in 1..n : list[i] = r
  BY <1>1, <1>2, <1>3, <1>8, <1>10, SortedByPlace
<1>12. ToSet(list) = group
  BY <1>7, <1>8, <1>11 DEF ToSet
<1>13. Sorted(group) = list
  BY <1>1, <1>6 DEF Sorted
<1> QED BY <1>1, <1>7, <1>8, <1>9, <1>12, <1>13 DEF InOrder

\* A finding has the evidence of its key.
LEMMA FindingsHold ==
  ASSUME NEW records, Distinct(records), NEW version, NEW r \in Kept(version, records), NEW f,
         f = FindingFor(version, records, KeyOf(version, r))
  PROVE  /\ ToSet(f.evidence) = GroupOf(version, records, KeyOf(version, r))
         /\ Indexed(f.evidence) /\ Len(f.evidence) > 0
         /\ f.evidence = Sorted(GroupOf(version, records, KeyOf(version, r)))
<1>1. PICK group : group = GroupOf(version, records, KeyOf(version, r))
  OBVIOUS
<1>2. group \in SUBSET records /\ r \in group
  BY <1>1 DEF GroupOf, Kept
<1>3. InOrder(Sorted(group), group)
  BY <1>2, PartsAreDistinct, SortedIsInOrder
<1>4. f.evidence = Sorted(group)
  BY <1>1 DEF FindingFor, FindingV2, FindingV3
<1>5. PICK list : list = Sorted(group)
  OBVIOUS
<1>6. Indexed(list) /\ r \in ToSet(list)
  BY <1>2, <1>3, <1>5 DEF InOrder
<1>7. Len(list) > 0
  BY <1>6 DEF Indexed, ToSet
<1> QED BY <1>1, <1>3, <1>4, <1>5, <1>7 DEF InOrder
-----------------------------------------------------------------------------
\* What a finding says is what its evidence says.
LEMMA FindingsSpeak ==
  ASSUME NEW records, Distinct(records), NEW version, NEW r \in Kept(version, records), NEW f,
         f = FindingFor(version, records, KeyOf(version, r))
  PROVE  /\ f.algorithm = r.algorithm /\ f.kind = r.kind /\ f.component = Component(r.path)
         /\ f.sources = {q.source : q \in ToSet(f.evidence)}
<1>1. PICK group : group = GroupOf(version, records, KeyOf(version, r))
  OBVIOUS
<1>2. ToSet(f.evidence) = group /\ f.evidence = Sorted(group) /\ Indexed(f.evidence) /\ Len(f.evidence) > 0
  BY <1>1, FindingsHold
<1>3. CASE version # "v3"
  BY <1>1, <1>2, <1>3 DEF FindingFor, FindingV2, KeyOf, KeyV2
<1>4. CASE version = "v3"
  <2>1. PICK first : first = Sorted(group)[1]
    OBVIOUS
  <2>2. first \in group
    BY <1>2, <2>1 DEF Indexed, ToSet
  <2>3. KeyV3(first) = KeyV3(r)
    BY <1>1, <1>4, <2>2 DEF GroupOf, KeyOf
  <2>4. first.path = r.path /\ first.algorithm = r.algorithm
    BY <2>3 DEF KeyV3, Spot
  <2>5. f = FindingV3(records, KeyOf(version, r), group)
    BY <1>1, <1>4 DEF FindingFor
  <2>6. /\ f.algorithm = first.algorithm
        /\ f.kind = KeyOf(version, r)[2] /\ f.component = Component(first.path)
        /\ f.sources = {q.source : q \in group}
    BY <2>1, <2>5 DEF FindingV3
  <2>7. KeyOf(version, r)[2] = r.kind
    BY <1>4 DEF KeyOf, KeyV3
  <2> QED BY <1>2, <2>4, <2>6, <2>7
<1> QED BY <1>3, <1>4

\* A row keeps what the finding says.
LEMMA RowsSpeak ==
  ASSUME NEW f
  PROVE  /\ Row(f).algorithm = f.algorithm /\ Row(f).kind = f.kind
         /\ Row(f).component = f.component /\ Row(f).sources = f.sources
         /\ Row(f).evidence = f.evidence /\ Row(f).conflicting = f.conflicting
         /\ Row(f).path = f.path /\ Row(f).anchor = f.anchor
  BY DEF Row

\* The rows of a report.
RowsOf(version, seq) == {Row(f) : f \in Correlate(version, seq)}
RowFor(version, records, r) == Row(FindingFor(version, records, KeyOf(version, r)))

\* Every record that is kept has its row, and a row no other evidence than those kept.
LEMMA RowsByRecord ==
  ASSUME NEW seq, Recording(seq), NEW version, NEW records, records = ToSet(seq)
  PROVE  /\ \A r \in Kept(version, records) : RowFor(version, records, r) \in RowsOf(version, seq)
         /\ \A w \in RowsOf(version, seq) : \E r \in Kept(version, records) : w = RowFor(version, records, r)
         /\ \A w \in RowsOf(version, seq) : \A r \in ToSet(w.evidence) :
              r \in Kept(version, records) /\ w = RowFor(version, records, r)
         /\ \A r \in Kept(version, records) : r \in ToSet(RowFor(version, records, r).evidence)
<1>1. Correlate(version, seq) = {FindingFor(version, records, key) : key \in Keys(version, records)}
  BY FindingsByKey
<1>2. \A r \in Kept(version, records) : RowFor(version, records, r) \in RowsOf(version, seq)
  BY <1>1 DEF RowFor, RowsOf, Keys
<1>3. \A w \in RowsOf(version, seq) : \E r \in Kept(version, records) : w = RowFor(version, records, r)
  BY <1>1 DEF RowFor, RowsOf, Keys
<1>4. ASSUME NEW r \in Kept(version, records)
      PROVE  ToSet(RowFor(version, records, r).evidence) =
               {q \in Kept(version, records) : KeyOf(version, q) = KeyOf(version, r)}
  <2>1. PICK f : f = FindingFor(version, records, KeyOf(version, r))
    OBVIOUS
  <2>2. ToSet(f.evidence) = GroupOf(version, records, KeyOf(version, r))
    BY <2>1, EvidenceIsDistinct, FindingsHold
  <2>3. RowFor(version, records, r).evidence = f.evidence
    BY <2>1, RowsSpeak DEF RowFor
  <2> QED BY <2>2, <2>3 DEF GroupOf
<1>5. ASSUME NEW w \in RowsOf(version, seq), NEW q \in ToSet(w.evidence)
      PROVE  q \in Kept(version, records) /\ w = RowFor(version, records, q)
  <2>1. PICK r \in Kept(version, records) : w = RowFor(version, records, r)
    BY <1>3
  <2>2. q \in Kept(version, records) /\ KeyOf(version, q) = KeyOf(version, r)
    BY <1>4, <2>1
  <2> QED BY <2>1, <2>2 DEF RowFor
<1> QED BY <1>2, <1>3, <1>4, <1>5

\* The rows that have a record, and what was seen of its component beside dependencies.
HoldersOf(version, seq, r) == {w \in RowsOf(version, seq) : r \in ToSet(w.evidence)}
NeighboursOf(records, r) ==
  {q \in records : q.source # "dep" /\ Component(q.path) = Component(r.path)}

\* Observations that are kept are in one row, which speaks of them; only a dependency
\* is left out.
LEMMA RecordsAccounted ==
  ASSUME NEW seq, Recording(seq), NEW version, NEW records, records = ToSet(seq),
         NEW r \in records, NEW holders, holders = HoldersOf(version, seq, r),
         NEW neighbours, neighbours = NeighboursOf(records, r)
  PROVE  \/ /\ Cardinality(holders) = 1
            /\ \A w \in holders :
                 /\ w.algorithm = r.algorithm /\ w.kind = r.kind
                 /\ w.component = Component(r.path) /\ r.source \in w.sources
         \/ /\ holders = {} /\ version # "v3" /\ r.source = "dep"
            /\ neighbours # {}
            /\ \A q \in neighbours : q.algorithm # r.algorithm
<1>1. CASE r \in Kept(version, records)
  <2>1. holders = {RowFor(version, records, r)}
    BY <1>1, RowsByRecord DEF HoldersOf
  <2>2. Cardinality(holders) = 1
    BY <2>1, FS_Singleton
  <2>3. PICK f : f = FindingFor(version, records, KeyOf(version, r))
    OBVIOUS
  <2>4. /\ f.algorithm = r.algorithm /\ f.kind = r.kind /\ f.component = Component(r.path)
        /\ f.sources = {q.source : q \in ToSet(f.evidence)}
    BY <1>1, <2>3, EvidenceIsDistinct, FindingsSpeak
  <2>5. r \in ToSet(f.evidence)
    BY <1>1, <2>3, RowsByRecord, RowsSpeak DEF RowFor
  <2>6. \A w \in holders : w = Row(f)
    BY <2>1, <2>3 DEF RowFor
  <2> QED BY <2>2, <2>4, <2>5, <2>6, RowsSpeak
<1>2. CASE r \notin Kept(version, records)
  <2>1. holders = {}
    BY <1>2, RowsByRecord DEF HoldersOf
  <2>2. version # "v3" /\ Suppressed(records, r)
    BY <1>2 DEF Kept
  <2>3. StrongAlgorithms(records, Component(r.path)) = {q.algorithm : q \in neighbours}
    BY DEF StrongAlgorithms, Direct, NeighboursOf
  <2> QED BY <2>1, <2>2, <2>3 DEF Suppressed, Direct
<1> QED BY <1>1, <1>2
-----------------------------------------------------------------------------
\* Observations recorded behind those that are there.
LEMMA RecordingGoesOn ==
  ASSUME NEW seq, Recording(seq), NEW n \in Nat, NEW found, NEW more, NEW after,
         more = [k \in 1..n |-> Recorded(found[k], Len(seq) + k)], after = seq \o more,
         \A k \in 1..n : Observed(Recorded(found[k], 0)) \in Contents
  PROVE  Recording(after)
<1>1. PICK S : S = ToSet(seq) \cup {more[k] : k \in 1..n}
  OBVIOUS
<1>2. seq \in Seq(S)
  <2>1. seq \in Seq(ToSet(seq)) /\ ToSet(seq) \subseteq S
    BY <1>1 DEF Recording, IsList
  <2> HIDE <1>1
  <2> QED BY <2>1
<1>3. more \in Seq(S)
  <2>1. \A k \in 1..n : more[k] \in S
    BY <1>1
  <2> HIDE <1>1
  <2> QED BY <2>1
<1>4. /\ Len(seq) \in Nat /\ DOMAIN seq = 1..Len(seq) /\ Len(more) = n /\ DOMAIN more = 1..n
  BY <1>2, <1>3
<1>5. /\ Len(after) = Len(seq) + n /\ DOMAIN after = 1..Len(after)
      /\ \A k \in 1..Len(seq) : after[k] = seq[k]
      /\ \A k \in 1..n : after[Len(seq) + k] = more[k]
      /\ after = [k \in 1..Len(after) |-> after[k]]
  BY <1>2, <1>3, <1>4
<1>6. IsList(after)
  <2>1. after = [k \in 1..Len(after) |-> after[k]] /\ Len(after) \in Nat /\ DOMAIN after = 1..Len(after)
    BY <1>4, <1>5
  <2> QED BY <2>1, ListsByIndex
<1>7. ASSUME NEW i \in DOMAIN after PROVE after[i].id = i /\ IsRecord(after[i])
  <2>1. CASE i \in 1..Len(seq)
    BY <1>4, <1>5, <2>1 DEF Recording
  <2>2. CASE i \notin 1..Len(seq)
    <3>1. PICK k \in 1..n : i = Len(seq) + k
      <4>1. i - Len(seq) \in 1..n /\ i = Len(seq) + (i - Len(seq))
        BY <1>4, <1>5, <2>2
      <4> QED BY <4>1
    <3>2. PICK x : x = found[k] /\ after[i] = Recorded(x, i) /\ Observed(Recorded(x, 0)) \in Contents
      BY <1>5, <3>1
    <3>3. Recorded(x, i).id = i /\ DOMAIN Recorded(x, i) = DOMAIN Observation
      BY DEF Recorded, Observation
    <3>4. Observed(Recorded(x, i)) = Observed(Recorded(x, 0))
      BY DEF Recorded, Observed
    <3>5. i \in Int
      BY <1>4, <3>1
    <3> QED BY <3>2, <3>3, <3>4, <3>5 DEF IsRecord
  <2> QED BY <2>1, <2>2
<1> QED BY <1>6, <1>7 DEF Recording

\* What a handler found in a supported file is recorded as it is.
LEMMA FoundIsContent ==
  ASSUME NEW file \in WalkedFiles, Supported(file), NEW h \in ToSet(HandlersFor(file)),
         NEW content \in Reads[file.path], NEW found, found = Handle(h, file, content).found,
         NEW k \in 1..Len(found)
  PROVE  Observed(Recorded(found[k], 0)) \in Contents
<1>1. PICK files : files = {g \in WalkedFiles : Supported(g)} /\ file \in files
  OBVIOUS
<1>2. Observed(Recorded(found[k], 0)) \in {Observed(Recorded(found[l], 0)) : l \in 1..Len(found)}
  OBVIOUS
<1> QED BY <1>1, <1>2 DEF Contents

\* The evidence is recorded, correlated and stored, in this order.
EvidenceInv ==
  /\ Recording(evidence)
  /\ phase = "correlated" => findings = Correlate(correlator, evidence)
  /\ Completed => phase = "correlated" /\ rows = RowsOf(correlator, evidence)

\* Collecting adds to the record; the findings and the rows are those of the record.
LEMMA EvidenceKept ==
  ASSUME ScanInv, EvidenceInv, [Next]_assuranceVars
  PROVE  EvidenceInv'
<1> USE DEF EvidenceInv, Completed
<1>1. CASE UNCHANGED <<phase, evidence, correlator, findings, rows, job>>
  BY <1>1 DEF RowsOf
<1>2. CASE Claim
  BY <1>2 DEF Claim, scanVars, RowsOf
<1>3. CASE Collect
  <2>1. /\ ~Completed /\ job' = job /\ phase' # "correlated" /\ ~Completed'
    BY <1>3 DEF Collect, CollectNext, RejectScan, Reject, Inventory, SkipPath, OpenPath, ReadPath, Measure
  <2>2. CASE evidence' = evidence
    BY <2>1, <2>2
  <2>3. CASE ReadPath /\ evidence' # evidence
    <3>1. PICK file, handlers, turn :
            /\ file = inventory.supported[next] /\ handlers = HandlersFor(file)
            /\ turn = Len(ran[file.path]) + 1
      OBVIOUS
    <3>2. PICK content \in Reads[file.path] :
            LET result == Handle(handlers[turn], file, content)
            IN  IF Len(result.found) \notin 0..(EvidenceLimit - Len(evidence))
                THEN evidence' = evidence
                ELSE evidence' = evidence \o [k \in 1..Len(result.found) |->
                                   Recorded(result.found[k], Len(evidence) + k)]
      BY <2>3, <3>1 DEF ReadPath
    <3>3. PICK found : /\ found = Handle(handlers[turn], file, content).found
                       /\ Len(found) \in 0..(EvidenceLimit - Len(evidence))
                       /\ evidence' = evidence \o [k \in 1..Len(found) |->
                                        Recorded(found[k], Len(evidence) + k)]
      BY <2>3, <3>2
    <3>4. /\ file \in WalkedFiles /\ Supported(file) /\ file.path \in DOMAIN ran
          /\ Len(ran[file.path]) < Len(handlers) /\ IsList(ran[file.path])
      <4>1. phase = "reading" /\ Accounting
        BY <2>3 DEF ReadPath, ScanInv
      <4>2. next \in DOMAIN Files /\ FileAccounted(next) /\ FilesApart(Files) /\ file = Files[next]
        BY <3>1, <4>1 DEF Accounting, Files
      <4> QED BY <3>1, <4>1, <4>2 DEF FileAccounted, FilesApart
    <3>5. handlers[turn] \in ToSet(handlers)
      <4>1. Indexed(handlers)
        BY <3>1, <3>4, HandlersAreThere
      <4>2. Len(ran[file.path]) \in Nat
        BY <3>4, ListsAreIndexed DEF Indexed
      <4>3. turn \in DOMAIN handlers
        BY <3>1, <3>4, <4>1, <4>2 DEF Indexed
      <4> QED BY <4>3 DEF ToSet
    <3>6. \A k \in 1..Len(found) : Observed(Recorded(found[k], 0)) \in Contents
      <4>1. PICK h : h = handlers[turn] /\ h \in ToSet(HandlersFor(file))
        BY <3>1, <3>5
      <4>2. found = Handle(h, file, content).found
        BY <3>3, <4>1
      <4> QED BY <3>4, <4>1, <4>2, FoundIsContent
    <3>7. Len(found) \in Nat
      BY <3>3
    <3>8. Recording(evidence')
      BY <3>3, <3>6, <3>7, RecordingGoesOn
    <3>9. Recording(evidence)'
      BY <3>8 DEF Recording, IsList
    <3> QED BY <2>1, <3>9
  <2> QED BY <1>3, <2>2, <2>3
          DEF Collect, CollectNext, RejectScan, Reject, Inventory, SkipPath, OpenPath, Measure
<1>4. CASE CorrelateEvidence
  BY <1>4 DEF CorrelateEvidence
<1>5. CASE Persist
  BY <1>5 DEF Persist, scanVars, RowsOf
<1>6. CASE Fail
  BY <1>6 DEF Fail, scanVars
<1> QED BY <1>1, <1>2, <1>3, <1>4, <1>5, <1>6
        DEF Next, Scanning, Evaluating, ReportNext, assuranceVars, reportVars, scanVars

\* Hence in every reachable state.
LEMMA EvidenceHeld == Spec => []EvidenceInv
<1>1. Init => EvidenceInv
  <2>1. Recording(<<>>)
    BY DEF Recording, IsList
  <2> QED BY <2>1 DEF Init, ReportInit, ScanInit, EvidenceInv, Completed, Queued
<1>2. ScanInv /\ EvidenceInv /\ [Next]_assuranceVars => EvidenceInv'
  BY EvidenceKept
<1> QED BY <1>1, <1>2, ScanHeld, PTL DEF Spec

\* Each observation of the collectors is in exactly one row of a completed report,
\* which has its algorithm, kind and component; version 2 leaves out only a dependency
\* in a component whose code or certificates show other algorithms.
THEOREM EvidenceIsAccounted == Spec => []EvidenceAccounted
<1>1. ASSUME EvidenceInv PROVE EvidenceAccounted
  <2>1. SUFFICES ASSUME Completed, NEW i \in DOMAIN evidence, NEW r, r = evidence[i],
                        NEW holders, holders = {w \in rows : r \in ToSet(w.evidence)},
                        NEW neighbours, neighbours =
                          {q \in ToSet(evidence) : q.source # "dep" /\ Component(q.path) = Component(r.path)}
                 PROVE  \/ /\ Cardinality(holders) = 1
                           /\ \A w \in holders :
                                /\ w.algorithm = r.algorithm /\ w.kind = r.kind
                                /\ w.component = Component(r.path) /\ r.source \in w.sources
                        \/ /\ holders = {} /\ correlator # "v3" /\ r.source = "dep"
                           /\ neighbours # {}
                           /\ \A q \in neighbours : q.algorithm # r.algorithm
    BY DEF EvidenceAccounted
  <2>2. Recording(evidence) /\ rows = RowsOf(correlator, evidence) /\ r \in ToSet(evidence)
    BY <1>1, <2>1 DEF EvidenceInv, ToSet
  <2>3. PICK seq, version, records : seq = evidence /\ version = correlator /\ records = ToSet(seq)
    OBVIOUS
  <2>4. Recording(seq) /\ r \in records
    BY <2>2, <2>3
  <2>5. holders = HoldersOf(version, seq, r) /\ neighbours = NeighboursOf(records, r)
    BY <2>1, <2>2, <2>3 DEF HoldersOf, NeighboursOf
  <2> QED BY <2>3, <2>4, <2>5, RecordsAccounted
<1> QED BY <1>1, EvidenceHeld, PTL
-----------------------------------------------------------------------------
\* Conflicts.

\* Direct observations at an operation.
Here(records, operation) == {q \in records : q.source # "dep" /\ Operation(q) = operation}

\* An operation is in conflict when direct observations of one category disagree.
LEMMA OperationsDisagree ==
  ASSUME NEW records, IsFiniteSet(records), NEW operation
  PROVE  OperationConflict(records, operation) <=>
           \E a, b \in Here(records, operation) : a.category = b.category /\ a.algorithm # b.algorithm
<1>1. ASSUME NEW c
      PROVE  Cardinality(Contenders(records, operation, c)) > 1 <=>
               \E a, b \in Here(records, operation) :
                 a.category = c /\ b.category = c /\ a.algorithm # b.algorithm
  <2>1. PICK S : S = {q \in records : Direct(q) /\ Operation(q) = operation /\ q.category = c}
    OBVIOUS
  <2>2. IsFiniteSet(S)
    BY <2>1, FS_Subset
  <2>3. PICK T : T = {q.algorithm : q \in S}
    OBVIOUS
  <2>4. IsFiniteSet(T)
    <3>1. PICK f : f = [q \in S |-> q.algorithm]
      OBVIOUS
    <3>2. f \in [S -> T] /\ \A y \in T : \E x \in S : f[x] = y
      BY <2>3, <3>1
    <3> QED BY <2>2, <3>2, ImagesAreFinite
  <2>5. Cardinality(T) > 1 <=> \E x, y \in T : x # y
    BY <2>4, MoreThanOne
  <2>6. Contenders(records, operation, c) = T
    BY <2>1, <2>3 DEF Contenders
  <2> QED BY <2>1, <2>3, <2>5, <2>6 DEF Here, Direct
<1> QED BY <1>1 DEF OperationConflict, Here

\* The preferred record of a group is one of it.
LEMMA PreferredIsOne ==
  ASSUME NEW group, NEW list, list = Sorted(group), Indexed(list), Len(list) > 0
  PROVE  Preferred(group) \in ToSet(list)
<1>1. PICK reads : reads = {i \in DOMAIN list : list[i].source \in {"ast", "cert", "rule"}}
  OBVIOUS
<1>2. CASE reads = {}
  <2>1. Preferred(group) = list[1] /\ 1 \in DOMAIN list
    BY <1>1, <1>2 DEF Preferred, Indexed
  <2> QED BY <2>1 DEF ToSet
<1>3. CASE reads # {}
  <2>1. reads \in SUBSET Nat
    BY <1>1 DEF Indexed
  <2>2. \E x \in reads : \A y \in reads : x <= y
    BY <1>3, <2>1, Least
  <2>3. Min(reads) \in reads
    BY <2>2 DEF Min
  <2>4. Preferred(group) = list[Min(reads)]
    BY <1>1, <1>3 DEF Preferred
  <2> QED BY <1>1, <2>3, <2>4 DEF ToSet
<1> QED BY <1>2, <1>3

\* A version-2 row is at the operation of its records, and names operations when it is
\* in conflict.
LEMMA RowsAreAtOperations ==
  ASSUME NEW records, Distinct(records), NEW version, version # "v3",
         NEW r \in Kept(version, records), NEW w, w = RowFor(version, records, r)
  PROVE  /\ <<w.path, w.anchor>> = Operation(r) /\ w.algorithm = r.algorithm
         /\ w.conflicting # {} <=> OperationConflict(records, Operation(r))
<1>1. PICK group, key, f : /\ key = KeyV2(r) /\ group = GroupOf(version, records, key)
                           /\ f = FindingV2(records, key, group)
  OBVIOUS
<1>2. f = FindingFor(version, records, KeyOf(version, r)) /\ w = Row(f)
  BY <1>1 DEF FindingFor, KeyOf, RowFor
<1>3. /\ ToSet(Sorted(group)) = group /\ Indexed(Sorted(group)) /\ Len(Sorted(group)) > 0
  BY <1>1, <1>2, FindingsHold DEF KeyOf
<1>4. Preferred(group) \in group
  BY <1>3, PreferredIsOne
<1>5. KeyV2(Preferred(group)) = KeyV2(r)
  BY <1>1, <1>4 DEF GroupOf, KeyOf
<1>6. \A q : Operation(q) = <<q.path, Operation(q)[2]>>
  BY DEF Operation
<1>7. key[5] = Operation(r) /\ Operation(Preferred(group)) = Operation(r)
  BY <1>1, <1>5 DEF KeyV2
<1>8. /\ w.path = Preferred(group).path /\ w.anchor = Operation(r)[2] /\ w.algorithm = f.algorithm
      /\ w.conflicting = f.conflicting
  <2>1. f.path = Preferred(group).path /\ f.anchor = key[5][2]
    BY <1>1 DEF FindingV2
  <2>2. /\ w.path = f.path /\ w.anchor = f.anchor /\ w.algorithm = f.algorithm
        /\ w.conflicting = f.conflicting
    BY <1>2, RowsSpeak
  <2> QED BY <1>7, <2>1, <2>2
<1>9. <<w.path, w.anchor>> = Operation(r)
  BY <1>6, <1>7, <1>8
<1>10. f.algorithm = r.algorithm
  BY <1>2, FindingsSpeak
<1>11. PICK named : named = Values(group, "operation")
  OBVIOUS
<1>12. f.conflicting = IF ~OperationConflict(records, Operation(r)) THEN {}
                       ELSE IF named # {} THEN named ELSE {Operation(r)[2]}
  BY <1>1, <1>7, <1>11 DEF FindingV2
<1> QED BY <1>8, <1>9, <1>10, <1>12

\* Direct observations are kept.
LEMMA DirectIsKept ==
  ASSUME NEW records, NEW version, NEW r \in records, r.source # "dep"
  PROVE  r \in Kept(version, records)
  BY DEF Kept, Suppressed, Direct

\* In a completed report of version 2 a row names conflicting operations exactly when
\* two rows at its place show different algorithms, by direct observations of one category.
THEOREM ConflictsAreTwoSided == Spec => []ConflictsHaveTwoSides
<1>1. ASSUME EvidenceInv PROVE ConflictsHaveTwoSides
  <2> DEFINE Other(w, x, y) ==
        /\ {<<x.path, x.anchor>>, <<y.path, y.anchor>>} = {<<w.path, w.anchor>>}
        /\ x.algorithm # y.algorithm
        /\ \E a \in ToSet(x.evidence), b \in ToSet(y.evidence) :
             "dep" \notin {a.source, b.source} /\ a.category = b.category
  <2>1. SUFFICES ASSUME Completed, correlator # "v3", NEW w \in rows
                 PROVE  w.conflicting # {} <=> \E x, y \in rows : Other(w, x, y)
    BY DEF ConflictsHaveTwoSides
  <2>2. PICK seq, version, records : seq = evidence /\ version = correlator /\ records = ToSet(seq)
    OBVIOUS
  <2>3. Recording(seq) /\ rows = RowsOf(version, seq) /\ version # "v3"
    BY <1>1, <2>1, <2>2 DEF EvidenceInv
  <2>4. Distinct(records) /\ IsFiniteSet(records)
    BY <2>2, <2>3, EvidenceIsDistinct DEF Distinct
  <2>5. PICK r \in Kept(version, records) : w = RowFor(version, records, r)
    BY <2>2, <2>3, RowsByRecord
  <2>6. /\ <<w.path, w.anchor>> = Operation(r)
        /\ w.conflicting # {} <=> OperationConflict(records, Operation(r))
    BY <2>3, <2>4, <2>5, RowsAreAtOperations
  <2>7. ASSUME w.conflicting # {} PROVE \E x, y \in rows : Other(w, x, y)
    <3>1. PICK a, b \in Here(records, Operation(r)) : a.category = b.category /\ a.algorithm # b.algorithm
      BY <2>4, <2>6, <2>7, OperationsDisagree
    <3>2. /\ a \in Kept(version, records) /\ b \in Kept(version, records)
          /\ a.source # "dep" /\ b.source # "dep"
          /\ Operation(a) = Operation(r) /\ Operation(b) = Operation(r)
      BY <3>1, DirectIsKept DEF Here
    <3>3. PICK x, y : x = RowFor(version, records, a) /\ y = RowFor(version, records, b)
      OBVIOUS
    <3>4. x \in rows /\ y \in rows /\ a \in ToSet(x.evidence) /\ b \in ToSet(y.evidence)
      BY <2>2, <2>3, <3>2, <3>3, RowsByRecord
    <3>5. /\ <<x.path, x.anchor>> = Operation(r) /\ <<y.path, y.anchor>> = Operation(r)
          /\ x.algorithm # y.algorithm
      BY <2>3, <2>4, <3>1, <3>2, <3>3, RowsAreAtOperations
    <3>6. Other(w, x, y)
      BY <2>6, <3>1, <3>2, <3>4, <3>5
    <3> QED BY <3>4, <3>6
  <2>8. ASSUME NEW x \in rows, NEW y \in rows, Other(w, x, y) PROVE w.conflicting # {}
    <3>1. PICK a \in ToSet(x.evidence), b \in ToSet(y.evidence) :
            "dep" \notin {a.source, b.source} /\ a.category = b.category
      BY <2>8
    <3>2. /\ a \in Kept(version, records) /\ x = RowFor(version, records, a)
          /\ b \in Kept(version, records) /\ y = RowFor(version, records, b)
      BY <2>2, <2>3, RowsByRecord
    <3>3. /\ <<x.path, x.anchor>> = Operation(a) /\ x.algorithm = a.algorithm
          /\ <<y.path, y.anchor>> = Operation(b) /\ y.algorithm = b.algorithm
      BY <2>3, <2>4, <3>2, RowsAreAtOperations
    <3>4. a \in Here(records, Operation(r)) /\ b \in Here(records, Operation(r))
      BY <2>6, <2>8, <3>1, <3>2, <3>3 DEF Here, Kept
    <3> QED BY <2>4, <2>6, <2>8, <3>1, <3>3, <3>4, OperationsDisagree
  <2> QED BY <2>7, <2>8
<1> QED BY <1>1, EvidenceHeld, PTL
-----------------------------------------------------------------------------
\* The same observations under other numbers.

\* Records that say the same.
Agree(a, b) ==
  /\ Observed(a) = Observed(b)
  /\ a.algorithm = b.algorithm /\ a.category = b.category /\ a.source = b.source
  /\ a.path = b.path /\ a.line = b.line /\ a.column = b.column /\ a.kind = b.kind
  /\ a.confidence = b.confidence /\ a.usage = b.usage /\ a.library = b.library
  /\ a.protocol = b.protocol /\ a.key_size = b.key_size /\ a.operation = b.operation
  /\ a.semantic = b.semantic /\ a.details = b.details

\* The text of a record is all that it says.
LEMMA TextsSpeak ==
  ASSUME NEW a, NEW b, IsRecord(a), IsRecord(b), Observed(a) = Observed(b)
  PROVE  Agree(a, b)
<1>1. PICK D : D = DOMAIN Observation \ {"id"}
  OBVIOUS
<1>2. Observed(a) = [f \in D |-> a[f]] /\ Observed(b) = [f \in D |-> b[f]]
  BY <1>1 DEF Observed, IsRecord
<1>3. \A f \in D : a[f] = b[f]
  <2>1. PICK s : s = Observed(a)
    OBVIOUS
  <2>2. \A f \in D : s[f] = a[f] /\ s[f] = b[f]
    BY <1>2, <2>1
  <2> QED BY <2>2
<1>4. /\ "algorithm" \in D /\ "category" \in D /\ "source" \in D /\ "path" \in D /\ "line" \in D
      /\ "column" \in D /\ "kind" \in D /\ "confidence" \in D /\ "usage" \in D /\ "library" \in D
      /\ "protocol" \in D /\ "key_size" \in D /\ "operation" \in D /\ "semantic" \in D
      /\ "details" \in D
  BY <1>1 DEF Observation
<1> QED BY <1>3, <1>4 DEF Agree

\* What is made of records that say the same is the same.
LEMMA AgreeingSpeak ==
  ASSUME NEW a, NEW b, Agree(a, b)
  PROVE  /\ Usage(a) = Usage(b) /\ Operation(a) = Operation(b) /\ Spot(a) = Spot(b)
         /\ KeyV2(a) = KeyV2(b) /\ KeyV3(a) = KeyV3(b) /\ Agree(b, a)
<1>1. Usage(a) = Usage(b)
  BY DEF Usage, Agree
<1>2. Operation(a) = Operation(b)
  BY DEF Operation, Agree
<1>3. Spot(a) = Spot(b)
  BY DEF Spot, Agree
<1>4. KeyV2(a) = KeyV2(b)
  BY <1>1, <1>2 DEF KeyV2, Agree
<1>5. KeyV3(a) = KeyV3(b)
  BY <1>3 DEF KeyV3, Agree
<1>6. Agree(b, a)
  BY DEF Agree
<1> QED BY <1>1, <1>2, <1>3, <1>4, <1>5, <1>6

\* Records of which each has one in the other set that says the same.
Mirror(A, B) ==
  /\ \A a \in A : \E b \in B : Agree(a, b)
  /\ \A b \in B : \E a \in A : Agree(a, b)

\* What such sets of records say together.
SayTheSame(A, B) ==
  /\ {r.source : r \in A} = {r.source : r \in B}
  /\ BySource(A) = BySource(B)
  /\ Values(A, "operation") = Values(B, "operation")
  /\ ContextConflicts(A) = ContextConflicts(B)
  /\ \A f \in {"library", "protocol", "key_size"} : ContextValue(A, f) = ContextValue(B, f)

LEMMA MirrorsSayTheSame ==
  ASSUME NEW A, NEW B, Mirror(A, B)
  PROVE  SayTheSame(A, B)
<1>1. {r.source : r \in A} = {r.source : r \in B}
  BY DEF Mirror, Agree
<1>2. ASSUME NEW s
      PROVE  {r.confidence : r \in {q \in A : q.source = s}} = {r.confidence : r \in {q \in B : q.source = s}}
  BY DEF Mirror, Agree
<1>3. BySource(A) = BySource(B)
  BY <1>1, <1>2 DEF BySource
<1>4. ASSUME NEW f \in {"library", "protocol", "key_size", "operation"}
      PROVE  Values(A, f) = Values(B, f)
  <2>1. \A a, b : Agree(a, b) => a[f] = b[f]
    BY DEF Agree
  <2> QED BY <2>1 DEF Mirror, Values
<1>5. ASSUME NEW f \in {"library", "protocol", "key_size"}
      PROVE  (InConflict(A, f) <=> InConflict(B, f)) /\ ContextValue(A, f) = ContextValue(B, f)
  <2>1. Values(A, f) = Values(B, f)
    BY <1>4
  <2>2. InConflict(A, f) <=> InConflict(B, f)
    BY <2>1 DEF InConflict
  <2> QED BY <2>1, <2>2 DEF ContextValue
<1>6. ContextConflicts(A) = ContextConflicts(B)
  BY <1>5 DEF ContextConflicts
<1> QED BY <1>1, <1>3, <1>4, <1>5, <1>6 DEF SayTheSame

\* What they say of an operation, a component and a spot.
ShowTheSame(A, B) ==
  /\ \A operation : OperationConflict(A, operation) <=> OperationConflict(B, operation)
  /\ \A component : StrongAlgorithms(A, component) = StrongAlgorithms(B, component)
  /\ \A key : CrossKindLinks(A, key) = CrossKindLinks(B, key)

LEMMA MirrorsShowTheSame ==
  ASSUME NEW A, NEW B, Mirror(A, B)
  PROVE  ShowTheSame(A, B)
<1>1. \A a, b : Agree(a, b) => /\ Operation(a) = Operation(b) /\ Spot(a) = Spot(b)
                               /\ a.source = b.source /\ a.path = b.path /\ a.kind = b.kind
                               /\ a.category = b.category /\ a.algorithm = b.algorithm
  BY AgreeingSpeak DEF Agree
<1>2. ASSUME NEW operation
      PROVE  OperationConflict(A, operation) <=> OperationConflict(B, operation)
  <2>1. ASSUME NEW c PROVE Contenders(A, operation, c) = Contenders(B, operation, c)
    BY <1>1 DEF Mirror, Contenders, Direct
  <2>2. {r.category : r \in A} = {r.category : r \in B}
    BY <1>1 DEF Mirror
  <2> QED BY <2>1, <2>2 DEF OperationConflict
<1>3. ASSUME NEW component
      PROVE  StrongAlgorithms(A, component) = StrongAlgorithms(B, component)
  BY <1>1 DEF Mirror, StrongAlgorithms, Direct
<1>4. ASSUME NEW key
      PROVE  CrossKindLinks(A, key) = CrossKindLinks(B, key)
  BY <1>1 DEF Mirror, CrossKindLinks
<1> QED BY <1>2, <1>3, <1>4 DEF ShowTheSame

\* Records that are renumbered: g is which has become which.
Twins(A, B, g) ==
  /\ Distinct(A) /\ Distinct(B) /\ g \in [A -> B]
  /\ \A x, y \in A : g[x] = g[y] => x = y
  /\ \A b \in B : \E a \in A : g[a] = b
  /\ \A a \in A : Agree(a, g[a])

\* A one-to-one function between finite sets keeps their number.
LEMMA CountsArePaired ==
  ASSUME NEW S, IsFiniteSet(S), NEW T, NEW h, h \in [S -> T],
         \A x, y \in S : h[x] = h[y] => x = y, \A y \in T : \E x \in S : h[x] = y
  PROVE  Cardinality(S) = Cardinality(T)
<1>1. h \in Bijection(S, T)
  BY DEF Bijection, Injection, Surjection, IsInjective
<1>2. ExistsBijection(S, T)
  BY <1>1 DEF ExistsBijection
<1>3. IsFiniteSet(T)
  BY ImagesAreFinite
<1> QED BY <1>2, <1>3, FS_Bijection

\* Parts that g keeps apart from the rest are twins.
LEMMA PartsAreTwins ==
  ASSUME NEW A, NEW B, NEW g, Twins(A, B, g), NEW S \in SUBSET A, NEW T \in SUBSET B,
         \A a \in A : a \in S <=> g[a] \in T
  PROVE  (\E h : Twins(S, T, h)) /\ Cardinality(S) = Cardinality(T)
<1>1. PICK h : h = [a \in S |-> g[a]]
  OBVIOUS
<1>2. /\ h \in [S -> T] /\ \A x, y \in S : h[x] = h[y] => x = y
      /\ \A y \in T : \E x \in S : h[x] = y
      /\ \A a \in S : Agree(a, h[a])
  BY <1>1 DEF Twins
<1>3. Distinct(S) /\ Distinct(T) /\ IsFiniteSet(S)
  BY PartsAreDistinct DEF Twins, Distinct
<1>4. Twins(S, T, h)
  BY <1>2, <1>3 DEF Twins
<1> QED BY <1>2, <1>3, <1>4, CountsArePaired

LEMMA TwinsMirror ==
  ASSUME NEW A, NEW B, NEW g, Twins(A, B, g)
  PROVE  Mirror(A, B)
  BY DEF Twins, Mirror

\* As many records of the one set as of the other come up to a text.
Upto(A, rank) == {q \in A : TextRank[Observed(q)] <= rank}

LEMMA TwinsRankAlike ==
  ASSUME NEW A, NEW B, NEW g, Twins(A, B, g), NEW rank
  PROVE  Cardinality(Upto(A, rank)) = Cardinality(Upto(B, rank))
<1>1. \A a \in A : g[a] \in B /\ Observed(a) = Observed(g[a])
  BY DEF Twins, Agree
<1>2. \A a \in A : a \in Upto(A, rank) <=> g[a] \in Upto(B, rank)
  BY <1>1 DEF Upto
<1>3. Upto(A, rank) \in SUBSET A /\ Upto(B, rank) \in SUBSET B
  BY DEF Upto
<1> QED BY <1>2, <1>3, PartsAreTwins

\* Hence no record is ranked before the one at its place in the other set.
LEMMA NoneIsAhead ==
  ASSUME NEW A, NEW B, Distinct(A), Distinct(B),
         \A rank \in Int : Cardinality(Upto(A, rank)) = Cardinality(Upto(B, rank)),
         NEW k \in Nat, NEW a \in A, 1 + Cardinality({q \in A : Earlier(q, a)}) = k,
         NEW b \in B, 1 + Cardinality({q \in B : Earlier(q, b)}) = k
  PROVE  ~(TextRank[Observed(a)] < TextRank[Observed(b)])
<1> DEFINE rank == TextRank[Observed(a)]
<1>1. \A r \in A \cup B : TextRank[Observed(r)] \in Int
  BY TextAssumption DEF Distinct, IsRecord
<1>2. ASSUME rank < TextRank[Observed(b)] PROVE FALSE
  <2>1. PICK before : before = {q \in A : Earlier(q, a)}
    OBVIOUS
  <2>2. IsFiniteSet(before) /\ a \notin before
    <3>1. a.id \in Int
      BY DEF Distinct, IsRecord
    <3> QED BY <1>1, <2>1, <3>1, FS_Subset DEF Distinct, Earlier
  <2>3. Cardinality(before \cup {a}) = Cardinality(before) + 1
    BY <2>2, FS_AddElement
  <2>4. before \cup {a} \in SUBSET Upto(A, rank)
    BY <1>1, <2>1 DEF Earlier, Upto
  <2>5. Upto(B, rank) \in SUBSET {q \in B : Earlier(q, b)}
    BY <1>1, <1>2 DEF Earlier, Upto
  <2>6. IsFiniteSet(Upto(A, rank)) /\ IsFiniteSet({q \in B : Earlier(q, b)})
    BY FS_Subset DEF Upto, Distinct
  <2>7. Cardinality(before \cup {a}) <= Cardinality(Upto(A, rank))
    BY <2>4, <2>6, FS_Subset
  <2>8. Cardinality(Upto(B, rank)) <= Cardinality({q \in B : Earlier(q, b)})
    BY <2>5, <2>6, FS_Subset
  <2>9. Cardinality(Upto(A, rank)) = Cardinality(Upto(B, rank))
    BY <1>1
  <2>10. Cardinality(Upto(A, rank)) \in Nat /\ Cardinality(before) \in Nat
         /\ Cardinality({q \in B : Earlier(q, b)}) \in Nat
    BY <2>2, <2>6, FS_CardinalityType
  <2>11. Cardinality(before) + 1 = k
    BY <2>1, <2>10
  <2> QED BY <2>3, <2>7, <2>8, <2>9, <2>10, <2>11
<1> QED BY <1>2

\* Twins are sorted alike.
SortedAlike(first, second) ==
  /\ Indexed(first) /\ Indexed(second) /\ DOMAIN first = DOMAIN second
  /\ \A k \in DOMAIN first : Agree(first[k], second[k])

LEMMA TwinsSortAlike ==
  ASSUME NEW A, NEW B, NEW g, Twins(A, B, g)
  PROVE  SortedAlike(Sorted(A), Sorted(B))
<1>1. PICK first, second : first = Sorted(A) /\ second = Sorted(B)
  OBVIOUS
<1>2. Distinct(A) /\ Distinct(B)
  BY DEF Twins
<1>3. InOrder(first, A) /\ InOrder(second, B)
  BY <1>1, <1>2, SortedIsInOrder
<1>4. Cardinality(A) = Cardinality(B)
  <2>1. \A a \in A : a \in A <=> g[a] \in B
    BY DEF Twins
  <2> QED BY <2>1, PartsAreTwins
<1>5. DOMAIN first = DOMAIN second /\ Indexed(first) /\ Indexed(second)
  BY <1>3, <1>4 DEF InOrder, Indexed
<1>6. \A rank \in Int : Cardinality(Upto(A, rank)) = Cardinality(Upto(B, rank))
  BY TwinsRankAlike
<1>7. ASSUME NEW k \in DOMAIN first PROVE Agree(first[k], second[k])
  <2>1. PICK a, b : a = first[k] /\ b = second[k]
    OBVIOUS
  <2>2. /\ k \in Nat /\ a \in A /\ b \in B
        /\ 1 + Cardinality({q \in A : Earlier(q, a)}) = k
        /\ 1 + Cardinality({q \in B : Earlier(q, b)}) = k
    <3>1. k \in DOMAIN second /\ k \in Nat
      BY <1>5 DEF Indexed
    <3>2. a \in A /\ 1 + Cardinality({q \in A : Earlier(q, a)}) = k
      BY <1>3, <2>1 DEF InOrder
    <3>3. b \in B /\ 1 + Cardinality({q \in B : Earlier(q, b)}) = k
      BY <1>3, <2>1, <3>1 DEF InOrder
    <3> QED BY <3>1, <3>2, <3>3
  <2>3. ~(TextRank[Observed(a)] < TextRank[Observed(b)])
    BY <1>2, <1>6, <2>2, NoneIsAhead
  <2>4. ~(TextRank[Observed(b)] < TextRank[Observed(a)])
    BY <1>2, <1>6, <2>2, NoneIsAhead
  <2>5. IsRecord(a) /\ IsRecord(b)
    BY <1>2, <2>2 DEF Distinct
  <2>6. TextRank[Observed(a)] = TextRank[Observed(b)]
    BY <2>3, <2>4, <2>5, TextAssumption DEF IsRecord
  <2>7. Observed(a) = Observed(b)
    BY <2>5, <2>6, TextAssumption DEF IsRecord
  <2> QED BY <2>1, <2>5, <2>7, TextsSpeak
<1> QED BY <1>1, <1>5, <1>7 DEF SortedAlike

\* What the report takes from a sorted group without the numbers.
LEMMA SortedTwinsSpeak ==
  ASSUME NEW A, NEW B, NEW first, NEW second, first = Sorted(A), second = Sorted(B),
         SortedAlike(first, second), Len(first) > 0
  PROVE  /\ [k \in DOMAIN first |-> Observed(first[k])] = [k \in DOMAIN second |-> Observed(second[k])]
         /\ Agree(first[1], second[1]) /\ Agree(Preferred(A), Preferred(B))
<1>1. \A k \in DOMAIN first : Agree(first[k], second[k]) /\ Observed(first[k]) = Observed(second[k])
                              /\ first[k].source = second[k].source
  BY DEF SortedAlike, Agree
<1>2. DOMAIN first = DOMAIN second /\ 1 \in DOMAIN first /\ DOMAIN first \in SUBSET Nat
  <2>1. Len(first) \in Nat /\ DOMAIN first = 1..Len(first)
    BY DEF SortedAlike, Indexed
  <2> QED BY <2>1 DEF SortedAlike
<1>3. PICK reads : reads = {k \in DOMAIN first : first[k].source \in {"ast", "cert", "rule"}}
  OBVIOUS
<1>4. reads = {k \in DOMAIN second : second[k].source \in {"ast", "cert", "rule"}}
  BY <1>1, <1>2, <1>3
<1>5. PICK place : place = IF reads # {} THEN Min(reads) ELSE 1
  OBVIOUS
<1>6. Preferred(A) = first[place] /\ Preferred(B) = second[place]
  BY <1>3, <1>4, <1>5 DEF Preferred
<1>7. place \in DOMAIN first
  <2>1. CASE reads # {}
    <3>1. \E x \in reads : \A y \in reads : x <= y
      BY <1>2, <1>3, <2>1, Least
    <3>2. Min(reads) \in reads
      BY <3>1 DEF Min
    <3> QED BY <1>3, <1>5, <2>1, <3>2
  <2> QED BY <1>2, <1>5, <2>1
<1>8. [k \in DOMAIN first |-> Observed(first[k])] = [k \in DOMAIN second |-> Observed(second[k])]
  BY <1>1, <1>2
<1> QED BY <1>1, <1>2, <1>6, <1>7, <1>8

\* Twins have as many ambiguous matches.
LEMMA TwinsAreAsAmbiguous ==
  ASSUME NEW A, NEW B, NEW g, Twins(A, B, g), NEW key
  PROVE  Cardinality(AmbiguousMatches(A, key)) = Cardinality(AmbiguousMatches(B, key))
<1>1. /\ g \in [A -> B] /\ \A x, y \in A : g[x] = g[y] => x = y
      /\ \A b \in B : \E a \in A : g[a] = b
      /\ \A a \in A : Agree(a, g[a])
  BY DEF Twins
<1>2. ASSUME NEW a \in A, NEW b \in A
      PROVE  <<a, b>> \in AmbiguousMatches(A, key) <=> <<g[a], g[b]>> \in AmbiguousMatches(B, key)
  <2>1. /\ KeyV3(a) = KeyV3(g[a]) /\ g[a] \in B /\ g[b] \in B /\ (a = b <=> g[a] = g[b])
        /\ Agree(a, g[a]) /\ Agree(b, g[b])
    BY <1>1, AgreeingSpeak
  <2>2. Ambiguous(a, b) <=> Ambiguous(g[a], g[b])
    BY <2>1 DEF Ambiguous, Nearby, Agree
  <2> QED BY <2>1, <2>2 DEF AmbiguousMatches, Agree
<1>3. PICK S, T : S = AmbiguousMatches(A, key) /\ T = AmbiguousMatches(B, key)
  OBVIOUS
<1>4. S \in SUBSET (A \X A) /\ T \in SUBSET (B \X B)
  BY <1>3 DEF AmbiguousMatches
<1>5. PICK h : h = [pair \in S |-> <<g[pair[1]], g[pair[2]]>>]
  OBVIOUS
<1>6. h \in [S -> T]
  BY <1>2, <1>3, <1>4, <1>5
<1>7. ASSUME NEW x \in S, NEW y \in S, h[x] = h[y] PROVE x = y
  <2>1. g[x[1]] = g[y[1]] /\ g[x[2]] = g[y[2]]
    BY <1>5, <1>7
  <2>2. x[1] = y[1] /\ x[2] = y[2]
    BY <1>1, <1>4, <2>1
  <2> QED BY <1>4, <2>2
<1>8. ASSUME NEW pair \in T PROVE \E x \in S : h[x] = pair
  <2>1. PICK a \in A, b \in A : g[a] = pair[1] /\ g[b] = pair[2]
    BY <1>1, <1>4
  <2>2. <<g[a], g[b]>> = pair
    BY <1>4, <2>1
  <2>3. <<a, b>> \in S
    BY <1>2, <1>3, <2>2
  <2> QED BY <1>5, <2>2, <2>3
<1>9. IsFiniteSet(S)
  <2>1. IsFiniteSet(A)
    BY DEF Twins, Distinct
  <2>2. IsFiniteSet(A \X A)
    BY <2>1, FS_Product
  <2> QED BY <1>4, <2>2, FS_Subset
<1> QED BY <1>3, <1>6, <1>7, <1>8, <1>9, CountsArePaired

\* What is kept, and under which key, is the same of twins.
LEMMA TwinsAreGroupedAlike ==
  ASSUME NEW A, NEW B, NEW g, Twins(A, B, g), NEW version
  PROVE  /\ \A a \in A : /\ a \in Kept(version, A) <=> g[a] \in Kept(version, B)
                         /\ KeyOf(version, a) = KeyOf(version, g[a])
         /\ Keys(version, A) = Keys(version, B)
         /\ \A key : \E h : Twins(GroupOf(version, A, key), GroupOf(version, B, key), h)
<1>1. ShowTheSame(A, B)
  BY TwinsMirror, MirrorsShowTheSame
<1>2. \A a \in A : g[a] \in B /\ Agree(a, g[a])
  BY DEF Twins
<1>3. ASSUME NEW a \in A PROVE a \in Kept(version, A) <=> g[a] \in Kept(version, B)
  <2>1. PICK b : b = g[a] /\ b \in B /\ Agree(a, b)
    BY <1>2
  <2>2. Suppressed(A, a) <=> Suppressed(B, b)
    BY <1>1, <2>1 DEF Suppressed, Direct, Agree, ShowTheSame
  <2> QED BY <2>1, <2>2 DEF Kept
<1>4. \A a \in A : KeyOf(version, a) = KeyOf(version, g[a])
  BY <1>2, AgreeingSpeak DEF KeyOf
<1>5. Keys(version, A) = Keys(version, B)
  <2>1. \A b \in B : \E a \in A : g[a] = b
    BY DEF Twins
  <2>2. Kept(version, A) \subseteq A /\ Kept(version, B) \subseteq B
    BY DEF Kept
  <2> QED BY <1>3, <1>4, <2>1, <2>2 DEF Keys
<1>6. ASSUME NEW key
      PROVE  \E h : Twins(GroupOf(version, A, key), GroupOf(version, B, key), h)
  <2>1. PICK S, T : S = GroupOf(version, A, key) /\ T = GroupOf(version, B, key)
    OBVIOUS
  <2>2. S \in SUBSET A /\ T \in SUBSET B
    BY <2>1 DEF GroupOf, Kept
  <2>3. \A a \in A : a \in S <=> g[a] \in T
    BY <1>3, <1>4, <2>1 DEF GroupOf
  <2> QED BY <2>1, <2>2, <2>3, PartsAreTwins
<1> QED BY <1>3, <1>4, <1>5, <1>6

\* A finding without the numbers has the texts for evidence.
LEMMA WithoutNumbers ==
  ASSUME NEW f, NEW texts, texts = [k \in DOMAIN f.evidence |-> Observed(f.evidence[k])]
  PROVE  Anonymous(f) = [f EXCEPT !.evidence = texts]
  BY DEF Anonymous

\* Groups that say the same in records that show the same make the same finding.
LEMMA SameFindingV2 ==
  ASSUME NEW A, NEW B, ShowTheSame(A, B), NEW S, NEW T, SayTheSame(S, T),
         Agree(Preferred(S), Preferred(T)), NEW first, first = Sorted(S), NEW second, second = Sorted(T),
         [k \in DOMAIN first |-> Observed(first[k])] = [k \in DOMAIN second |-> Observed(second[k])],
         NEW key
  PROVE  Anonymous(FindingV2(A, key, S)) = Anonymous(FindingV2(B, key, T))
<1>1. PICK texts : /\ texts = [k \in DOMAIN first |-> Observed(first[k])]
                   /\ texts = [k \in DOMAIN second |-> Observed(second[k])]
  OBVIOUS
<1>11. PICK conflict \in BOOLEAN : conflict <=> OperationConflict(A, key[5])
  OBVIOUS
<1>2. PICK named, context, sources, confidences :
        /\ named = Values(S, "operation") /\ context = ContextConflicts(S)
        /\ sources = {r.source : r \in S} /\ confidences = BySource(S)
  OBVIOUS
<1>3. PICK library, protocol, key_size, path, category :
        /\ library = ContextValue(S, "library") /\ protocol = ContextValue(S, "protocol")
        /\ key_size = ContextValue(S, "key_size")
        /\ path = Preferred(S).path /\ category = FindingCategory(key[3], Preferred(S))
  OBVIOUS
<1>4. /\ conflict <=> OperationConflict(B, key[5])
      /\ named = Values(T, "operation") /\ context = ContextConflicts(T)
      /\ sources = {r.source : r \in T} /\ confidences = BySource(T)
  BY <1>2, <1>11 DEF ShowTheSame, SayTheSame
<1>5. /\ library = ContextValue(T, "library") /\ protocol = ContextValue(T, "protocol")
      /\ key_size = ContextValue(T, "key_size")
  BY <1>3 DEF SayTheSame
<1>6. path = Preferred(T).path /\ category = FindingCategory(key[3], Preferred(T))
  BY <1>3 DEF Agree, FindingCategory
<1>10. PICK shown, flagged :
         /\ shown = IF ~conflict THEN {} ELSE IF named # {} THEN named ELSE {key[5][2]}
         /\ flagged = (conflict \/ context # {})
  OBVIOUS
<1> DEFINE Made(list) ==
      [version |-> "operation-v2", identity |-> key,
       component |-> key[1], algorithm |-> key[2], usage |-> key[3], kind |-> key[4],
       category |-> category, path |-> path, anchor |-> key[5][2],
       sources |-> sources, by_source |-> confidences,
       conflicting |-> shown, context_conflicts |-> context, conflict |-> flagged,
       library |-> library, protocol |-> protocol, key_size |-> key_size,
       evidence |-> list, links |-> {}, ambiguous |-> 0]
<1>7. FindingV2(A, key, S) = Made(first)
  BY <1>2, <1>3, <1>10, <1>11 DEF FindingV2
<1>8. FindingV2(B, key, T) = Made(second)
  BY <1>4, <1>5, <1>6, <1>10 DEF FindingV2
<1>9. ASSUME NEW list, texts = [k \in DOMAIN list |-> Observed(list[k])]
      PROVE  Anonymous(Made(list)) = Made(texts)
  <2>1. PICK f : f = Made(list)
    OBVIOUS
  <2>2. f.evidence = list
    BY <2>1
  <2>3. [f EXCEPT !.evidence = texts] = Made(texts)
    BY <2>1
  <2>4. texts = [k \in DOMAIN f.evidence |-> Observed(f.evidence[k])]
    BY <1>9, <2>2
  <2>5. Anonymous(f) = [f EXCEPT !.evidence = texts]
    BY <2>4, WithoutNumbers
  <2> QED BY <2>1, <2>3, <2>5
<1> HIDE DEF Made
<1> QED BY <1>1, <1>7, <1>8, <1>9

LEMMA SameFindingV3 ==
  ASSUME NEW A, NEW B, ShowTheSame(A, B), NEW S, NEW T, SayTheSame(S, T),
         Agree(Preferred(S), Preferred(T)), NEW first, first = Sorted(S), NEW second, second = Sorted(T),
         [k \in DOMAIN first |-> Observed(first[k])] = [k \in DOMAIN second |-> Observed(second[k])],
         Agree(first[1], second[1]), NEW key,
         Cardinality(AmbiguousMatches(A, key)) = Cardinality(AmbiguousMatches(B, key))
  PROVE  Anonymous(FindingV3(A, key, S)) = Anonymous(FindingV3(B, key, T))
<1>1. PICK texts : /\ texts = [k \in DOMAIN first |-> Observed(first[k])]
                   /\ texts = [k \in DOMAIN second |-> Observed(second[k])]
  OBVIOUS
<1>2. PICK links, ambiguous, context, sources, confidences :
        /\ links = CrossKindLinks(A, key) /\ ambiguous = Cardinality(AmbiguousMatches(A, key))
        /\ context = ContextConflicts(S)
        /\ sources = {r.source : r \in S} /\ confidences = BySource(S)
  OBVIOUS
<1>3. PICK library, protocol, key_size, path, usage, category :
        /\ library = ContextValue(S, "library") /\ protocol = ContextValue(S, "protocol")
        /\ key_size = ContextValue(S, "key_size") /\ path = Preferred(S).path
        /\ usage = Usage(first[1]) /\ category = FindingCategory(usage, Preferred(S))
  OBVIOUS
<1>4. PICK component, algorithm, anchor :
        /\ component = Component(first[1].path) /\ algorithm = first[1].algorithm
        /\ anchor = <<"line", first[1].line, first[1].column, first[1].semantic>>
  OBVIOUS
<1>5. /\ links = CrossKindLinks(B, key) /\ ambiguous = Cardinality(AmbiguousMatches(B, key))
      /\ context = ContextConflicts(T)
      /\ sources = {r.source : r \in T} /\ confidences = BySource(T)
  BY <1>2 DEF ShowTheSame, SayTheSame
<1>6. /\ library = ContextValue(T, "library") /\ protocol = ContextValue(T, "protocol")
      /\ key_size = ContextValue(T, "key_size")
  BY <1>3 DEF SayTheSame
<1>7. /\ path = Preferred(T).path /\ usage = Usage(second[1])
      /\ category = FindingCategory(usage, Preferred(T))
  BY <1>3, AgreeingSpeak DEF Agree, FindingCategory
<1>8. /\ component = Component(second[1].path) /\ algorithm = second[1].algorithm
      /\ anchor = <<"line", second[1].line, second[1].column, second[1].semantic>>
  BY <1>4 DEF Agree
<1> DEFINE Made(list) ==
      [version |-> "operation-v3", identity |-> key, component |-> component,
       algorithm |-> algorithm, usage |-> usage, kind |-> key[2],
       category |-> category, path |-> path, anchor |-> anchor,
       sources |-> sources, by_source |-> confidences, conflicting |-> {},
       context_conflicts |-> context, conflict |-> context # {},
       library |-> library, protocol |-> protocol, key_size |-> key_size,
       evidence |-> list, links |-> links, ambiguous |-> ambiguous]
<1>9. FindingV3(A, key, S) = Made(first)
  BY <1>2, <1>3, <1>4 DEF FindingV3
<1>10. FindingV3(B, key, T) = Made(second)
  BY <1>5, <1>6, <1>7, <1>8 DEF FindingV3
<1>11. ASSUME NEW list, texts = [k \in DOMAIN list |-> Observed(list[k])]
      PROVE  Anonymous(Made(list)) = Made(texts)
  <2>1. PICK f : f = Made(list)
    OBVIOUS
  <2>2. f.evidence = list
    BY <2>1
  <2>3. [f EXCEPT !.evidence = texts] = Made(texts)
    BY <2>1
  <2>4. texts = [k \in DOMAIN f.evidence |-> Observed(f.evidence[k])]
    BY <1>11, <2>2
  <2>5. Anonymous(f) = [f EXCEPT !.evidence = texts]
    BY <2>4, WithoutNumbers
  <2> QED BY <2>1, <2>3, <2>5
<1> HIDE DEF Made
<1> QED BY <1>1, <1>9, <1>10, <1>11

\* Twins make the same findings.
FindingsOf(version, records) ==
  {Anonymous(FindingFor(version, records, key)) : key \in Keys(version, records)}

LEMMA TwinsMakeTheSame ==
  ASSUME NEW A, NEW B, NEW g, Twins(A, B, g), NEW version
  PROVE  FindingsOf(version, A) = FindingsOf(version, B)
<1>1. Keys(version, A) = Keys(version, B) /\ ShowTheSame(A, B) /\ Distinct(A)
  BY TwinsAreGroupedAlike, TwinsMirror, MirrorsShowTheSame DEF Twins
<1>2. ASSUME NEW key \in Keys(version, A)
      PROVE  Anonymous(FindingFor(version, A, key)) = Anonymous(FindingFor(version, B, key))
  <2>1. PICK S, T, h : /\ S = GroupOf(version, A, key) /\ T = GroupOf(version, B, key)
                       /\ Twins(S, T, h)
    BY TwinsAreGroupedAlike
  <2>2. SayTheSame(S, T)
    BY <2>1, TwinsMirror, MirrorsSayTheSame
  <2>3. PICK first, second : first = Sorted(S) /\ second = Sorted(T)
    OBVIOUS
  <2>4. SortedAlike(first, second)
    BY <2>1, <2>3, TwinsSortAlike
  <2>5. Len(first) > 0
    <3>1. PICK r \in Kept(version, A) : key = KeyOf(version, r)
      BY <1>2 DEF Keys
    <3>2. PICK f : f = FindingFor(version, A, KeyOf(version, r))
      OBVIOUS
    <3>3. Len(f.evidence) > 0 /\ f.evidence = Sorted(GroupOf(version, A, KeyOf(version, r)))
      BY <1>1, <3>2, FindingsHold
    <3> QED BY <2>1, <2>3, <3>1, <3>3
  <2>6. /\ [k \in DOMAIN first |-> Observed(first[k])] = [k \in DOMAIN second |-> Observed(second[k])]
        /\ Agree(first[1], second[1]) /\ Agree(Preferred(S), Preferred(T))
    BY <2>3, <2>4, <2>5, SortedTwinsSpeak
  <2>7. Cardinality(AmbiguousMatches(A, key)) = Cardinality(AmbiguousMatches(B, key))
    BY TwinsAreAsAmbiguous
  <2>8. Anonymous(FindingV2(A, key, S)) = Anonymous(FindingV2(B, key, T))
    BY <1>1, <2>2, <2>3, <2>6, SameFindingV2
  <2>9. Anonymous(FindingV3(A, key, S)) = Anonymous(FindingV3(B, key, T))
    BY <1>1, <2>2, <2>3, <2>6, <2>7, SameFindingV3
  <2> QED BY <2>1, <2>8, <2>9 DEF FindingFor
<1> QED BY <1>1, <1>2 DEF FindingsOf

\* The same observations, walked in another order, are twins.
LEMMA WalksAreTwins ==
  ASSUME NEW seq, Recording(seq), NEW D, D = DOMAIN seq, NEW order \in Bijection(D, D),
         NEW mixed, mixed = [i \in D |-> [seq[order[i]] EXCEPT !.id = i]]
  PROVE  Recording(mixed) /\ \E g : Twins(ToSet(mixed), ToSet(seq), g)
<1>1. /\ order \in [D -> D] /\ \A i, j \in D : order[i] = order[j] => i = j
      /\ \A k \in D : \E i \in D : order[i] = k
  BY DEF Bijection, Injection, Surjection, IsInjective
<1>2. Indexed(seq) /\ D \in SUBSET Nat /\ \A i \in D : seq[i].id = i /\ IsRecord(seq[i])
  BY ListsAreIndexed DEF Recording, Indexed
<1>3. ASSUME NEW i \in D
      PROVE  mixed[i].id = i /\ IsRecord(mixed[i]) /\ Observed(mixed[i]) = Observed(seq[order[i]])
  <2>1. PICK r, s : r = seq[order[i]] /\ s = [r EXCEPT !.id = i]
    OBVIOUS
  <2>2. mixed[i] = s
    BY <2>1
  <2>3. IsRecord(r) /\ i \in Int
    BY <1>1, <1>2, <2>1
  <2>4. "id" \in DOMAIN r /\ DOMAIN s = DOMAIN r /\ s.id = i /\ \A f \in DOMAIN r \ {"id"} : s[f] = r[f]
    BY <2>1, <2>3 DEF IsRecord, Observation
  <2>5. Observed(s) = Observed(r)
    BY <2>4 DEF Observed
  <2> QED BY <2>1, <2>2, <2>3, <2>4, <2>5 DEF IsRecord
<1>4. Indexed(mixed) /\ IsList(mixed)
  <2>1. PICK k : k = Len(seq) /\ k \in Nat /\ D = 1..k
    BY <1>2 DEF Indexed
  <2>2. mixed = [i \in 1..k |-> mixed[i]]
    BY <2>1
  <2>3. Indexed(mixed) /\ Len(mixed) = k
    BY <2>1, <2>2, FunctionsAreIndexed
  <2> QED BY <2>2, <2>3, ListsByIndex DEF Indexed
<1>5. DOMAIN mixed = D
  OBVIOUS
<1>6. Recording(mixed)
  BY <1>3, <1>4, <1>5 DEF Recording
<1>7. PICK A, B : A = ToSet(mixed) /\ B = ToSet(seq)
  OBVIOUS
<1>8. Distinct(A) /\ Distinct(B)
  BY <1>6, <1>7, EvidenceIsDistinct
<1>9. PICK g : g = [q \in A |-> seq[order[q.id]]]
  OBVIOUS
<1>10. \A q \in A : \E i \in D : q = mixed[i] /\ q.id = i /\ g[q] = seq[order[i]]
  BY <1>3, <1>5, <1>7, <1>9 DEF ToSet
<1>11. g \in [A -> B]
  <2>1. \A q \in A : g[q] \in B
    BY <1>1, <1>7, <1>10 DEF ToSet
  <2> QED BY <1>9, <2>1
<1>12. \A x, y \in A : g[x] = g[y] => x = y
  BY <1>1, <1>2, <1>10
<1>13. \A r \in B : \E q \in A : g[q] = r
  <2>1. ASSUME NEW r \in B PROVE \E q \in A : g[q] = r
    <3>1. PICK k \in D : r = seq[k]
      BY <1>7, <2>1 DEF ToSet
    <3>2. PICK i \in D : order[i] = k
      BY <1>1
    <3>3. mixed[i] \in A /\ mixed[i].id = i
      BY <1>3, <1>5, <1>7 DEF ToSet
    <3> QED BY <1>9, <3>1, <3>2, <3>3
  <2> QED BY <2>1
<1>14. \A q \in A : Agree(q, g[q])
  <2>1. \A q \in A : Observed(q) = Observed(g[q])
    BY <1>3, <1>10
  <2>2. \A q \in A : IsRecord(q) /\ IsRecord(g[q])
    BY <1>8, <1>11 DEF Distinct
  <2> QED BY <2>1, <2>2, TextsSpeak
<1> QED BY <1>6, <1>7, <1>8, <1>11, <1>12, <1>13, <1>14 DEF Twins

\* The same observations in any order, as another walk or other collectors would have
\* made them, under other asset_ids, give the same findings with the same evidence in
\* the same order.
THEOREM FindingsAreStable == Spec => []FindingsStable
<1>1. ASSUME EvidenceInv PROVE FindingsStable
  <2>1. SUFFICES ASSUME phase = "correlated", NEW order \in Bijection(DOMAIN evidence, DOMAIN evidence),
                        NEW mixed, mixed = [i \in DOMAIN evidence |-> [evidence[order[i]] EXCEPT !.id = i]]
                 PROVE  {Anonymous(f) : f \in Correlate(correlator, mixed)} = {Anonymous(f) : f \in findings}
    BY DEF FindingsStable
  <2>2. PICK seq, version : seq = evidence /\ version = correlator
    OBVIOUS
  <2>3. Recording(seq) /\ findings = Correlate(version, seq)
    BY <1>1, <2>1, <2>2 DEF EvidenceInv
  <2>4. PICK A, B, g : A = ToSet(mixed) /\ B = ToSet(seq) /\ Twins(A, B, g)
    BY <2>1, <2>2, <2>3, WalksAreTwins
  <2>5. FindingsOf(version, A) = FindingsOf(version, B)
    BY <2>4, TwinsMakeTheSame
  <2>6. {Anonymous(f) : f \in Correlate(version, mixed)} = FindingsOf(version, A)
    BY <2>4, FindingsByKey DEF FindingsOf
  <2>7. {Anonymous(f) : f \in Correlate(version, seq)} = FindingsOf(version, B)
    BY <2>4, FindingsByKey DEF FindingsOf
  <2> QED BY <2>2, <2>3, <2>5, <2>6, <2>7
<1> QED BY <1>1, EvidenceHeld, PTL
=============================================================================
