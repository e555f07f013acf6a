---------------------------- MODULE ListingProofs ----------------------------
(***************************************************************************)
(* Theorems about the pages of a list endpoint, for any number of rows,    *)
(* any limit, filters and search, and any rows that come and go.           *)
(*                                                                         *)
(* The argument: when no two rows have the same key, a row's place on the  *)
(* pages is its rank, the number of selected rows before it (RankInOrder), *)
(* and the pages that were delivered are the ranks below Offset.  A row    *)
(* that comes in lowers no rank, so a row that is still missing stays      *)
(* ahead of the walk (NoneMissed); a row that goes raises none, so a row   *)
(* that was delivered stays behind it (NoneTwice).                         *)
(***************************************************************************)
EXTENDS Listing, FiniteSetTheorems, SequenceTheorems, TLAPS

(***************************************************************************)
(* The invariant                                                           *)
(***************************************************************************)

\* The ordering column tells all rows apart that have been in the table.
Determined ==
    /\ Given(params.ordering)
    /\ \A r, s \in table \cup gone : column[r].at = column[s].at => r = s

Preceding(r) == {s \in Selected(table) : s # r /\ Before(s, r)}

Rank(r) == Cardinality(Preceding(r))

ListShape ==
    /\ column \in Contents
    /\ table \subseteq Rows /\ IsFiniteSet(table) /\ gone \subseteq Rows
    /\ params \in Params
    /\ page \in Nat \ {0}
    /\ phase \in {"count", "select", "over"}
    /\ got \in Seq(Rows)

Histories ==
    /\ Received \subseteq Selected(table \cup gone)
    /\ ~deleted => gone = {} /\ start \subseteq table
    /\ ~inserted => table \subseteq start

NoneMissed ==
    Determined /\ ~deleted =>
        \A r \in Selected(start) : r \in Received \/ (phase # "over" /\ Rank(r) >= Offset)

NoneTwice ==
    Determined /\ ~inserted =>
        /\ IsInjective(got)
        /\ \A r \in Received \cap table : Rank(r) < Offset

InOrder == \A i \in DOMAIN got : \A j \in 1 .. i : Before(got[j], got[i])

Undisturbed ==
    Determined /\ ~inserted /\ ~deleted =>
        /\ InOrder
        /\ phase # "count" => count = Cardinality(Selected(table))

Inv == ListShape /\ Histories /\ NoneMissed /\ NoneTwice /\ Undisturbed

(***************************************************************************)
(* Ranks                                                                   *)
(***************************************************************************)

LEMMA SelectedIsFilter ==
  /\ \A rows : Selected(rows) \subseteq rows
  /\ \A rows, more : rows \subseteq more => Selected(rows) = Selected(more) \cap rows
  BY DEF Selected, Searched, Filtered

LEMMA OffsetType ==
  ASSUME ListShape
  PROVE  Offset \in Nat /\ params.limit \in Nat \ {0}
  <1>1. params.limit \in Nat \ {0} /\ page - 1 \in Nat
    BY ListingAssumption DEF ListShape, Params
  <1>. QED
    BY <1>1 DEF Offset

LEMMA BeforeIsTotal ==
  ASSUME ListShape, Determined, NEW r \in table \cup gone, NEW s \in table \cup gone
  PROVE  /\ Before(r, s) \/ Before(s, r)
         /\ Before(r, s) /\ Before(s, r) => r = s
  <1>1. column[r].at \in Nat /\ column[s].at \in Nat
    BY ListingAssumption DEF ListShape
  <1>2. column[r].at = column[s].at => r = s
    BY DEF Determined
  <1>3. params.ordering = "at" \/ params.ordering = "-at"
    BY DEF Determined, Given, ListShape, Params
  <1>4. CASE params.ordering = "at"
    BY <1>1, <1>2, <1>4 DEF Before
  <1>5. CASE params.ordering = "-at"
    BY <1>1, <1>2, <1>5 DEF Before
  <1>. QED
    BY <1>3, <1>4, <1>5

LEMMA FunctionIsSeq ==
  ASSUME NEW S, NEW n \in Nat, NEW f \in [1 .. n -> S]
  PROVE  f \in Seq(S) /\ Len(f) = n
  <1>1. f \in Seq(S)
    BY SeqDef
  <1>2. DOMAIN f = 1 .. n /\ DOMAIN f = 1 .. Len(f) /\ Len(f) \in Nat
    BY <1>1, LenProperties
  <1>. DEFINE m == Len(f)
  <1>3. 1 .. n = 1 .. m /\ m \in Nat
    BY <1>2
  <1>. HIDE DEF m
  <1>4. m = n
    <2>1. n > m => n \in 1 .. n /\ n \notin 1 .. m
      BY <1>3
    <2>2. m > n => m \in 1 .. m /\ m \notin 1 .. n
      BY <1>3
    <2>. QED
      BY <1>3, <2>1, <2>2
  <1>. QED
    BY <1>1, <1>4 DEF m

\* An order names every row once.
LEMMA OrderFacts ==
  ASSUME NEW rows, IsFiniteSet(rows), NEW order \in Orders(rows)
  PROVE  LET n == Cardinality(rows)
         IN  /\ n \in Nat
             /\ order \in Seq(rows) /\ Len(order) = n
             /\ DOMAIN order = 1 .. n
             /\ \A i \in 1 .. n : order[i] \in rows
             /\ \A i, j \in 1 .. n : order[i] = order[j] => i = j
             /\ \A r \in rows : \E i \in 1 .. n : order[i] = r
             /\ \A i, j \in 1 .. n : j =< i => Before(order[j], order[i])
  <1>. DEFINE n == Cardinality(rows)
  <1>1. n \in Nat
    BY FS_CardinalityType
  <1>2. /\ order \in [1 .. n -> rows]
        /\ \A i, j \in 1 .. n : i # j => order[i] # order[j]
        /\ \A i \in DOMAIN order : \A j \in 1 .. i : Before(order[j], order[i])
    BY DEF Orders, SetToSeqs
  <1>3. IsFiniteSet(1 .. n) /\ Cardinality(1 .. n) = n
    <2>1. IsFiniteSet(1 .. n) /\ Cardinality(1 .. n) = IF 1 > n THEN 0 ELSE n - 1 + 1
      BY <1>1, FS_Interval
    <2>. HIDE DEF n
    <2>. QED
      BY <1>1, <2>1
  <1>4. order \in Injection(1 .. n, rows)
    BY <1>2 DEF Injection, IsInjective
  <1>5. order \in Surjection(1 .. n, rows)
    BY <1>3, <1>4, FS_Injection
  <1>6. \A r \in rows : \E i \in 1 .. n : order[i] = r
    BY <1>5 DEF Surjection
  <1>7. order \in Seq(rows) /\ Len(order) = n
    <2>. HIDE DEF n
    <2>. QED
      BY <1>1, <1>2, FunctionIsSeq
  <1>8. \A i, j \in 1 .. n : j =< i => Before(order[j], order[i])
    <2>. HIDE DEF n
    <2>1. \A i, j \in 1 .. n : j =< i => j \in 1 .. i
      BY <1>1
    <2>. QED
      BY <1>2, <2>1
  <1>. QED
    BY <1>1, <1>2, <1>6, <1>7, <1>8

LEMMA RankType ==
  ASSUME ListShape, NEW r
  PROVE  IsFiniteSet(Preceding(r)) /\ Rank(r) \in Nat
  <1>1. Preceding(r) \subseteq table
    BY SelectedIsFilter DEF Preceding
  <1>2. IsFiniteSet(Preceding(r))
    BY <1>1, FS_Subset DEF ListShape
  <1>. QED
    BY <1>2, FS_CardinalityType DEF Rank

LEMMA RankTypeNext ==
  ASSUME ListShape', NEW r
  PROVE  IsFiniteSet(Preceding(r)') /\ Rank(r)' \in Nat
  <1>1. Preceding(r)' \subseteq table'
    BY DEF Preceding, Selected, Searched, Filtered
  <1>2. IsFiniteSet(Preceding(r)')
    BY <1>1, FS_Subset DEF ListShape
  <1>. QED
    BY <1>2, FS_CardinalityType DEF Rank

LEMMA SelectedIsFinite ==
  ASSUME ListShape
  PROVE  Selected(table) \subseteq table /\ IsFiniteSet(Selected(table))
  BY SelectedIsFilter, FS_Subset DEF ListShape

\* When the order is determined, the place of a row is its rank.
LEMMA RankInOrder ==
  ASSUME ListShape, Determined, NEW order \in Orders(Selected(table)),
         NEW i \in 1 .. Cardinality(Selected(table))
  PROVE  Rank(order[i]) = i - 1
  <1>. DEFINE sel == Selected(table)
              n == Cardinality(sel)
              earlier == {order[j] : j \in 1 .. i - 1}
              f == [j \in 1 .. i - 1 |-> order[j]]
  <1>1. /\ n \in Nat
        /\ \A j \in 1 .. n : order[j] \in sel
        /\ \A j, k \in 1 .. n : order[j] = order[k] => j = k
        /\ \A r \in sel : \E j \in 1 .. n : order[j] = r
        /\ \A j, k \in 1 .. n : k =< j => Before(order[k], order[j])
    BY SelectedIsFinite, OrderFacts
  <1>2. sel \subseteq table \cup gone
    BY SelectedIsFinite
  <1>3. i \in 1 .. n
    OBVIOUS
  <1>. HIDE DEF sel, n
  <1>4. i - 1 \in Nat /\ \A j \in 1 .. i - 1 : j \in 1 .. n /\ j =< i /\ j # i
    BY <1>1, <1>3
  <1>5. Preceding(order[i]) = earlier
    <2>1. ASSUME NEW j \in 1 .. i - 1 PROVE order[j] \in Preceding(order[i])
      BY <1>1, <1>3, <1>4 DEF Preceding, sel
    <2>2. ASSUME NEW s \in Preceding(order[i]) PROVE s \in earlier
      <3>1. s \in sel /\ s # order[i] /\ Before(s, order[i])
        BY DEF Preceding, sel
      <3>2. PICK j \in 1 .. n : order[j] = s
        BY <1>1, <3>1
      <3>3. ~(i =< j)
        <4>1. ASSUME i =< j PROVE FALSE
          <5>1. Before(order[i], s)
            BY <1>1, <1>3, <3>2, <4>1
          <5>2. order[i] \in table \cup gone /\ s \in table \cup gone
            BY <1>1, <1>2, <1>3, <3>1
          <5>. QED
            BY <3>1, <5>1, <5>2, BeforeIsTotal
        <4>. QED
          BY <4>1
      <3>4. j \in 1 .. i - 1
        BY <1>1, <1>3, <3>3
      <3>. QED
        BY <3>2, <3>4
    <2>. QED
      BY <2>1, <2>2
  <1>6. f \in Bijection(1 .. i - 1, earlier)
    <2>1. f \in [1 .. i - 1 -> earlier]
      OBVIOUS
    <2>2. \A j, k \in 1 .. i - 1 : f[j] = f[k] => j = k
      BY <1>1, <1>4
    <2>3. \A s \in earlier : \E j \in 1 .. i - 1 : f[j] = s
      OBVIOUS
    <2>. HIDE DEF f, earlier
    <2>. QED
      BY <2>1, <2>2, <2>3 DEF Bijection, Injection, Surjection, IsInjective
  <1>7. Cardinality(earlier) = i - 1
    <2>. HIDE DEF f, earlier
    <2>1. ExistsBijection(1 .. i - 1, earlier)
      BY <1>6 DEF ExistsBijection
    <2>. QED
      BY <1>4, <2>1, FS_CountingElements
  <1>. QED
    BY <1>5, <1>7 DEF Rank

(***************************************************************************)
(* Pages                                                                   *)
(***************************************************************************)

\* A page holds the places behind Offset, and is not full only when there are no more.
LEMMA PageOfOrder ==
  ASSUME ListShape, NEW rows \in SUBSET Rows, IsFiniteSet(rows), NEW order \in Orders(rows)
  PROVE  LET n == Cardinality(rows)
             l == Len(PageOf(order))
         IN  /\ PageOf(order) \in Seq(Rows) /\ l \in 0 .. params.limit
             /\ \A k \in 1 .. l : Offset + k \in 1 .. n /\ PageOf(order)[k] = order[Offset + k]
             /\ \A i \in 1 .. n : i > Offset /\ i =< Offset + params.limit => i - Offset \in 1 .. l
             /\ l < params.limit => n < Offset + params.limit
  <1>. DEFINE n == Cardinality(rows)
              m == Offset
              k == params.limit
              last == IF m + k < n THEN m + k ELSE n
              items == PageOf(order)
  <1>1. /\ n \in Nat /\ Len(order) = n /\ \A i \in 1 .. n : order[i] \in rows
    BY OrderFacts
  <1>2. m \in Nat /\ k \in Nat \ {0}
    BY OffsetType
  <1>3. items = SubSeq(order, m + 1, last)
    BY <1>1 DEF PageOf
  <1>. HIDE DEF n, m, k, items
  <1>4. /\ m + 1 \in Int /\ last \in Int /\ last =< n /\ last =< m + k
        /\ \A i \in m + 1 .. last : order[i] \in Rows
    BY <1>1, <1>2
  <1>5. /\ items \in Seq(Rows)
        /\ Len(items) = IF m + 1 =< last THEN last - (m + 1) + 1 ELSE 0
        /\ \A i \in 1 .. last - (m + 1) + 1 : items[i] = order[m + 1 + i - 1]
    <2>. HIDE DEF last
    <2>. QED
      BY <1>3, <1>4, SubSeqProperties
  <1>6. Len(items) \in 0 .. k /\ (Len(items) < k => n < m + k)
    BY <1>1, <1>2, <1>5
  <1>7. ASSUME NEW i \in 1 .. Len(items) PROVE m + i \in 1 .. n /\ items[i] = order[m + i]
    <2>1. i \in 1 .. last - (m + 1) + 1 /\ m + 1 + i - 1 = m + i /\ m + i \in 1 .. n
      BY <1>1, <1>2, <1>5
    <2>. QED
      BY <1>5, <2>1
  <1>8. ASSUME NEW i \in 1 .. n, i > m, i =< m + k PROVE i - m \in 1 .. Len(items)
    BY <1>1, <1>2, <1>5, <1>8
  <1>. QED
    BY <1>5, <1>6, <1>7, <1>8 DEF n, m, k, items

\* The rows of a page by their ranks.
LEMMA PageRanks ==
  ASSUME ListShape, Determined, NEW items \in Pages
  PROVE  /\ \A k \in 1 .. Len(items) :
                /\ items[k] \in Selected(table)
                /\ Rank(items[k]) = Offset + k - 1
         /\ \A r \in Selected(table) :
                Rank(r) >= Offset /\ (Rank(r) < Offset + params.limit \/ Len(items) < params.limit)
                   => \E k \in 1 .. Len(items) : items[k] = r
         /\ \A r, s \in Selected(table) : Rank(r) =< Rank(s) => Before(r, s)
  <1>. DEFINE sel == Selected(table)
              n == Cardinality(sel)
              m == Offset
              l == params.limit
  <1>1. PICK order \in Orders(sel) : items = PageOf(order)
    BY DEF Pages
  <1>2. /\ n \in Nat
        /\ \A i \in 1 .. n : order[i] \in sel
        /\ \A r \in sel : \E i \in 1 .. n : order[i] = r
        /\ \A i, j \in 1 .. n : j =< i => Before(order[j], order[i])
    BY SelectedIsFinite, OrderFacts
  <1>3. m \in Nat /\ l \in Nat \ {0}
    BY OffsetType
  <1>4. \A i \in 1 .. n : Rank(order[i]) = i - 1
    BY RankInOrder
  <1>5. /\ Len(items) \in 0 .. l
        /\ \A k \in 1 .. Len(items) : m + k \in 1 .. n /\ items[k] = order[m + k]
        /\ \A i \in 1 .. n : i > m /\ i =< m + l => i - m \in 1 .. Len(items)
        /\ Len(items) < l => n < m + l
    <2>1. sel \in SUBSET Rows /\ IsFiniteSet(sel)
      BY SelectedIsFinite DEF ListShape
    <2>. QED
      BY <1>1, <2>1, PageOfOrder
  <1>. HIDE DEF sel, n, m, l
  <1>6. ASSUME NEW k \in 1 .. Len(items) PROVE items[k] \in sel /\ Rank(items[k]) = m + k - 1
    <2>1. m + k \in 1 .. n /\ items[k] = order[m + k]
      BY <1>5
    <2>. DEFINE i == m + k
    <2>2. i \in 1 .. n /\ items[k] = order[i]
      BY <2>1
    <2>. HIDE DEF i
    <2>3. Rank(order[i]) = i - 1 /\ order[i] \in sel
      BY <1>2, <1>4, <2>2
    <2>4. Rank(items[k]) = i - 1 /\ items[k] \in sel
      BY <2>2, <2>3
    <2>. QED
      BY <1>3, <2>4 DEF i
  <1>7. ASSUME NEW r \in sel, Rank(r) >= m, Rank(r) < m + l \/ Len(items) < l
        PROVE  \E k \in 1 .. Len(items) : items[k] = r
    <2>1. PICK i \in 1 .. n : order[i] = r
      BY <1>2
    <2>2. Rank(r) = i - 1
      BY <1>4, <2>1
    <2>3. i > m /\ i =< m + l
      BY <1>2, <1>3, <1>5, <1>7, <2>2
    <2>4. i - m \in 1 .. Len(items) /\ m + (i - m) = i
      BY <1>2, <1>3, <1>5, <2>3
    <2>5. items[i - m] = r
      BY <1>5, <2>1, <2>4
    <2>. QED
      BY <2>4, <2>5
  <1>8. ASSUME NEW r \in sel, NEW s \in sel, Rank(r) =< Rank(s) PROVE Before(r, s)
    <2>1. PICK i \in 1 .. n : order[i] = r
      BY <1>2
    <2>2. PICK j \in 1 .. n : order[j] = s
      BY <1>2
    <2>3. i =< j
      BY <1>2, <1>4, <1>8, <2>1, <2>2
    <2>. QED
      BY <1>2, <2>1, <2>2, <2>3
  <1>. QED
    BY <1>6, <1>7, <1>8 DEF sel, m, l

(***************************************************************************)
(* The steps                                                               *)
(***************************************************************************)

LEMMA InitInv == Init => Inv
  <1>. SUFFICES ASSUME Init PROVE Inv
    OBVIOUS
  <1>1. /\ column \in Contents /\ table \subseteq Rows /\ IsFiniteSet(table) /\ gone = {}
        /\ params \in Params /\ page = 1 /\ phase = "count" /\ got = <<>> /\ start = table
        /\ ~deleted /\ ~inserted
    BY DEF Init
  <1>2. ListShape
    BY <1>1 DEF ListShape
  <1>3. Received = {} /\ DOMAIN got = {}
    BY <1>1 DEF Received, ToSet
  <1>4. Histories
    BY <1>1, <1>3 DEF Histories
  <1>5. Offset = 0
    BY <1>1, <1>2, OffsetType DEF Offset
  <1>6. NoneMissed
    BY <1>1, <1>2, <1>5, RankType DEF NoneMissed
  <1>7. NoneTwice
    BY <1>3 DEF NoneTwice, IsInjective
  <1>8. Undisturbed
    BY <1>1, <1>3 DEF Undisturbed, InOrder
  <1>. QED
    BY <1>2, <1>4, <1>6, <1>7, <1>8 DEF Inv

\* What the walk does with the table unchanged leaves the ranks alone.
LEMMA SameTable ==
  ASSUME UNCHANGED <<column, table, gone, params>>
  PROVE  /\ Determined' <=> Determined
         /\ Selected(table)' = Selected(table)
         /\ Selected(table \cup gone)' = Selected(table \cup gone)
         /\ start' = start => Selected(start)' = Selected(start)
         /\ \A r : Rank(r)' = Rank(r)
         /\ \A r, s : Before(r, s)' = Before(r, s)
  <1>1. \A r, s : Before(r, s)' = Before(r, s)
    BY DEF Before
  <1>2. /\ Selected(table)' = Selected(table)
        /\ Selected(table \cup gone)' = Selected(table \cup gone)
        /\ start' = start => Selected(start)' = Selected(start)
    BY DEF Selected, Searched, Filtered
  <1>3. \A r : Rank(r)' = Rank(r)
    BY <1>1, <1>2 DEF Rank, Preceding
  <1>. QED
    BY <1>1, <1>2, <1>3 DEF Determined

LEMMA StutterInv == Inv /\ UNCHANGED vars => Inv'
  <1>. SUFFICES ASSUME Inv, UNCHANGED vars PROVE Inv'
    OBVIOUS
  <1>1. /\ column' = column /\ table' = table /\ gone' = gone /\ params' = params /\ page' = page
        /\ phase' = phase /\ count' = count /\ got' = got /\ start' = start
        /\ inserted' = inserted /\ deleted' = deleted
        /\ Received' = Received /\ Offset' = Offset
    BY DEF vars, Received, Offset
  <1>2. ListShape' /\ Histories'
    BY <1>1, SameTable DEF Inv, ListShape, Histories
  <1>3. NoneMissed' /\ NoneTwice' /\ Undisturbed'
    BY <1>1, SameTable DEF Inv, NoneMissed, NoneTwice, Undisturbed, InOrder
  <1>. QED
    BY <1>2, <1>3 DEF Inv

LEMMA CountInv ==
  ASSUME Inv, Count
  PROVE  Inv'
  <1>1. /\ column' = column /\ table' = table /\ gone' = gone /\ params' = params /\ page' = page
        /\ phase = "count" /\ phase' = "select" /\ count' = Cardinality(Selected(table))
        /\ got' = got /\ start' = start /\ inserted' = inserted /\ deleted' = deleted
        /\ Received' = Received /\ Offset' = Offset
    BY DEF Count, Received, Offset
  <1>2. ListShape' /\ Histories'
    BY <1>1, SameTable DEF Inv, ListShape, Histories
  <1>3. NoneMissed' /\ NoneTwice'
    BY <1>1, SameTable DEF Inv, NoneMissed, NoneTwice
  <1>4. Undisturbed'
    BY <1>1, SameTable DEF Inv, Undisturbed, InOrder
  <1>. QED
    BY <1>2, <1>3, <1>4 DEF Inv

LEMMA SelectInv ==
  ASSUME Inv, Select
  PROVE  Inv'
  <1>1. PICK items \in Pages :
            /\ got' = got \o items
            /\ phase' = IF Len(items) < params.limit THEN "over" ELSE "count"
    BY DEF Select
  <1>2. /\ column' = column /\ table' = table /\ gone' = gone /\ params' = params
        /\ page' = page + 1 /\ phase = "select" /\ count' = count /\ start' = start
        /\ inserted' = inserted /\ deleted' = deleted
    BY DEF Select
  <1>. DEFINE sel == Selected(table)
              n == Len(got)
              l == Len(items)
              m == Offset
              limit == params.limit
  <1>3. /\ ListShape /\ Histories /\ NoneMissed /\ NoneTwice /\ Undisturbed
        /\ page \in Nat \ {0} /\ got \in Seq(Rows) /\ n \in Nat /\ DOMAIN got = 1 .. n
        /\ sel \subseteq table
    BY SelectedIsFinite, LenProperties DEF Inv, ListShape
  <1>4. m \in Nat /\ limit \in Nat \ {0} /\ Offset' = m + limit
    <2>1. Offset' = page * limit /\ m = (page - 1) * limit
      BY <1>2, <1>3 DEF Offset
    <2>2. m \in Nat /\ limit \in Nat \ {0}
      BY <1>3, OffsetType
    <2>. QED
      BY <1>3, <2>1, <2>2
  <1>5. /\ items \in Seq(Rows) /\ l \in 0 .. limit /\ \A k \in 1 .. l : items[k] \in sel
    <2>1. PICK order \in Orders(sel) : items = PageOf(order)
      BY DEF Pages
    <2>2. sel \in SUBSET Rows /\ IsFiniteSet(sel)
      BY <1>3, SelectedIsFinite DEF ListShape
    <2>3. /\ items \in Seq(Rows) /\ l \in 0 .. limit
          /\ \A k \in 1 .. l : m + k \in 1 .. Cardinality(sel) /\ items[k] = order[m + k]
      BY <1>3, <2>1, <2>2, PageOfOrder
    <2>4. \A i \in 1 .. Cardinality(sel) : order[i] \in sel
      BY <2>2, OrderFacts
    <2>. QED
      BY <2>3, <2>4
  <1>6. /\ got' \in Seq(Rows) /\ DOMAIN got' = 1 .. n + l
        /\ \A i \in 1 .. n : got'[i] = got[i] /\ i \in 1 .. n + l
        /\ \A k \in 1 .. l : got'[n + k] = items[k] /\ n + k \in 1 .. n + l
        /\ \A i \in 1 .. n + l : i \in 1 .. n \/ i - n \in 1 .. l
    <2>1. /\ got' \in Seq(Rows) /\ Len(got') = n + l
          /\ \A i \in 1 .. n + l : got'[i] = IF i =< n THEN got[i] ELSE items[i - n]
      BY <1>1, <1>3, <1>5, ConcatProperties
    <2>2. DOMAIN got' = 1 .. n + l
      BY <2>1, LenProperties
    <2>. HIDE DEF n, l, limit
    <2>3. \A k \in 1 .. l : n + k \in 1 .. n + l /\ ~(n + k =< n) /\ n + k - n = k
      BY <1>3, <1>4, <1>5
    <2>4. \A i \in 1 .. n : i \in 1 .. n + l /\ i =< n
      BY <1>3, <1>4, <1>5
    <2>5. \A i \in 1 .. n + l : i \in 1 .. n \/ i - n \in 1 .. l
      BY <1>3, <1>4, <1>5
    <2>6. \A i \in 1 .. n : got'[i] = got[i]
      BY <2>1, <2>4
    <2>7. \A k \in 1 .. l : got'[n + k] = items[k]
      BY <1>3, <1>4, <1>5, <2>1, <2>3
    <2>. QED
      BY <2>1, <2>2, <2>3, <2>4, <2>5, <2>6, <2>7
  <1>7. Received' = Received \cup {items[k] : k \in 1 .. l}
    <2>1. Received = {got[i] : i \in 1 .. n}
      BY <1>3 DEF Received, ToSet
    <2>2. Received' = {got'[i] : i \in 1 .. n + l}
      BY <1>6 DEF Received, ToSet
    <2>. HIDE DEF n, l
    <2>3. ASSUME NEW r \in Received' PROVE r \in Received \cup {items[k] : k \in 1 .. l}
      <3>1. PICK i \in 1 .. n + l : r = got'[i]
        BY <2>2
      <3>2. CASE i \in 1 .. n
        BY <1>6, <2>1, <3>1, <3>2
      <3>3. CASE i - n \in 1 .. l
        <4>1. n + (i - n) = i
          BY <1>3, <3>1
        <4>. QED
          BY <1>6, <3>1, <3>3, <4>1
      <3>. QED
        BY <1>6, <3>2, <3>3
    <2>4. ASSUME NEW r \in Received \cup {items[k] : k \in 1 .. l} PROVE r \in Received'
      BY <1>6, <2>1, <2>2
    <2>. QED
      BY <2>3, <2>4
  <1>8. ListShape'
    BY <1>1, <1>2, <1>3, <1>6 DEF ListShape
  <1>9. Histories'
    <2>1. sel \subseteq Selected(table \cup gone)
      BY SelectedIsFilter
    <2>2. Received' \subseteq Selected(table \cup gone)
      BY <1>3, <1>5, <1>7, <2>1 DEF Histories
    <2>. QED
      BY <1>2, <1>3, <2>2, SameTable DEF Histories
  <1>. HIDE DEF n, l, m, limit, sel
  <1>10. ASSUME Determined
         PROVE  /\ \A k \in 1 .. l : items[k] \in sel /\ Rank(items[k]) = m + k - 1
                /\ \A r \in sel :
                       Rank(r) >= m /\ (Rank(r) < m + limit \/ l < limit)
                          => \E k \in 1 .. l : items[k] = r
                /\ \A r, s \in sel : Rank(r) =< Rank(s) => Before(r, s)
    BY <1>3, <1>10, PageRanks DEF l, m, limit, sel
  <1>11. \A r : Rank(r) \in Nat /\ Rank(r)' = Rank(r)
    BY <1>2, <1>3, RankType, SameTable
  <1>12. NoneMissed'
    <2>. SUFFICES ASSUME Determined, ~deleted, NEW r \in Selected(start), r \notin Received'
         PROVE  phase' # "over" /\ Rank(r)' >= Offset'
      BY <1>2, SameTable DEF NoneMissed
    <2>1. r \in sel
      BY <1>3, SelectedIsFilter DEF Histories, sel
    <2>2. Rank(r) >= m
      BY <1>3, <1>7 DEF NoneMissed, m
    <2>3. ~(Rank(r) < m + limit \/ l < limit)
      BY <1>7, <1>10, <2>1, <2>2
    <2>4. phase' # "over"
      BY <1>1, <2>3 DEF l, limit
    <2>. QED
      BY <1>4, <1>11, <2>3, <2>4
  <1>13. ASSUME Determined, ~inserted
         PROVE  /\ \A i, j \in 1 .. n : got[i] = got[j] => i = j
                /\ \A r \in Received \cap table : Rank(r) < m
                /\ \A k \in 1 .. l : items[k] \notin Received
    <2>1. /\ \A i, j \in 1 .. n : got[i] = got[j] => i = j
          /\ \A r \in Received \cap table : Rank(r) < m
      BY <1>3, <1>13 DEF NoneTwice, IsInjective, n, m
    <2>2. ASSUME NEW k \in 1 .. l PROVE items[k] \notin Received
      <3>1. items[k] \in table /\ Rank(items[k]) >= m
        BY <1>3, <1>4, <1>10, <1>13
      <3>. QED
        BY <1>4, <1>11, <2>1, <3>1
    <2>. QED
      BY <2>1, <2>2
  <1>14. NoneTwice'
    <2>. SUFFICES ASSUME Determined, ~inserted
         PROVE  /\ IsInjective(got')
                /\ \A r \in Received' \cap table : Rank(r) < m + limit
      BY <1>2, <1>4, <1>11, SameTable DEF NoneTwice
    <2>1. ASSUME NEW i \in 1 .. n + l, NEW j \in 1 .. n + l, got'[i] = got'[j] PROVE i = j
      <3>1. \A p \in 1 .. n : got[p] \in Received
        BY <1>3 DEF Received, ToSet, n
      <3>2. CASE i \in 1 .. n /\ j \in 1 .. n
        BY <1>6, <1>13, <2>1, <3>2
      <3>3. ASSUME NEW p \in 1 .. n + l, NEW q \in 1 .. n + l, p \in 1 .. n, q - n \in 1 .. l
            PROVE  got'[p] # got'[q]
        <4>1. n + (q - n) = q
          BY <1>3, <3>3
        <4>2. got'[q] = items[q - n] /\ got'[p] = got[p]
          BY <1>6, <3>3, <4>1
        <4>. QED
          BY <1>13, <3>1, <3>3, <4>2
      <3>4. CASE i - n \in 1 .. l /\ j - n \in 1 .. l
        <4>1. n + (i - n) = i /\ n + (j - n) = j
          BY <1>3, <3>4
        <4>2. items[i - n] = items[j - n]
          BY <1>6, <2>1, <3>4, <4>1
        <4>3. m + (i - n) - 1 = m + (j - n) - 1
          BY <1>10, <3>4, <4>2
        <4>. QED
          BY <1>3, <1>4, <3>4, <4>3
      <3>. QED
        BY <1>6, <2>1, <3>2, <3>3, <3>4
    <2>2. IsInjective(got')
      BY <1>6, <2>1 DEF IsInjective
    <2>3. ASSUME NEW r \in Received' \cap table PROVE Rank(r) < m + limit
      <3>1. CASE r \in Received
        BY <1>4, <1>11, <1>13, <2>3, <3>1
      <3>2. CASE r \notin Received
        <4>1. PICK k \in 1 .. l : r = items[k]
          BY <1>7, <3>2
        <4>. QED
          BY <1>4, <1>5, <1>10, <4>1
      <3>. QED
        BY <3>1, <3>2
    <2>. QED
      BY <2>2, <2>3
  <1>15. Undisturbed'
    <2>. SUFFICES ASSUME Determined, ~inserted, ~deleted
         PROVE  InOrder' /\ count = Cardinality(sel)
      BY <1>2, SameTable DEF Undisturbed, sel
    <2>1. count = Cardinality(sel) /\ InOrder
      BY <1>2, <1>3 DEF Undisturbed, sel
    <2>2. \A i \in 1 .. n : got[i] \in sel /\ Rank(got[i]) < m
      <3>1. \A i \in 1 .. n : got[i] \in Received
        BY <1>3 DEF Received, ToSet, n
      <3>2. gone = {} /\ Received \subseteq sel
        <4>1. gone = {} /\ Received \subseteq Selected(table \cup gone)
          BY <1>3 DEF Histories
        <4>2. table \cup gone = table
          BY <4>1
        <4>. QED
          BY <4>1, <4>2 DEF sel
      <3>. QED
        BY <1>3, <1>13, <3>1, <3>2
    <2>3. ASSUME NEW i \in 1 .. n + l, NEW j \in 1 .. i PROVE Before(got'[j], got'[i])
      <3>1. i \in Int /\ j \in 1 .. n + l
        BY <1>3, <1>5
      <3>2. CASE i \in 1 .. n
        <4>1. j \in 1 .. n /\ i \in DOMAIN got
          BY <1>3, <3>2 DEF n
        <4>2. Before(got[j], got[i])
          BY <2>1, <4>1 DEF InOrder
        <4>. QED
          BY <1>6, <3>2, <4>1, <4>2
      <3>3. CASE i - n \in 1 .. l
        <4>1. n + (i - n) = i
          BY <1>3, <3>1
        <4>2. got'[i] = items[i - n]
          BY <1>6, <3>3, <4>1
        <4>3. got'[i] \in sel /\ Rank(got'[i]) = m + (i - n) - 1
          BY <1>10, <3>3, <4>2
        <4>4. CASE j \in 1 .. n
          <5>1. got'[j] = got[j] /\ got[j] \in sel /\ Rank(got[j]) < m
            BY <1>6, <2>2, <4>4
          <5>2. Rank(got'[j]) =< Rank(got'[i])
            BY <1>3, <1>4, <1>11, <3>3, <4>3, <5>1
          <5>. QED
            BY <1>10, <4>3, <5>1, <5>2
        <4>5. CASE j - n \in 1 .. l
          <5>1. n + (j - n) = j
            BY <1>3, <3>1
          <5>2. got'[j] = items[j - n]
            BY <1>6, <4>5, <5>1
          <5>3. got'[j] \in sel /\ Rank(got'[j]) = m + (j - n) - 1
            BY <1>10, <4>5, <5>2
          <5>4. Rank(got'[j]) =< Rank(got'[i])
            BY <1>3, <1>4, <3>1, <4>3, <5>3
          <5>. QED
            BY <1>10, <4>3, <5>3, <5>4
        <4>. QED
          BY <1>6, <3>1, <4>4, <4>5
      <3>. QED
        BY <1>6, <3>2, <3>3
    <2>4. InOrder'
      BY <1>2, <1>6, <2>3, SameTable DEF InOrder
    <2>. QED
      BY <2>1, <2>4
  <1>. QED
    BY <1>8, <1>9, <1>12, <1>14, <1>15 DEF Inv

Chosen(r) ==
    /\ Given(params.filter) => column[r].state \in params.filter
    /\ Given(params.search) => column[r].name \in params.search

\* Rows that come or go leave the selection and the order of the others alone.
LEMMA SameOthers ==
  ASSUME UNCHANGED <<column, params>>
  PROVE  /\ Selected(table) = {r \in table : Chosen(r)}
         /\ Selected(table)' = {r \in table' : Chosen(r)}
         /\ Selected(table \cup gone) = {r \in table \cup gone : Chosen(r)}
         /\ Selected(table \cup gone)' = {r \in table' \cup gone' : Chosen(r)}
         /\ start' = start => Selected(start)' = Selected(start)
         /\ \A r, s : Before(r, s)' = Before(r, s)
  <1>1. \A r, s : Before(r, s)' = Before(r, s)
    BY DEF Before
  <1>2. \A r : Chosen(r)' <=> Chosen(r)
    BY DEF Chosen
  <1>3. \A rows : Selected(rows) = {r \in rows : Chosen(r)}
    BY DEF Selected, Searched, Filtered, Chosen
  <1>4. /\ Selected(table)' = {r \in table' : Chosen(r)'}
        /\ Selected(table \cup gone)' = {r \in table' \cup gone' : Chosen(r)'}
        /\ Selected(start)' = {r \in start' : Chosen(r)'}
    BY DEF Selected, Searched, Filtered, Chosen
  <1>. QED
    BY <1>1, <1>2, <1>3, <1>4

LEMMA InsertInv ==
  ASSUME Inv, NEW r \in Rows, Insert(r)
  PROVE  Inv'
  <1>1. /\ table' = table \cup {r} /\ inserted' = TRUE /\ column' = column /\ gone' = gone
        /\ params' = params /\ page' = page /\ phase' = phase /\ count' = count /\ got' = got
        /\ start' = start /\ deleted' = deleted /\ Received' = Received /\ Offset' = Offset
    BY DEF Insert, Received, Offset
  <1>2. ListShape'
    BY <1>1, FS_AddElement DEF Inv, ListShape
  <1>3. Histories'
    <2>1. Selected(table \cup gone) \subseteq Selected(table \cup gone)'
      BY <1>1, SameOthers
    <2>. QED
      BY <1>1, <2>1 DEF Inv, Histories
  <1>4. ASSUME Determined', NEW s PROVE Determined /\ Rank(s) \in Nat /\ Rank(s)' \in Nat /\ Rank(s) =< Rank(s)'
    <2>1. Determined
      BY <1>1, <1>4 DEF Determined
    <2>2. Preceding(s) \subseteq Preceding(s)'
      BY <1>1, SameOthers DEF Preceding
    <2>3. IsFiniteSet(Preceding(s)) /\ Rank(s) \in Nat
      BY RankType DEF Inv
    <2>4. IsFiniteSet(Preceding(s)') /\ Rank(s)' \in Nat
      BY <1>2, RankTypeNext
    <2>5. Rank(s) =< Rank(s)'
      BY <2>2, <2>4, FS_Subset DEF Rank
    <2>. QED
      BY <2>1, <2>3, <2>4, <2>5
  <1>5. NoneMissed'
    <2>. SUFFICES ASSUME Determined', ~deleted, NEW s \in Selected(start), s \notin Received
         PROVE  phase # "over" /\ Rank(s)' >= Offset
      BY <1>1, SameOthers DEF NoneMissed
    <2>1. phase # "over" /\ Rank(s) >= Offset
      BY <1>4 DEF Inv, NoneMissed
    <2>2. Offset \in Nat
      BY OffsetType DEF Inv
    <2>. QED
      BY <1>4, <2>1, <2>2
  <1>6. NoneTwice' /\ Undisturbed'
    BY <1>1 DEF NoneTwice, Undisturbed
  <1>. QED
    BY <1>2, <1>3, <1>5, <1>6 DEF Inv

LEMMA DeleteInv ==
  ASSUME Inv, NEW r \in Rows, Delete(r)
  PROVE  Inv'
  <1>1. /\ r \in table /\ table' = table \ {r} /\ gone' = gone \cup {r} /\ deleted' = TRUE
        /\ column' = column /\ params' = params /\ page' = page /\ phase' = phase
        /\ count' = count /\ got' = got /\ start' = start /\ inserted' = inserted
        /\ Received' = Received /\ Offset' = Offset
    BY DEF Delete, Received, Offset
  <1>2. ListShape'
    BY <1>1, FS_RemoveElement DEF Inv, ListShape
  <1>3. (table \cup gone)' = table \cup gone
    BY <1>1
  <1>4. Histories'
    <2>1. Selected(table \cup gone) \subseteq Selected(table \cup gone)'
      BY <1>1, <1>3, SameOthers
    <2>. QED
      BY <1>1, <2>1 DEF Inv, Histories
  <1>5. NoneMissed' /\ Undisturbed'
    BY <1>1 DEF NoneMissed, Undisturbed
  <1>6. NoneTwice'
    <2>. SUFFICES ASSUME Determined', ~inserted
         PROVE  IsInjective(got) /\ \A s \in Received \cap table' : Rank(s)' < Offset
      BY <1>1 DEF NoneTwice
    <2>1. Determined
      BY <1>1, <1>3 DEF Determined
    <2>2. IsInjective(got) /\ \A s \in Received \cap table : Rank(s) < Offset
      BY <2>1 DEF Inv, NoneTwice
    <2>3. ASSUME NEW s \in Received \cap table' PROVE Rank(s)' < Offset
      <3>1. Preceding(s)' \subseteq Preceding(s)
        BY <1>1, SameOthers DEF Preceding
      <3>2. IsFiniteSet(Preceding(s)) /\ Rank(s) \in Nat
        BY RankType DEF Inv
      <3>3. Rank(s)' \in Nat
        BY <1>2, RankTypeNext
      <3>4. Rank(s)' =< Rank(s)
        BY <3>1, <3>2, FS_Subset DEF Rank
      <3>5. Rank(s) < Offset /\ Offset \in Nat
        BY <1>1, <2>2, <2>3, OffsetType DEF Inv
      <3>. QED
        BY <3>2, <3>3, <3>4, <3>5
    <2>. QED
      BY <2>2, <2>3
  <1>. QED
    BY <1>2, <1>4, <1>5, <1>6 DEF Inv

LEMMA NextInv == Inv /\ [Next]_vars => Inv'
  BY StutterInv, CountInv, SelectInv, InsertInv, DeleteInv DEF Next

LEMMA InvHolds == Spec => []Inv
  BY InitInv, NextInv, PTL DEF Spec

(***************************************************************************)
(* The theorems                                                            *)
(***************************************************************************)

\* While the table does not change, the pages partition the selected rows, in order, and there are
\* as many as the count says (query_params.py:68-70, filter_set.py:49-64).
THEOREM PagesPartitionRows == Spec => []PagesPartition
  <1>1. Inv => PagesPartition
    <2>. SUFFICES ASSUME Inv, WalkedInOrder, ~inserted, ~deleted
         PROVE  got \in Orders(Selected(table)) /\ count = Len(got)
      BY DEF PagesPartition
    <2>. DEFINE sel == Selected(table)
                n == Len(got)
    <2>1. Determined /\ phase = "over"
      BY DEF WalkedInOrder, Determined
    <2>2. table = start /\ gone = {} /\ Received \subseteq sel
      <3>1. gone = {} /\ table = start /\ Received \subseteq Selected(table \cup gone)
        BY DEF Inv, Histories
      <3>2. table \cup gone = table
        BY <3>1
      <3>. QED
        BY <3>1, <3>2
    <2>3. sel \subseteq Received
      BY <2>1, <2>2 DEF Inv, NoneMissed
    <2>4. /\ n \in Nat /\ DOMAIN got = 1 .. n /\ IsInjective(got) /\ InOrder
          /\ count = Cardinality(sel)
          /\ got \in [1 .. n -> Rows]
      BY <2>1, LenProperties DEF Inv, ListShape, NoneTwice, Undisturbed
    <2>. HIDE DEF n, sel
    <2>5. Received = {got[i] : i \in 1 .. n}
      BY <2>4 DEF Received, ToSet
    <2>6. got \in [1 .. n -> sel]
      BY <2>2, <2>4, <2>5
    <2>7. got \in Bijection(1 .. n, sel)
      <3>1. \A r \in sel : \E i \in 1 .. n : got[i] = r
        BY <2>3, <2>5
      <3>. QED
        BY <2>4, <2>6, <3>1 DEF Bijection, Injection, Surjection
    <2>8. Cardinality(sel) = n
      <3>1. ExistsBijection(1 .. n, sel)
        BY <2>7 DEF ExistsBijection
      <3>. QED
        BY <2>4, <3>1, FS_CountingElements
    <2>9. \A i, j \in 1 .. n : i # j => got[i] # got[j]
      BY <2>4 DEF IsInjective
    <2>10. got \in Orders(sel)
      BY <2>4, <2>6, <2>8, <2>9 DEF Orders, SetToSeqs, InOrder
    <2>. QED
      BY <2>4, <2>8, <2>10 DEF n, sel
  <1>. QED
    BY <1>1, InvHolds, PTL

\* A row that was there all along is delivered, whatever comes in (filter_set.py:49-50).
THEOREM NoneHiddenByInserts == Spec => []InsertsHideNothing
  <1>1. Inv => InsertsHideNothing
    BY DEF Inv, NoneMissed, InsertsHideNothing, WalkedInOrder, Determined
  <1>. QED
    BY <1>1, InvHolds, PTL

\* No row is delivered twice, whatever goes (filter_set.py:49-50).
THEOREM NoneRepeatedByDeletes == Spec => []DeletesRepeatNothing
  <1>1. Inv => DeletesRepeatNothing
    BY DEF Inv, NoneTwice, DeletesRepeatNothing, WalkedInOrder, Determined
  <1>. QED
    BY <1>1, InvHolds, PTL

(***************************************************************************)
(* Type correctness: what the invariant does not say of it already.        *)
(***************************************************************************)

Rest ==
    /\ gone \cap table = {}
    /\ count \in Nat
    /\ start \subseteq Rows
    /\ inserted \in BOOLEAN /\ deleted \in BOOLEAN

LEMMA RestNext == Inv /\ Rest /\ [Next]_vars => Rest'
  <1>. SUFFICES ASSUME Inv, Rest, [Next]_vars PROVE Rest'
    OBVIOUS
  <1>1. CASE Count
    <2>1. Cardinality(Selected(table)) \in Nat
      BY SelectedIsFinite, FS_CardinalityType DEF Inv, ListShape
    <2>. QED
      BY <1>1, <2>1 DEF Count, Rest
  <1>2. CASE Select
    BY <1>2 DEF Select, Rest
  <1>3. ASSUME NEW r \in Rows, Insert(r) \/ Delete(r) PROVE Rest'
    BY <1>3 DEF Insert, Delete, Rest
  <1>4. CASE UNCHANGED vars
    BY <1>4 DEF vars, Rest
  <1>. QED
    BY <1>1, <1>2, <1>3, <1>4 DEF Next

\* Every variable of the table and of the walk keeps its type, and a row that was deleted does not
\* come back (query_params.py:25-70).
THEOREM TypeCorrect == Spec => []TypeOK
  <1>1. Init => Rest
    <2>. SUFFICES ASSUME Init PROVE Rest
      OBVIOUS
    <2>1. /\ table \subseteq Rows /\ start = table /\ gone = {} /\ count = 0
          /\ inserted = FALSE /\ deleted = FALSE
      BY DEF Init
    <2>. QED
      BY <2>1 DEF Rest
  <1>2. Inv /\ Rest => TypeOK
    BY DEF Inv, ListShape, Rest, TypeOK
  <1>. QED
    BY <1>1, <1>2, InitInv, NextInv, RestNext, PTL DEF Spec
==============================================================================
