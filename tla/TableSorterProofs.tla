------------------------- MODULE TableSorterProofs -------------------------
(***************************************************************************)
(* The sortable tables, for pages of any length, any number of columns and *)
(* any sequence of clicks.                                                 *)
(***************************************************************************)
EXTENDS TableSorter, TLAPS, FiniteSetTheorems

-----------------------------------------------------------------------------
(* The sort.                                                               *)

(* Each comparator of table-sorter.js orders the cells by an integer.      *)
LEMMA ComparatorValue ==
  ASSUME NEW f \in Comparators
  PROVE  \E v \in [Cell -> Int] :
           \A a, b \in Cell : /\ lt(f, a, b) \in Int
                              /\ lt(f, a, b) < 0 <=> v[a] < v[b]
                              /\ lt(f, a, b) = 0 <=> v[a] = v[b]
<1>1. CASE f = "sortStr"
  <2>1. [a \in Cell |-> a.text] \in [Cell -> Int]
    BY DEF Cell
  <2> WITNESS [a \in Cell |-> a.text] \in [Cell -> Int]
  <2> QED
    BY <1>1 DEF lt, sortStr, Cell
<1>2. CASE f = "sortInt"
  <2>1. [a \in Cell |-> a.num] \in [Cell -> Int]
    BY DEF Cell
  <2> WITNESS [a \in Cell |-> a.num] \in [Cell -> Int]
  <2> QED
    BY <1>2 DEF lt, sortInt, Cell
<1>3. CASE f = "sortByte"
  <2>1. \A u \in Units : Factor(u) \in Int
    BY DEF Units, Factor, Kilo
  <2>2. \A m, n \in Int : m * n \in Int
    OBVIOUS
  <2>3. \A a \in Cell : parseByteSize(a) \in Int
    BY <2>1, <2>2 DEF parseByteSize, Cell
  <2>4. [a \in Cell |-> parseByteSize(a)] \in [Cell -> Int]
    BY <2>3
  <2> WITNESS [a \in Cell |-> parseByteSize(a)] \in [Cell -> Int]
  <2> QED
    BY <1>3, <2>3 DEF lt, sortByte
<1>4. QED
  BY <1>1, <1>2, <1>3 DEF Comparators

(* The places of rows whose cells have the values w.                       *)
Ranks(w) ==
  [i \in DOMAIN w |-> Cardinality({j \in DOMAIN w : w[j] < w[i] \/ (w[j] = w[i] /\ j <= i)})]

(* A row that goes before another one has a smaller place, and each place  *)
(* from the first to the last is taken by one row.                         *)
LEMMA Places ==
  ASSUME NEW n \in Nat, NEW w \in [1..n -> Int]
  PROVE  /\ Ranks(w) \in Bijection(1..n, 1..n)
         /\ \A i, j \in 1..n :
              Ranks(w)[i] < Ranks(w)[j] <=> w[i] < w[j] \/ (w[i] = w[j] /\ i < j)
<1> DEFINE Upto(i) == {j \in 1..n : w[j] < w[i] \/ (w[j] = w[i] /\ j <= i)}
<1>1. IsFiniteSet(1..n) /\ Cardinality(1..n) = n
  BY FS_Interval
<1>2. ASSUME NEW i \in 1..n
      PROVE  IsFiniteSet(Upto(i)) /\ Cardinality(Upto(i)) \in 1..n
  <2>1. Upto(i) \in SUBSET (1..n)
    OBVIOUS
  <2>2. i \in Upto(i)
    OBVIOUS
  <2> HIDE DEF Upto
  <2>3. IsFiniteSet(Upto(i)) /\ Cardinality(Upto(i)) <= n
    BY <1>1, <2>1, FS_Subset
  <2>4. Cardinality(Upto(i)) \in Nat /\ Cardinality(Upto(i)) # 0
    BY <2>2, <2>3, FS_CardinalityType, FS_EmptySet
  <2>5. QED
    BY <2>3, <2>4
<1>3. ASSUME NEW i \in 1..n, NEW j \in 1..n, w[i] < w[j] \/ (w[i] = w[j] /\ i < j)
      PROVE  Cardinality(Upto(i)) < Cardinality(Upto(j))
  <2>1. Upto(i) \in SUBSET Upto(j)
    BY <1>3
  <2>2. j \in Upto(j) /\ j \notin Upto(i)
    BY <1>3
  <2> HIDE DEF Upto
  <2>3. /\ IsFiniteSet(Upto(j))
        /\ Cardinality(Upto(i)) \in Nat /\ Cardinality(Upto(j)) \in Nat
    BY <1>2
  <2>4. Cardinality(Upto(i)) <= Cardinality(Upto(j)) /\ Cardinality(Upto(j)) # Cardinality(Upto(i))
    BY <2>1, <2>2, <2>3, FS_Subset
  <2>5. QED
    BY <2>3, <2>4
<1> DEFINE place == Ranks(w)
<1>4. \A i \in 1..n : place[i] = Cardinality(Upto(i))
  BY DEF Ranks
<1>5. place \in [1..n -> 1..n]
  <2>1. place = [i \in 1..n |-> Cardinality(Upto(i))]
    BY DEF Ranks
  <2> HIDE DEF Upto
  <2>2. QED
    BY <1>2, <2>1
<1> HIDE DEF Upto, place
<1>6. \A i, j \in 1..n : w[i] < w[j] \/ (w[i] = w[j] /\ i < j) => place[i] < place[j]
  BY <1>3, <1>4
<1>7. \A i, j \in 1..n : place[i] < place[j] <=> w[i] < w[j] \/ (w[i] = w[j] /\ i < j)
  <2>1. SUFFICES ASSUME NEW i \in 1..n, NEW j \in 1..n, place[i] < place[j]
                 PROVE  w[i] < w[j] \/ (w[i] = w[j] /\ i < j)
    BY <1>6
  <2>2. ~ (place[j] < place[i]) /\ i # j
    <3>1. place[i] \in Int /\ place[j] \in Int
      BY <1>5
    <3>2. QED
      BY ONLY <2>1, <3>1
  <2>3. ~ (w[j] < w[i]) /\ ~ (w[j] = w[i] /\ j < i)
    BY <1>6, <2>2
  <2>4. QED
    BY <2>2, <2>3
<1>8. place \in Injection(1..n, 1..n)
  <2>1. ASSUME NEW i \in 1..n, NEW j \in 1..n, place[i] = place[j]
        PROVE  i = j
    <3>1. ~ (place[i] < place[j]) /\ ~ (place[j] < place[i])
      BY <1>5, <2>1
    <3>2. ~ (w[i] < w[j]) /\ ~ (w[j] < w[i]) /\ ~ (w[i] = w[j] /\ i < j) /\ ~ (w[j] = w[i] /\ j < i)
      BY <1>7, <3>1
    <3>3. QED
      BY <3>2
  <2>2. QED
    BY <1>5, <2>1 DEF Injection, IsInjective
<1>9. place \in Surjection(1..n, 1..n)
  BY <1>1, <1>8, FS_Injection
<1>10. QED
  BY <1>7, <1>8, <1>9 DEF Bijection, place

(* Array.prototype.sort returns every row once, and row i comes before row *)
(* j exactly if its cell is smaller, or equal and row i was before row j.  *)
LEMMA SortIsStable ==
  ASSUME NEW s \in Seq(Row), NEW c \in Columns, NEW f \in Comparators
  PROVE  /\ \A i \in DOMAIN s : s[i][c] \in Cell
         /\ \E p \in Bijection(DOMAIN s, DOMAIN s) :
              /\ Sort(s, c, f) = [n \in DOMAIN s |-> s[p[n]]]
              /\ \A m, n \in DOMAIN s :
                   m < n => LET d == lt(f, s[p[m]][c], s[p[n]][c])
                            IN  d < 0 \/ (d = 0 /\ p[m] < p[n])
<1>1. PICK v \in [Cell -> Int] :
        \A a, b \in Cell : /\ lt(f, a, b) \in Int
                           /\ lt(f, a, b) < 0 <=> v[a] < v[b]
                           /\ lt(f, a, b) = 0 <=> v[a] = v[b]
  BY ComparatorValue
<1> DEFINE len == Len(s)
           w == [i \in 1..len |-> v[s[i][c]]]
           place == Ranks(w)
           p == [n \in 1..len |-> CHOOSE i \in 1..len : Place(s, c, f, i) = n]
<1>2. len \in Nat /\ DOMAIN s = 1..len
  OBVIOUS
<1>3. \A i \in 1..len : s[i][c] \in Cell
  BY <1>2 DEF Row
<1>4. w \in [1..len -> Int]
  BY <1>3
<1>5. \A i, j \in 1..len :
        LET d == lt(f, s[j][c], s[i][c])
        IN  (d < 0 <=> w[j] < w[i]) /\ (d = 0 <=> w[j] = w[i])
  BY <1>1, <1>3
<1> HIDE DEF len, w
<1>6. /\ place \in Bijection(1..len, 1..len)
      /\ \A i, j \in 1..len : place[i] < place[j] <=> w[i] < w[j] \/ (w[i] = w[j] /\ i < j)
  BY <1>2, <1>4, Places
<1>7. \A i \in 1..len : place[i] = Place(s, c, f, i)
  <2>1. SUFFICES ASSUME NEW i \in 1..len
                 PROVE  {j \in 1..len : w[j] < w[i] \/ (w[j] = w[i] /\ j <= i)}
                          = {j \in 1..len : Before(s, c, f, j, i)}
    BY <1>2, <1>4 DEF Place, Ranks
  <2>2. QED
    BY <1>5 DEF Before
<1> HIDE DEF place
<1>9. \A n \in 1..len : p[n] \in 1..len /\ place[p[n]] = n
  <2>1. SUFFICES ASSUME NEW n \in 1..len
                 PROVE  p[n] \in 1..len /\ place[p[n]] = n
    OBVIOUS
  <2>2. \E i \in 1..len : Place(s, c, f, i) = n
    BY <1>6, <1>7 DEF Bijection, Surjection
  <2>3. p[n] \in 1..len /\ Place(s, c, f, p[n]) = n
    BY <2>2
  <2>4. QED
    BY <1>7, <2>3
<1>10. Sort(s, c, f) = [n \in 1..len |-> s[p[n]]]
  BY <1>2 DEF Sort
<1> HIDE DEF p
<1>11. p \in [1..len -> 1..len]
  BY <1>9 DEF p
<1>12. \A i \in 1..len : place[i] \in 1..len /\ p[place[i]] = i
  BY <1>6, <1>9 DEF Bijection, Injection, IsInjective
<1>13. p \in Bijection(1..len, 1..len)
  <2>1. p \in Injection(1..len, 1..len)
    BY <1>9, <1>11 DEF Injection, IsInjective
  <2>2. p \in Surjection(1..len, 1..len)
    BY <1>11, <1>12 DEF Surjection
  <2>3. QED
    BY <2>1, <2>2 DEF Bijection
<1>14. ASSUME NEW m \in 1..len, NEW n \in 1..len, m < n
       PROVE  LET d == lt(f, s[p[m]][c], s[p[n]][c])
              IN  d < 0 \/ (d = 0 /\ p[m] < p[n])
  <2>1. p[m] \in 1..len /\ p[n] \in 1..len /\ place[p[m]] < place[p[n]]
    BY <1>9, <1>14
  <2>2. w[p[m]] < w[p[n]] \/ (w[p[m]] = w[p[n]] /\ p[m] < p[n])
    BY <1>6, <2>1
  <2>3. QED
    BY <1>5, <2>1, <2>2
<1>15. QED
  BY <1>2, <1>3, <1>10, <1>13, <1>14

(* Rows that are in order stay where they are.                             *)
LEMMA SortOfSorted ==
  ASSUME NEW s \in Seq(Row), NEW c \in Columns, NEW f \in Comparators,
         Ordered(s, c, f, FALSE)
  PROVE  Sort(s, c, f) = s
<1>1. PICK v \in [Cell -> Int] :
        \A a, b \in Cell : /\ lt(f, a, b) \in Int
                           /\ lt(f, a, b) < 0 <=> v[a] < v[b]
                           /\ lt(f, a, b) = 0 <=> v[a] = v[b]
  BY ComparatorValue
<1> DEFINE len == Len(s)
           w == [i \in 1..len |-> v[s[i][c]]]
<1>2. len \in Nat /\ DOMAIN s = 1..len
  OBVIOUS
<1>3. \A i \in 1..len : s[i][c] \in Cell
  BY <1>2 DEF Row
<1>4. w \in [1..len -> Int]
  BY <1>3
<1>5. \A i, j \in 1..len :
        LET d == lt(f, s[j][c], s[i][c])
        IN  d \in Int /\ (d < 0 <=> w[j] < w[i]) /\ (d = 0 <=> w[j] = w[i])
  BY <1>1, <1>3
<1> HIDE DEF len, w
<1>6. \A i, j \in 1..len : i < j => w[i] <= w[j]
  <2>1. SUFFICES ASSUME NEW i \in 1..len, NEW j \in 1..len, i < j
                 PROVE  w[i] <= w[j]
    OBVIOUS
  <2>2. lt(f, s[i][c], s[j][c]) <= 0
    BY <1>2, <2>1 DEF Ordered
  <2>3. w[i] \in Int /\ w[j] \in Int
    BY <1>4
  <2>4. /\ lt(f, s[i][c], s[j][c]) \in Int
        /\ lt(f, s[i][c], s[j][c]) < 0 <=> w[i] < w[j]
        /\ lt(f, s[i][c], s[j][c]) = 0 <=> w[i] = w[j]
    BY ONLY <1>5, i \in 1..len, j \in 1..len, Zenon
  <2>5. QED
    BY ONLY <2>2, <2>3, <2>4
<1>7. ASSUME NEW i \in 1..len
      PROVE  Place(s, c, f, i) = i
  <2>1. ASSUME NEW j \in 1..len
        PROVE  Before(s, c, f, j, i) <=> j <= i
    <3>1. Before(s, c, f, j, i) <=> w[j] < w[i] \/ (w[j] = w[i] /\ j <= i)
      BY <1>5 DEF Before
    <3>2. w[i] \in Int /\ w[j] \in Int /\ (j < i => w[j] <= w[i]) /\ (i < j => w[i] <= w[j])
      BY <1>4, <1>6
    <3>3. QED
      BY <3>1, <3>2
  <2>2. {j \in DOMAIN s : Before(s, c, f, j, i)} = 1..i
    BY <1>2, <2>1
  <2>3. Cardinality(1..i) = i
    BY <1>2, FS_Interval
  <2>4. QED
    BY <2>2, <2>3 DEF Place
<1> DEFINE p == [n \in 1..len |-> CHOOSE i \in 1..len : Place(s, c, f, i) = n]
<1>8. \A n \in 1..len : p[n] = n
  <2>1. SUFFICES ASSUME NEW n \in 1..len
                 PROVE  p[n] = n
    OBVIOUS
  <2>2. \A i \in 1..len : Place(s, c, f, i) = n <=> i = n
    BY <1>7
  <2>3. QED
    BY <2>2
<1>9. Sort(s, c, f) = [n \in 1..len |-> s[p[n]]]
  BY <1>2 DEF Sort
<1> HIDE DEF p
<1>10. QED
  BY <1>2, <1>8, <1>9

-----------------------------------------------------------------------------
(* A click.                                                                *)

(* Two rearrangements of the rows, one after the other.                    *)
LEMMA PermutesTwice ==
  ASSUME NEW S, NEW r \in Seq(S), NEW s \in Seq(S), NEW t \in Seq(S),
         Permutes(t, s), Permutes(s, r)
  PROVE  Permutes(t, r)
<1>1. PICK p \in [DOMAIN t -> DOMAIN s] :
        IsInjective(p) /\ Len(t) = Len(s) /\ t = [i \in DOMAIN t |-> s[p[i]]]
  BY DEF Permutes
<1>2. PICK q \in [DOMAIN s -> DOMAIN r] :
        IsInjective(q) /\ Len(s) = Len(r) /\ s = [i \in DOMAIN s |-> r[q[i]]]
  BY DEF Permutes
<1> DEFINE m == [i \in DOMAIN t |-> q[p[i]]]
<1>3. m \in [DOMAIN t -> DOMAIN r] /\ IsInjective(m)
  BY <1>1, <1>2 DEF IsInjective
<1>4. \A i \in DOMAIN t : t[i] = r[m[i]]
  <2>1. ASSUME NEW i \in DOMAIN t
        PROVE  t[i] = r[m[i]]
    <3>1. p[i] \in DOMAIN s /\ t[i] = s[p[i]]
      BY <1>1
    <3>2. s[p[i]] = r[q[p[i]]]
      BY <1>2, <3>1
    <3>3. QED
      BY <3>1, <3>2
  <2>2. QED
    BY <2>1
<1> HIDE DEF m
<1>5. t = [i \in DOMAIN t |-> r[m[i]]]
  BY <1>4
<1>6. QED
  BY <1>1, <1>2, <1>3, <1>5 DEF Permutes

(* sortTbody2 keeps all rows and orders the column, whichever direction.   *)
LEMMA SortTbody2Orders ==
  ASSUME NEW s \in Seq(Row), NEW c \in Columns, NEW f \in Comparators,
         NEW rev \in BOOLEAN, NEW r, r = sortTbody2(s, c, f, rev)
  PROVE  r \in Seq(Row) /\ Permutes(r, s) /\ Ordered(r, c, f, rev)
<1>1. PICK p \in Bijection(DOMAIN s, DOMAIN s) :
        /\ Sort(s, c, f) = [n \in DOMAIN s |-> s[p[n]]]
        /\ \A m, n \in DOMAIN s :
             m < n => LET d == lt(f, s[p[m]][c], s[p[n]][c])
                      IN  d < 0 \/ (d = 0 /\ p[m] < p[n])
  BY SortIsStable
<1>2. \A i, j \in DOMAIN s :
        /\ lt(f, s[i][c], s[j][c]) \in Int
        /\ lt(f, s[i][c], s[j][c]) <= 0 => lt(f, s[j][c], s[i][c]) >= 0
  <2>1. PICK v \in [Cell -> Int] :
          \A a, b \in Cell : /\ lt(f, a, b) \in Int
                             /\ lt(f, a, b) < 0 <=> v[a] < v[b]
                             /\ lt(f, a, b) = 0 <=> v[a] = v[b]
    BY ComparatorValue
  <2>2. \A a, b \in Cell : /\ lt(f, a, b) \in Int
                           /\ lt(f, a, b) <= 0 => lt(f, b, a) >= 0
    BY <2>1
  <2>3. \A i \in DOMAIN s : s[i][c] \in Cell
    BY DEF Row
  <2>4. QED
    BY <2>2, <2>3
<1> DEFINE len == Len(s)
<1>3. len \in Nat /\ DOMAIN s = 1..len
  OBVIOUS
<1> HIDE DEF len
<1>4. p \in [1..len -> 1..len] /\ IsInjective(p)
  BY <1>1, <1>3 DEF Bijection, Injection
<1>5. \A m, n \in 1..len : m < n => lt(f, s[p[m]][c], s[p[n]][c]) <= 0
  <2>1. SUFFICES ASSUME NEW m \in 1..len, NEW n \in 1..len, m < n
                 PROVE  lt(f, s[p[m]][c], s[p[n]][c]) <= 0
    OBVIOUS
  <2>2. lt(f, s[p[m]][c], s[p[n]][c]) \in Int
    BY <1>2, <1>3, <1>4
  <2>3. lt(f, s[p[m]][c], s[p[n]][c]) < 0 \/ lt(f, s[p[m]][c], s[p[n]][c]) = 0
    BY <1>1, <1>3, <2>1
  <2>4. QED
    BY ONLY <2>2, <2>3
<1> DEFINE q == [i \in 1..len |-> len - i + 1]
           sorted == Sort(s, c, f)
<1>6. sorted = [n \in 1..len |-> s[p[n]]]
  BY <1>1, <1>3
<1>7. \A n \in 1..len : sorted[n] \in Row
  BY <1>3, <1>4, <1>6
<1> HIDE DEF sorted
<1>8. sorted \in Seq(Row) /\ Len(sorted) = len
  BY <1>3, <1>6, <1>7
<1>9. CASE rev = FALSE
  <2>1. r = sorted
    BY <1>9 DEF sortTbody2, sorted
  <2>2. Permutes(r, s)
    BY <1>3, <1>4, <1>6, <1>8, <2>1 DEF Permutes, len
  <2>3. Ordered(r, c, f, rev)
    BY <1>3, <1>5, <1>6, <1>9, <2>1 DEF Ordered
  <2>4. QED
    BY <1>8, <2>1, <2>2, <2>3
<1>10. CASE rev = TRUE
  <2>1. r = [i \in 1..len |-> sorted[q[i]]] /\ q \in [1..len -> 1..len]
    BY <1>3, <1>8, <1>10 DEF sortTbody2, sorted, Reverse
  <2>2. r \in Seq(Row) /\ Len(r) = len /\ DOMAIN r = 1..len
    BY <1>3, <1>7, <2>1
  <2>3. r = [i \in 1..len |-> s[p[q[i]]]]
    BY <1>3, <1>4, <1>6, <2>1
  <2>4. \A i, j \in 1..len : i < j => q[j] < q[i]
    BY <1>3
  <2>5. \A i, j \in 1..len : q[i] = q[j] => i = j
    BY <1>3
  <2> HIDE DEF q
  <2>6. Permutes(r, s)
    <3> DEFINE m == [i \in 1..len |-> p[q[i]]]
    <3>1. m \in [1..len -> 1..len] /\ IsInjective(m)
      BY <1>4, <2>1, <2>5 DEF IsInjective
    <3>2. r = [i \in 1..len |-> s[m[i]]]
      BY <2>3
    <3> HIDE DEF m
    <3>3. QED
      BY <1>3, <2>2, <3>1, <3>2 DEF Permutes, len
  <2>7. Ordered(r, c, f, rev)
    <3>1. SUFFICES ASSUME NEW i \in 1..len, NEW j \in 1..len, i < j
                   PROVE  lt(f, r[i][c], r[j][c]) >= 0
      BY <1>10, <2>2 DEF Ordered
    <3>2. lt(f, s[p[q[j]]][c], s[p[q[i]]][c]) <= 0
      BY <1>5, <2>1, <2>4, <3>1
    <3>3. lt(f, s[p[q[i]]][c], s[p[q[j]]][c]) >= 0
      BY <1>2, <1>3, <1>4, <2>1, <3>2
    <3>4. QED
      BY <2>3, <3>3
  <2>8. QED
    BY <2>2, <2>6, <2>7
<1>11. QED
  BY <1>9, <1>10

-----------------------------------------------------------------------------
(* The table, click after click.                                           *)

(* What holds after each click: the types, and that the table shows the    *)
(* page in the order it remembers.                                         *)
TableInv ==
  /\ page \in Pages
  /\ rows \in Seq(Row)
  /\ col \in Columns \cup {Undefined}
  /\ reverse \in BOOLEAN
  /\ ShownAsRemembered

(* The header of a column names a comparator, and no column is Undefined.  *)
LEMMA ColumnFacts ==
  ASSUME NEW c \in Columns
  PROVE  Compare[c] \in Comparators /\ c # Undefined
BY TableAssumption DEF Columns, Undefined

(* The page has been loaded and sorted by its first script.                *)
LEMMA InitTable == Init => TableInv
<1>1. SUFFICES ASSUME Init PROVE TableInv
  OBVIOUS
<1>2. page \in Pages /\ page \in Seq(Row) /\ LoadColumn \in Columns
  BY <1>1, TableAssumption DEF Init
<1>3. rows \in Seq(Row) /\ Permutes(rows, page)
  BY <1>1, <1>2, SortTbody2Orders DEF Init, Comparators
<1>4. QED
  BY <1>1, <1>2, <1>3 DEF Init, TableInv, ShownAsRemembered

(* A click on a header, or none.                                           *)
LEMMA NextTable == TableInv /\ [Next]_vars => TableInv'
<1>1. SUFFICES ASSUME TableInv, [Next]_vars PROVE TableInv'
  OBVIOUS
<1>2. ASSUME NEW c \in Columns, sortTbody(c) PROVE TableInv'
  <2> DEFINE rev == c = col /\ ~ reverse
  <2>1. rev \in BOOLEAN /\ Compare[c] \in Comparators
    BY ColumnFacts
  <2>2. /\ rows' = sortTbody2(rows, c, Compare[c], rev)
        /\ col' = c /\ reverse' = rev /\ page' = page
    BY <1>2 DEF sortTbody
  <2> HIDE DEF rev
  <2>3. rows \in Seq(Row) /\ page \in Seq(Row) /\ Permutes(rows, page) /\ page \in Pages
    BY <1>1, TableAssumption DEF TableInv, ShownAsRemembered
  <2>4. rows' \in Seq(Row) /\ Permutes(rows', rows) /\ Ordered(rows', c, Compare[c], rev)
    BY <2>1, <2>2, <2>3, SortTbody2Orders
  <2>5. Permutes(rows', page)
    BY <2>3, <2>4, PermutesTwice
  <2>6. ShownAsRemembered'
    BY <2>2, <2>4, <2>5 DEF ShownAsRemembered
  <2>7. QED
    BY <2>1, <2>2, <2>3, <2>4, <2>6 DEF TableInv
<1>3. CASE UNCHANGED vars
  BY <1>1, <1>3 DEF TableInv, ShownAsRemembered, vars
<1>4. QED
  BY <1>1, <1>2, <1>3 DEF Next

(* The invariant of the table.                                             *)
LEMMA TableInvariance == Spec => []TableInv
BY InitTable, NextTable, PTL DEF Spec

(* After any clicks on any headers the table shows each row of the page    *)
(* once, in the order that tableSorterCol and tableSorterReverse describe. *)
THEOREM TableShowsWhatItRemembers == Spec => []ShownAsRemembered
<1>1. TableInv => ShownAsRemembered
  BY DEF TableInv
<1>2. QED
  BY <1>1, TableInvariance, PTL

(* Clicks on several headers sort by all of them: sortTbody2 does not      *)
(* change the order of rows that are equal in the new column.              *)
THEOREM ClicksKeepTies == Spec => TiesKeepOrder
<1>1. TableInv /\ [Next]_vars =>
        [\A c \in Columns : col # c /\ col' = c =>
           \A i, j \in DOMAIN rows :
             i < j /\ lt(Compare[c], rows[i][c], rows[j][c]) = 0 /\ rows[i] # rows[j] =>
               \E k, l \in DOMAIN rows' : k < l /\ rows'[k] = rows[i] /\ rows'[l] = rows[j]]_vars
  <2>1. SUFFICES ASSUME TableInv, Next,
                        NEW c \in Columns, col # c, col' = c,
                        NEW i \in DOMAIN rows, NEW j \in DOMAIN rows,
                        i < j, lt(Compare[c], rows[i][c], rows[j][c]) = 0
                 PROVE  \E k, l \in DOMAIN rows' : k < l /\ rows'[k] = rows[i] /\ rows'[l] = rows[j]
    BY DEF vars
  <2>2. rows \in Seq(Row) /\ Compare[c] \in Comparators
    BY <2>1, ColumnFacts DEF TableInv
  <2>3. rows' = Sort(rows, c, Compare[c])
    BY <2>1 DEF Next, sortTbody, sortTbody2
  <2>4. PICK p \in Bijection(DOMAIN rows, DOMAIN rows) :
          /\ Sort(rows, c, Compare[c]) = [n \in DOMAIN rows |-> rows[p[n]]]
          /\ \A m, n \in DOMAIN rows :
               m < n => LET d == lt(Compare[c], rows[p[m]][c], rows[p[n]][c])
                        IN  d < 0 \/ (d = 0 /\ p[m] < p[n])
    BY <2>2, SortIsStable
  <2>5. PICK k \in DOMAIN rows, l \in DOMAIN rows : p[k] = i /\ p[l] = j
    BY <2>4 DEF Bijection, Surjection
  <2>6. i \in Nat /\ j \in Nat /\ k \in Nat /\ l \in Nat
    BY <2>2
  <2>7. ~ (l < k)
    <3>1. SUFFICES ASSUME l < k PROVE FALSE
      OBVIOUS
    <3>2. LET d == lt(Compare[c], rows[j][c], rows[i][c]) IN d < 0 \/ (d = 0 /\ j < i)
      BY <2>4, <2>5, <3>1
    <3>3. lt(Compare[c], rows[j][c], rows[i][c]) = 0
      <4>1. rows[i][c] \in Cell /\ rows[j][c] \in Cell
        BY <2>2 DEF Row
      <4>2. PICK v \in [Cell -> Int] :
              \A a, b \in Cell : /\ lt(Compare[c], a, b) \in Int
                                 /\ lt(Compare[c], a, b) < 0 <=> v[a] < v[b]
                                 /\ lt(Compare[c], a, b) = 0 <=> v[a] = v[b]
        BY <2>2, ComparatorValue
      <4>3. QED
        BY <2>1, <4>1, <4>2
    <3>4. QED
      BY <2>1, <2>6, <3>2, <3>3
  <2>8. k # l
    BY <2>1, <2>5, <2>6
  <2>9. k < l
    BY <2>6, <2>7, <2>8
  <2>10. DOMAIN rows' = DOMAIN rows /\ rows'[k] = rows[i] /\ rows'[l] = rows[j]
    BY <2>3, <2>4, <2>5
  <2>11. QED
    BY <2>9, <2>10
<1>2. QED
  BY <1>1, TableInvariance, PTL DEF Spec, TiesKeepOrder

(* A second click on a header turns the table round, row by row: the sort  *)
(* before rows.reverse() finds rows that are in order and leaves them.     *)
THEOREM SecondClickTurnsRound == Spec => SecondClickMirrors
<1>1. TableInv /\ [Next]_vars => [~ reverse /\ reverse' => rows' = Reverse(rows)]_vars
  <2>1. SUFFICES ASSUME TableInv, Next, ~ reverse, reverse'
                 PROVE  rows' = Reverse(rows)
    BY DEF vars
  <2>2. PICK c \in Columns : sortTbody(c)
    BY <2>1 DEF Next
  <2>3. c = col /\ c # Undefined /\ Compare[c] \in Comparators
    BY <2>1, <2>2, ColumnFacts DEF sortTbody
  <2>4. rows' = Reverse(Sort(rows, c, Compare[c]))
    BY <2>1, <2>2, <2>3 DEF sortTbody, sortTbody2
  <2>5. rows \in Seq(Row) /\ Ordered(rows, c, Compare[c], reverse)
    BY <2>1, <2>3 DEF TableInv, ShownAsRemembered
  <2>6. Ordered(rows, c, Compare[c], FALSE)
    BY <2>1, <2>5 DEF Ordered
  <2>7. Sort(rows, c, Compare[c]) = rows
    BY <2>3, <2>5, <2>6, SortOfSorted
  <2>8. QED
    BY <2>4, <2>7
<1>2. QED
  BY <1>1, TableInvariance, PTL DEF Spec, SecondClickMirrors

============================================================================
