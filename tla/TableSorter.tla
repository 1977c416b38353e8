---------------------------- MODULE TableSorter ----------------------------
(***************************************************************************)
(* The sortable tables of the pages /stat and /peers                       *)
(* (www/js/table-sorter.js): rows that are sorted when the page is loaded, *)
(* and again at each click on a header, upwards or downwards.              *)
(*                                                                         *)
(* A cell is a record of its place among all texts (text), the number it   *)
(* starts with (num), and the unit that follows it (unit).  Texts and      *)
(* numbers are ordered differently: "10" comes before "9".  A click runs   *)
(* to its end before the next one, the script has one thread.              *)
(***************************************************************************)
EXTENDS Integers, Sequences, FiniteSets, SequencesExt

CONSTANTS
  Pages,      \* what the server may send: sequences of rows
  Compare,    \* for each column, the comparator its header names
  LoadColumn  \* the column the script at the end of the page sorts by

Comparators == {"sortStr", "sortInt", "sortByte"}
Units == {"B", "KiB", "MiB", "GiB", "TiB", "PiB", "EiB", "ZiB", "YiB"}

Columns == DOMAIN Compare
Cell == [text : Int, num : Int, unit : Units]
Row == [Columns -> Cell]

ASSUME TableAssumption ==
  /\ Compare \in Seq(Comparators)
  /\ LoadColumn \in Columns
  /\ Pages \subseteq Seq(Row)

VARIABLES
  page,     \* the rows as they came
  rows,     \* tbody.rows
  col,      \* tbody.tableSorterCol, or Undefined
  reverse   \* tbody.tableSorterReverse

vars == <<page, rows, col, reverse>>

Undefined == 0

(* The product that stands in the place of a unit when the text is         *)
(* evaluated.                                                              *)
Kilo(n) == n * 1024

Factor(unit) == CASE unit = "B"   -> 1
                  [] unit = "KiB" -> Kilo(1)
                  [] unit = "MiB" -> Kilo(Kilo(1))
                  [] unit = "GiB" -> Kilo(Kilo(Kilo(1)))
                  [] unit = "TiB" -> Kilo(Kilo(Kilo(Kilo(1))))
                  [] unit = "PiB" -> Kilo(Kilo(Kilo(Kilo(Kilo(1)))))
                  [] unit = "EiB" -> Kilo(Kilo(Kilo(Kilo(Kilo(Kilo(1))))))
                  [] unit = "ZiB" -> Kilo(Kilo(Kilo(Kilo(Kilo(Kilo(Kilo(1)))))))
                  [] unit = "YiB" -> Kilo(Kilo(Kilo(Kilo(Kilo(Kilo(Kilo(Kilo(1))))))))

(* The outer parseInt is the identity on whole numbers below 10^21, which  *)
(* all sizes of 64 bits are.                                               *)
parseByteSize(a) == a.num * Factor(a.unit)

(* The comparators: negative, zero or positive.                            *)
sortStr(a, b)  == IF a.text > b.text THEN 1 ELSE IF a.text = b.text THEN 0 ELSE -1
sortInt(a, b)  == a.num - b.num
sortByte(a, b) == parseByteSize(a) - parseByteSize(b)

lt(f, a, b) == CASE f = "sortStr"  -> sortStr(a, b)
                 [] f = "sortInt"  -> sortInt(a, b)
                 [] f = "sortByte" -> sortByte(a, b)

(* Slip: a sort that is not stable, equal rows change places.              *)
Before_Unstable(s, c, f, j, i) ==
  LET d == lt(f, s[j][c], s[i][c]) IN d < 0 \/ (d = 0 /\ j >= i)

(* Row j goes before row i, or is row i.                                   *)
Before(s, c, f, j, i) ==
  LET d == lt(f, s[j][c], s[i][c]) IN d < 0 \/ (d = 0 /\ j <= i)

(* The place of row i: the number of rows that go before it, and itself.   *)
Place(s, c, f, i) == Cardinality({j \in DOMAIN s : Before(s, c, f, j, i)})

(* Array.prototype.sort, which is stable.                                  *)
Sort(s, c, f) == [n \in DOMAIN s |-> s[CHOOSE i \in DOMAIN s : Place(s, c, f, i) = n]]

(* Slip: the comparator is turned round instead of the sorted rows.        *)
sortTbody2_Descending(s, c, f, rev) ==
  IF rev THEN Reverse(Sort(Reverse(s), c, f)) ELSE Sort(s, c, f)

sortTbody2(s, c, f, rev) ==
  LET sorted == Sort(s, c, f) IN IF rev THEN Reverse(sorted) ELSE sorted

-----------------------------------------------------------------------------
(* The script of the page has run: it names sortStr for either page, and   *)
(* leaves tableSorterCol alone.                                            *)
Init ==
  /\ page \in Pages
  /\ rows = sortTbody2(page, LoadColumn, "sortStr", FALSE)
  /\ col = Undefined
  /\ reverse = FALSE

(* Slip: the new direction is not stored.                                  *)
sortTbody_Forgets(c) ==
  LET rev == c = col /\ ~ reverse IN
  /\ rows' = sortTbody2(rows, c, Compare[c], rev)
  /\ col' = c
  /\ UNCHANGED <<page, reverse>>

(* A click on the header of column c.                                      *)
sortTbody(c) ==
  LET rev == c = col /\ ~ reverse IN
  /\ rows' = sortTbody2(rows, c, Compare[c], rev)
  /\ col' = c
  /\ reverse' = rev
  /\ UNCHANGED page

Next == \E c \in Columns : sortTbody(c)

Spec == Init /\ [][Next]_vars

-----------------------------------------------------------------------------
(* Table r has the rows of table s, each of them as often.                 *)
Permutes(r, s) ==
  \E p \in [DOMAIN r -> DOMAIN s] :
    IsInjective(p) /\ Len(r) = Len(s) /\ r = [i \in DOMAIN r |-> s[p[i]]]

(* The cells of column c go up, or down if rev.                            *)
Ordered(r, c, f, rev) ==
  \A i, j \in DOMAIN r :
    i < j => LET d == lt(f, r[i][c], r[j][c])
             IN  IF rev THEN d >= 0 ELSE d <= 0

(* What the table remembers of the last click is how its rows are ordered, *)
(* after any clicks on any columns; and no row is lost or doubled.         *)
ShownAsRemembered ==
  /\ Permutes(rows, page)
  /\ col # Undefined => Ordered(rows, col, Compare[col], reverse)

(* A click on another header keeps the order of the rows that are equal in *)
(* that column, so that clicks on several headers sort by all of them.     *)
TiesKeepOrder ==
  [][\A c \in Columns : col # c /\ col' = c =>
       \A i, j \in DOMAIN rows :
         i < j /\ lt(Compare[c], rows[i][c], rows[j][c]) = 0 /\ rows[i] # rows[j] =>
           \E k, l \in DOMAIN rows' : k < l /\ rows'[k] = rows[i] /\ rows'[l] = rows[j]]_vars

(* A second click on a header shows the rows exactly the other way round,  *)
(* equal ones too.                                                         *)
SecondClickMirrors ==
  [][~ reverse /\ reverse' => rows' = Reverse(rows)]_vars
============================================================================
