--------------------------- MODULE MCTableSorter ---------------------------
(* Instances of TableSorter for TLC.                                       *)
EXTENDS TableSorter

(* A column of names, one of counts and one of sizes.                      *)
MCCompare == <<"sortStr", "sortInt", "sortByte">>

Name(n) == [text |-> n, num |-> 0, unit |-> "B"]

(* "10" and "9"; "1KiB" and "900B".                                        *)
Counts == {[text |-> 1, num |-> 10, unit |-> "B"], [text |-> 2, num |-> 9, unit |-> "B"]}
Sizes  == {[text |-> 1, num |-> 1, unit |-> "KiB"], [text |-> 2, num |-> 900, unit |-> "B"]}

(* All tables of up to four rows with different names, except for the last *)
(* two.                                                                    *)
MCPages ==
  UNION {{[i \in 1..n |-> <<Name(IF i < 3 THEN 3 - i ELSE 3), f[i], g[i]>>] :
            f \in [1..n -> Counts], g \in [1..n -> Sizes]} : n \in 0..4}
============================================================================
