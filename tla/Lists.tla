------------------------------- MODULE Lists -------------------------------
(***************************************************************************)
(* Loops that walk a list and skip some of its elements.                   *)
(***************************************************************************)
EXTENDS Integers, Sequences, FiniteSets

(* How many of the positions P a walk has met when it is at i.             *)
Rank(P, i) == Cardinality({j \in P : j <= i})

(* The n-th of the positions P.                                            *)
Nth(P, n) == CHOOSE i \in P : Rank(P, i) = n

(* The elements of s at the positions P, in their order.                   *)
At(s, P) == [n \in 1..Cardinality(P) |-> s[Nth(P, n)]]

(* The elements of s that pass the test.  This is SelectSeq, without the   *)
(* recursion, which the provers cannot follow.                             *)
Filter(s, Test(_)) == At(s, {i \in DOMAIN s : Test(s[i])})
============================================================================
