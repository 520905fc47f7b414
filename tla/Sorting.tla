------------------------------- MODULE Sorting -------------------------------
(***************************************************************************)
(* Sequences in an order: what filter and sort of an array, or WHERE and   *)
(* ORDER BY of a query, make of a set.  The definitions count what comes   *)
(* before an element, so that the provers can unfold them, which they      *)
(* cannot with SelectSeq and SortSeq.                                      *)
(***************************************************************************)
EXTENDS Integers, Sequences, FiniteSets

\* The elements of S that come before x in R, a set of pairs.
Before(S, R, x) == {y \in S : <<y, x>> \in R}

\* The elements of S, each once, in the order R.
Sorted(S, R) ==
    [n \in 1..Cardinality(S) |->
        CHOOSE x \in S : Cardinality(Before(S, R, x)) = n - 1]

Ascending(K) == {e \in K \X K : e[1] < e[2]}

\* The elements of s at the places K, in the order of s.
Kept(s, K) ==
    LET places == Sorted(K, Ascending(K)) IN [n \in 1..Cardinality(K) |-> s[places[n]]]

\* No more than the first n.
FirstOf(s, n) == SubSeq(s, 1, IF Len(s) < n THEN Len(s) ELSE n)
=============================================================================
