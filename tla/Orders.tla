------------------------------- MODULE Orders -------------------------------
(***************************************************************************)
(* Sorted sequences of a finite set of integers, which are times or        *)
(* positions: sorted() of Python.                                          *)
(***************************************************************************)
EXTENDS Integers, FiniteSets

\* A set of integers, ascending
InOrder(S) == [k \in 1..Cardinality(S) |-> CHOOSE i \in S : Cardinality({j \in S : j <= i}) = k]

\* Sorting is stable: among positions with the same key the first comes first.
Upto(S, key, i) == {j \in S : key[j] < key[i] \/ (key[j] = key[i] /\ j <= i)}

SortBy(S, key) ==
  [k \in 1..Cardinality(S) |-> CHOOSE i \in S : Cardinality(Upto(S, key, i)) = k]

=============================================================================
