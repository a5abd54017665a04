------------------------------- MODULE Sorting -------------------------------
(* A set of numbers in increasing order: the indices a data frame keeps    *)
(* when it is filtered, the distinct values of a column.                   *)
EXTENDS Integers, FiniteSets

Place(S, i) == Cardinality({j \in S : j <= i})

InOrder(S) == [n \in 1 .. Cardinality(S) |-> CHOOSE i \in S : Place(S, i) = n]
=============================================================================
