------------------------------- MODULE Ordered -------------------------------
(***************************************************************************)
(* Sets of numbers in their order, and the elements of a sequence at a set *)
(* of positions: what a query with ORDER BY, a sort and a filter return.   *)
(***************************************************************************)
EXTENDS Integers, Sequences, FiniteSets

\* The numbers of a finite set, the smallest first.
InOrder(S) == [p \in 1..Cardinality(S) |-> CHOOSE k \in S : Cardinality({m \in S : m < k}) = p - 1]

\* The elements of a sequence at some of its positions, in their order.
Chosen(seq, positions) ==
  LET order == InOrder(positions)
  IN [p \in DOMAIN order |-> seq[order[p]]]
=============================================================================
