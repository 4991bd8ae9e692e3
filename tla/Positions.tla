------------------------------ MODULE Positions ------------------------------
(***************************************************************************)
(* The elements of a sequence at some of its positions: what is left of a  *)
(* loop that appends to a new slice what it keeps of an old one.           *)
(***************************************************************************)
EXTENDS Integers, Sequences, FiniteSets

\* The k-th of a set of positions, in increasing order, and the first.
Before(positions, i) == {j \in positions : j < i}
Nth(positions, k) == CHOOSE i \in positions : Cardinality(Before(positions, i)) = k - 1
First(positions) == CHOOSE i \in positions : \A j \in positions : i <= j

Picked(seq, positions) == [k \in 1..Cardinality(positions) |-> seq[Nth(positions, k)]]
=============================================================================
