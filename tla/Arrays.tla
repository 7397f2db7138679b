--------------------------------- MODULE Arrays ---------------------------------
(* Array.prototype.filter, as the frontend uses it: SelectSeq with the indices that *)
(* are kept, written out so that it can be reasoned about.                          *)
EXTENDS Integers, Sequences, FiniteSets

\* The place that the element at index k takes among those that are kept.
PlaceOf(k, kept) == Cardinality({j \in kept : j <= k})

\* The elements of s at the indices that are kept, in their order.
Filtered(s, kept) == [i \in 1 .. Cardinality(kept) |-> s[CHOOSE k \in kept : PlaceOf(k, kept) = i]]

=============================================================================
