---------------------------- MODULE Subsequences ----------------------------
(* Array.filter and String.replace with nothing: the elements of a sequence *)
(* at the places that are kept, in their order.  An element goes to the     *)
(* place that counts the kept ones up to it, a form the lemmas about it     *)
(* can be proved in.                                                        *)
EXTENDS Integers, FiniteSets, Sequences

Place(i, kept) == Cardinality({j \in kept : j <= i})

Subsequence(seq, kept) ==
    [k \in 1..Cardinality(kept) |-> seq[CHOOSE i \in kept : Place(i, kept) = k]]
=============================================================================
