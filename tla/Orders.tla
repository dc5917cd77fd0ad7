------------------------------- MODULE Orders -------------------------------
(***************************************************************************)
(* Sequences as orders: what comes before what, and a part of an order.    *)
(***************************************************************************)
EXTENDS Naturals, SequencesExt

\* a stands before b.
Before(s, a, b) == \E i, j \in 1..Len(s) : i < j /\ s[i] = a /\ s[j] = b

\* The elements of s that are in K, in their order.
Only(s, K) == FoldLeft(LAMBDA kept, x : IF x \in K THEN Append(kept, x) ELSE kept, << >>, s)
=============================================================================
