----------------------------- MODULE MCSessions -----------------------------
(* Sessions with two interchangeable requests in flight.                    *)
EXTENDS Sessions, TLC

Symmetry == Permutations(Workers)
=============================================================================
