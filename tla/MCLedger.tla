------------------------------ MODULE MCLedger ------------------------------
(* Instances of Ledger for TLC.                                              *)
EXTENDS Ledger, TLC

\* Requests are interchangeable.
Symmetric == Permutations(Editors)
=============================================================================
