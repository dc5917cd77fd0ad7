---------------------------- MODULE MCSettlement ----------------------------
(* Instances of Settlement for TLC.                                          *)
EXTENDS Settlement, TLC

\* Requests are interchangeable, and so are members: Init gives the admin role
\* to any of them.
Symmetric == Permutations(Procs) \cup Permutations(Users)
=============================================================================
