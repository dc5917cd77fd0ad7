---------------------------- MODULE MCAttachments ----------------------------
(* Attachments with two interchangeable requests in flight.                 *)
EXTENDS Attachments, TLC

Symmetry == Permutations(Workers)
=============================================================================
