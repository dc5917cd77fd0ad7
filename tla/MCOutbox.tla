------------------------------ MODULE MCOutbox ------------------------------
(* Instances of Outbox for TLC.                                             *)
EXTENDS Outbox, TLC

\* Two writes on one list, drained by the first of two repositories, as lists
\* are: both edits of its fields, which fold, or neither.
TwoOps == {"first", "second"}
OneList == [op \in TwoOps |-> "list"]
FirstRepo == [op \in TwoOps |-> 1]
BothOrNone == {TwoOps, {}}
=============================================================================
