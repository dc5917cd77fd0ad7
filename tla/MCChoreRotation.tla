-------------------------- MODULE MCChoreRotation --------------------------
(* Instances of ChoreRotation for TLC.                                       *)
EXTENDS ChoreRotation, TLC

\* A household that does not change; one that people join or leave, request by
\* request; turns that change in every way; a household that changes meanwhile.
Steady == [users |-> Users, rows |-> 5, may |-> {"finish", "reschedule", "schedule"}]
Growing == [users |-> Users, rows |-> 5, may |-> {"finish", "undo", "join", "serial"}]
Shrinking == [users |-> Users, rows |-> 5, may |-> {"finish", "leave", "serial"}]
Turning == [users |-> {1, 2}, rows |-> 3, may |-> Operations \cup {"crash"}]
Moving == [users |-> {1, 2}, rows |-> 3,
           may |-> {"finish", "reassign", "schedule", "join", "leave", "crash"}]
TypicalWorlds == {Steady, Growing, Shrinking, Turning, Moving}

Changing == [users |-> Users, rows |-> 5, may |-> {"finish", "join", "leave", "serial"}]
OneByOne == {Changing}

\* Processes are interchangeable.
Symmetric == Permutations(Procs)
=============================================================================
