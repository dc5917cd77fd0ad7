---------------------------- MODULE MCMembership ----------------------------
(* Instances of Membership for TLC.                                          *)
EXTENDS Membership, TLC

CONSTANTS u1, u2, u3, u4

\* Four people nobody of whom pays, three of whom one may subscribe, and two of
\* whom one may subscribe and may close the account.
FreeWorlds == {[accounts |-> Users, payers |-> {}, quitters |-> {}]}
PaidWorlds == {[accounts |-> Users \ {u}, payers |-> {u1}, quitters |-> {}] : u \in Users \ {u1}}
PairWorlds == {[accounts |-> {u1, u}, payers |-> {u1}, quitters |-> {u1}] : u \in Users \ {u1}}
MixedWorlds == FreeWorlds \cup PaidWorlds \cup PairWorlds

\* Requests are interchangeable, and so are the users other than u1.
Symmetric == Permutations(Procs) \cup Permutations(Users \ {u1})
=============================================================================
