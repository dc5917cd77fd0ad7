------------------------- MODULE SettlementProtocol -------------------------
(***************************************************************************)
(* What recording a payment between two housemates promises: a settlement  *)
(* is recorded as pending, is decided at most once, and once decided it    *)
(* stays decided until it is removed for good.  Only confirmed settlements *)
(* count in the balances.                                                  *)
(***************************************************************************)
CONSTANT Settlements

VARIABLE status

Statuses == {"none", "pending", "confirmed", "declined", "removed"}

Init == status = [s \in Settlements |-> "none"]

Become(s, from, to) == /\ status[s] \in from
                       /\ status' = [status EXCEPT ![s] = to]

Record(s) == Become(s, {"none"}, "pending")
Decide(s) == \/ Become(s, {"pending"}, "confirmed")
             \/ Become(s, {"pending"}, "declined")
Remove(s) == Become(s, {"pending", "confirmed", "declined"}, "removed")

Next == \E s \in Settlements : Record(s) \/ Decide(s) \/ Remove(s)

Spec == Init /\ [][Next]_status
=============================================================================
