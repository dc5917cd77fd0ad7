----------------------------- MODULE Settlement -----------------------------
(***************************************************************************)
(* Settlements of backend/internal/services/finance_service.go over the    *)
(* settlements table: one participant records a payment, the other one     *)
(* confirms or declines it, the recorder may cancel it while it is         *)
(* pending, and an admin may delete it at any time.                        *)
(*                                                                         *)
(* A request reads the row, checks what it read and the membership, and    *)
(* writes, in separate statements; requests interleave between them, and   *)
(* so do the changes of the household's members and of their roles.  The   *)
(* direction of the payment is abstracted away: only who recorded it and   *)
(* who the counterparty is decide what may be done with it.  The household *)
(* stays: with it its settlements are deleted, whatever their status.      *)
(***************************************************************************)
CONSTANTS Users,             \* who is or has been a member of the household
          Settlements,       \* settlement ids
          Procs,             \* request goroutines
          None               \* no value

ASSUME NoneAssumption == None \notin Users \cup Settlements

VARIABLES members,    \* the users with an active membership
          admins,     \* those of them whose role is admin
          row,        \* row[s]: the settlements row, "none" before the insert
          proc,       \* proc[p]: the local state of a request
          demoted     \* history: the deletions under way whose caller has lost
                      \* the admin role since the check

household == <<members, admins>>
vars == <<members, admins, row, proc, demoted>>

Decisions == {"confirmed", "declined"}
Statuses == Decisions \cup {"none", "pending", "removed"}
Row == [status : Statuses, creator : Users \cup {None}, counterparty : Users \cup {None}]
Results == Decisions \cup {"none", "refused", "conflict", "removed"}

\* A request: what it wants, the row as it read it, and how it was answered.
Request == [pc : {"idle", "read", "authorize", "write"},
            wish : Decisions \cup {"remove"},
            caller : Users \cup {None}, id : Settlements \cup {None},
            seen : Row, result : Results]

ProcState == {r \in Request : r.pc # "idle" \/ r.result # "none" =>
                                 r.caller \in Users /\ r.id \in Settlements}

TypeOK == /\ members \in SUBSET Users
          /\ admins \in SUBSET members
          /\ row \in [Settlements -> Row]
          /\ proc \in [Procs -> ProcState]
          /\ demoted \in SUBSET Procs

NoRow == [status |-> "none", creator |-> None, counterparty |-> None]

Init == /\ members = Users
        /\ admins \in SUBSET Users \ {{}}
        /\ demoted = {}
        /\ row = [s \in Settlements |-> NoRow]
        /\ proc = [p \in Procs |-> [pc |-> "idle", wish |-> "remove", caller |-> None,
                                    id |-> None, seen |-> NoRow, result |-> "none"]]

-----------------------------------------------------------------------------
Exists(s) == row[s].status \notin {"none", "removed"}
InPhase(p, pc) == proc[p].pc = pc
Become(p, state) == proc' = [proc EXCEPT ![p] = state]
Goto(p, pc) == Become(p, [proc[p] EXCEPT !.pc = pc])
SetStatus(s, status) == row' = [row EXCEPT ![s] = [@ EXCEPT !.status = status]]
Answer(p, result) == Become(p, [proc[p] EXCEPT !.pc = "idle", !.result = result])

\* CreateSettlement by u, with v on the other side, both of them members.  The
\* transaction's lock on the rows that exist keeps nobody from inserting
\* another one, so it orders nothing.
CreateSettlement(s, u, v) ==
    /\ row[s] = NoRow
    /\ u # v /\ {u, v} \subseteq members
    /\ row' = [row EXCEPT ![s] = [status |-> "pending", creator |-> u, counterparty |-> v]]
    /\ UNCHANGED <<household, proc, demoted>>

\* RespondToSettlement or DeleteSettlement arrives.
Ask(p, u, s, wish) ==
    /\ InPhase(p, "idle")
    /\ row[s] # NoRow
    /\ Become(p, [pc |-> "read", wish |-> wish, caller |-> u, id |-> s,
                  seen |-> NoRow, result |-> "none"])
    /\ UNCHANGED <<household, row, demoted>>

\* GetSettlementByID
Read(p) ==
    /\ InPhase(p, "read")
    /\ IF Exists(proc[p].id)
       THEN Become(p, [proc[p] EXCEPT !.pc = "authorize", !.seen = row[proc[p].id]])
       ELSE Answer(p, "refused")
    /\ UNCHANGED <<household, row, demoted>>

\* Mutant of MayRespond: any member responds.
MayRespondAnyMember(p) == proc[p].caller \in members

\* requireMember, and only the counterparty responds.
MayRespond(p) == /\ proc[p].caller \in members
                 /\ proc[p].caller = proc[p].seen.counterparty

\* Mutant of MayDelete: whoever recorded a settlement may always delete it.
MayDeleteOwn(p) == \/ proc[p].seen.creator = proc[p].caller
                   \/ proc[p].caller \in admins

\* The recorder of a pending settlement, or an admin.
MayDelete(p) == \/ /\ proc[p].seen.status = "pending"
                   /\ proc[p].seen.creator = proc[p].caller
                \/ proc[p].caller \in admins

Authorize(p) ==
    /\ InPhase(p, "authorize")
    /\ IF proc[p].wish = "remove"
       THEN IF MayDelete(p) THEN Goto(p, "write") ELSE Answer(p, "refused")
       ELSE IF ~MayRespond(p) THEN Answer(p, "refused")
       ELSE IF proc[p].seen.status # "pending" THEN Answer(p, "conflict")
       ELSE Goto(p, "write")
    /\ UNCHANGED <<household, row, demoted>>

\* Mutant of Pending: the UPDATE trusts the earlier read.
PendingOnce(s) == Exists(s)

\* WHERE id = $1 AND status = 'pending'
Pending(s) == row[s].status = "pending"

\* Mutant of UpdateStatus: the answer's name is stored.
UpdateStatusMistyped(p) ==
    /\ InPhase(p, "write")
    /\ proc[p].wish # "remove"
    /\ IF Pending(proc[p].id)
       THEN /\ SetStatus(proc[p].id, "conflict")
            /\ Answer(p, proc[p].wish)
       ELSE row' = row /\ Answer(p, "conflict")
    /\ UNCHANGED <<household, demoted>>

\* UpdateSettlementStatus: no row, no update, and the response lost a race.
UpdateStatus(p) ==
    /\ InPhase(p, "write")
    /\ proc[p].wish # "remove"
    /\ IF Pending(proc[p].id)
       THEN /\ SetStatus(proc[p].id, proc[p].wish)
            /\ Answer(p, proc[p].wish)
       ELSE row' = row /\ Answer(p, "conflict")
    /\ UNCHANGED <<household, demoted>>

\* DELETE FROM settlements WHERE id = $1
Delete(p) ==
    /\ InPhase(p, "write")
    /\ proc[p].wish = "remove"
    /\ IF Exists(proc[p].id)
       THEN /\ SetStatus(proc[p].id, "removed")
            /\ Answer(p, "removed")
       ELSE row' = row /\ Answer(p, "refused")
    /\ demoted' = demoted \ {p}
    /\ UNCHANGED household

\* The request is cancelled or its server dies.
Abort(p) == /\ ~InPhase(p, "idle")
            /\ Answer(p, "none")
            /\ demoted' = demoted \ {p}
            /\ UNCHANGED <<household, row>>

-----------------------------------------------------------------------------
(* The household changes meanwhile. *)

\* isLastAdmin
IsLastAdmin(u) == admins = {u}

\* u is no admin afterwards; deletions of u's under way have passed the check.
LosesRole(u) ==
    /\ ~IsLastAdmin(u)
    /\ admins' = admins \ {u}
    /\ demoted' = demoted \cup {p \in Procs : /\ u \in admins
                                             /\ InPhase(p, "write")
                                             /\ proc[p].wish = "remove"
                                             /\ proc[p].caller = u}

\* LeaveGroup by u, or RemoveMember of u by another member.
Leave(u) == /\ u \in members
            /\ LosesRole(u)
            /\ members' = members \ {u}
            /\ UNCHANGED <<row, proc>>

\* An invite is accepted: whoever comes back is an ordinary member again.
Rejoin(u) == /\ u \in Users \ members
             /\ members' = members \cup {u}
             /\ UNCHANGED <<admins, row, proc, demoted>>

\* UpdateMemberRole of u, by an admin.
Promote(u) == /\ u \in members \ admins
              /\ admins' = admins \cup {u}
              /\ UNCHANGED <<members, row, proc, demoted>>

Demote(u) == /\ u \in admins
             /\ LosesRole(u)
             /\ UNCHANGED <<members, row, proc>>

Next == \/ \E s \in Settlements, u, v \in Users : CreateSettlement(s, u, v)
        \/ \E p \in Procs, u \in Users, s \in Settlements,
              wish \in Decisions \cup {"remove"} : Ask(p, u, s, wish)
        \/ \E p \in Procs : \/ Read(p) \/ Authorize(p) \/ UpdateStatus(p)
                            \/ Delete(p) \/ Abort(p)
        \/ \E u \in Users : Leave(u) \/ Rejoin(u) \/ Promote(u) \/ Demote(u)

Spec == Init /\ [][Next]_vars

-----------------------------------------------------------------------------
(* Properties *)

\* The requests implement the protocol: a settlement is decided at most once,
\* however many devices answer it at the same time (UpdateSettlementStatus).
Protocol == INSTANCE SettlementProtocol WITH status <- [s \in Settlements |-> row[s].status]
Implements == Protocol!Spec

\* Whoever was told that the settlement is now confirmed, or declined, was
\* told the truth for good: no later answer reverses it (RespondToSettlement).
AnswersStand ==
    \A p \in Procs :
       (InPhase(p, "idle") /\ proc[p].result \in Decisions) =>
          row[proc[p].id].status \in {proc[p].result, "removed"}

\* A payment counts only after the other side has said so: nobody confirms or
\* declines what they recorded themselves, and no third member does it for
\* them, although the row is checked in one statement and written in another
\* (RespondToSettlement).
OnlyCounterpartyDecides ==
    [][\A s \in Settlements :
         (row[s].status = "pending" /\ row'[s].status \in Decisions) =>
            \E p \in Procs : /\ InPhase(p, "write") /\ proc[p].id = s
                             /\ proc[p].caller = row[s].counterparty
                             /\ proc[p].caller # row[s].creator]_vars

\* A decided settlement disappears from its household in three ways only: an
\* admin deletes it; somebody deletes it who was allowed to when the role was
\* checked and has lost it before the DELETE; or its creator cancels it with a
\* request that had read it as pending before the other side answered
\* (DeleteSettlement).
DecidedRemovalsAreKnown ==
    [][\A s \in Settlements :
         (row[s].status \in Decisions /\ row'[s].status = "removed") =>
            \E p \in Procs : /\ InPhase(p, "write") /\ proc[p].id = s
                             /\ \/ proc[p].caller \in admins
                                \/ p \in demoted
                                \/ /\ proc[p].caller = row[s].creator
                                   /\ proc[p].seen.status = "pending"]_vars

\* DeleteSettlement's comment: "The creator can cancel their own pending
\* settlement; anything else requires a group admin".  The code does not keep
\* it: the last two ways above are the exceptions.
OnlyAdminsRemoveDecided ==
    [][\A s \in Settlements :
         (row[s].status \in Decisions /\ row'[s].status = "removed") =>
            \E p \in Procs : /\ InPhase(p, "write") /\ proc[p].id = s
                             /\ proc[p].caller \in admins]_vars
=============================================================================
