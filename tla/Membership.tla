----------------------------- MODULE Membership -----------------------------
(***************************************************************************)
(* The membership of one household: GroupService of                        *)
(* backend/internal/services/group_service.go over the groups,             *)
(* group_memberships and group_invites tables, the premium gate of         *)
(* billing_service.go that joining passes, and the account deletion of     *)
(* user_service.go that touches the same people.                           *)
(*                                                                         *)
(* A request runs in a goroutine (a process) on any server.  Each          *)
(* statement is a step of its own, and processes interleave between steps, *)
(* except inside a transaction that holds the lock on the groups row,      *)
(* where two reads of what only the lock holder may write are one step.    *)
(* PostgreSQL itself takes a share lock on the groups row to check the     *)
(* foreign key of a new membership or invite and an exclusive one to       *)
(* delete the row, so those statements wait for a holder too.  What        *)
(* follows a change in another component (the rebuild of the chore         *)
(* rotations, the published event) is outside this module.                 *)
(***************************************************************************)
EXTENDS Integers, FiniteSets

CONSTANTS Users,      \* accounts
          Procs,      \* request goroutines
          Worlds,     \* who has an account, may subscribe, may close the account
          FreeLimit,  \* cfg.FreeMemberLimit
          None        \* nobody

ASSUME WorldsAssumption ==
    Worlds \subseteq [accounts : SUBSET Users, payers : SUBSET Users, quitters : SUBSET Users]
ASSUME LimitAssumption == FreeLimit \in Nat \ {0}
ASSUME FiniteAssumption == IsFiniteSet(Users) /\ IsFiniteSet(Procs) /\ Procs # {}
ASSUME NoneAssumption == None \notin Users \cup Procs

VARIABLES world,      \* who there is in this behaviour, one of Worlds
          group,      \* the groups row; "empty" before its first membership
          member,     \* member[u]: u's group_memberships row
          account,    \* account[u]: u's users row
          pinned,     \* the users whose live subscription names this household
          invite,     \* the household's invite code
          lock,       \* the transaction that holds the groups row, or None
          proc        \* proc[p]: the local state of a request

vars == <<world, group, member, account, pinned, invite, lock, proc>>

GroupStates == {"none", "empty", "live", "deleted"}
Roles == {"admin", "member"}
Rows == Roles \cup {"never", "left"}     \* "left": left_at is set
LockedOps == {"leave", "remove", "role"}
Locked == {"authorize", "target", "write"}
Phases == Locked \cup {"idle", "enroll", "lock", "count", "cover", "admit", "delete"}

Request == [pc : Phases, op : LockedOps \cup {"create", "delete", "invite", "join", "none"},
            caller : Users \cup {None}, target : Users \cup {None},
            role : Roles, room : BOOLEAN]

\* A request that starts in phase pc.
NewRequest(pc, op, caller, target, role) ==
    [pc |-> pc, op |-> op, caller |-> caller, target |-> target,
     role |-> role, room |-> FALSE]

Idle == NewRequest("idle", "none", None, None, "member")

\* A request on its way knows who asks, and a locked one whom it is about.
ProcState == {r \in Request : /\ r.pc # "idle" => r.caller \in Users
                              /\ r.pc \in Locked \cup {"lock"} => /\ r.target \in Users
                                                                  /\ r.op \in LockedOps
                              /\ r.op = "leave" => r.caller = r.target}

TypeOK == /\ world \in Worlds
          /\ group \in GroupStates
          /\ member \in [Users -> Rows]
          /\ account \in [Users -> {"open", "closed"}]
          /\ pinned \in SUBSET world.payers
          /\ invite \in {"none", "valid", "expired"}
          /\ lock \in Procs \cup {None}
          /\ proc \in [Procs -> ProcState]

Init == /\ world \in Worlds
        /\ group = "none"
        /\ member = [u \in Users |-> "never"]
        /\ account = [u \in Users |-> IF u \in world.accounts THEN "open" ELSE "closed"]
        /\ pinned = {}
        /\ invite = "none"
        /\ lock = None
        /\ proc = [p \in Procs |-> Idle]

-----------------------------------------------------------------------------
Active == {u \in Users : member[u] \in Roles}
Admins == {u \in Users : member[u] = "admin"}
GroupExists == group \in {"empty", "live"}

\* GetGroupCoverage: a payer counts only while a member.
Covered == pinned \cap Active # {}

InPhase(p, pc) == proc[p].pc = pc
Become(p, state) == proc' = [proc EXCEPT ![p] = state]
Finish(p) == Become(p, Idle)
Goto(p, pc) == Become(p, [proc[p] EXCEPT !.pc = pc])

\* A request of a signed-in user starts.
Arrives(p, u) == InPhase(p, "idle") /\ account[u] = "open"

-----------------------------------------------------------------------------
(* CreateGroup: two statements without a transaction. *)

InsertGroup(p, u) ==
    /\ Arrives(p, u)
    /\ group = "none"
    /\ group' = "empty"
    /\ Become(p, NewRequest("enroll", "create", u, None, "member"))
    /\ UNCHANGED <<member, account, pinned, invite, lock>>

Enroll(p) ==
    /\ InPhase(p, "enroll")
    /\ lock = None
    /\ member' = [member EXCEPT ![proc[p].caller] = "admin"]
    /\ group' = "live"
    /\ Finish(p)
    /\ UNCHANGED <<account, pinned, invite, lock>>

-----------------------------------------------------------------------------
(* LeaveGroup, RemoveMember and UpdateMemberRole: one transaction each. *)

AskLeave(p, u) ==
    /\ Arrives(p, u)
    /\ Become(p, NewRequest("lock", "leave", u, u, "member"))
    /\ UNCHANGED <<group, member, account, pinned, invite, lock>>

AskRemove(p, u, t) ==
    /\ Arrives(p, u)
    /\ Become(p, NewRequest("lock", "remove", u, t, "member"))
    /\ UNCHANGED <<group, member, account, pinned, invite, lock>>

AskRole(p, u, t, r) ==
    /\ Arrives(p, u)
    /\ Become(p, NewRequest("lock", "role", u, t, r))
    /\ UNCHANGED <<group, member, account, pinned, invite, lock>>

\* Mutant of LockGroup: SELECT without FOR UPDATE.
ReadGroup(p) ==
    /\ InPhase(p, "lock")
    /\ IF GroupExists
       THEN Goto(p, "authorize")
       ELSE Finish(p)
    /\ UNCHANGED <<group, member, account, pinned, invite, lock>>

\* SELECT .. FOR UPDATE waits for the holder; no row is an error.
LockGroup(p) ==
    /\ InPhase(p, "lock")
    /\ lock = None
    /\ IF GroupExists
       THEN lock' = p /\ Goto(p, "authorize")
       ELSE lock' = lock /\ Finish(p)
    /\ UNCHANGED <<group, member, account, pinned, invite>>

\* Mutant of Authorized: a change of role asks only for membership.
AuthorizedByMembership(p) == proc[p].op # "leave" => proc[p].caller \in Active

\* requireAdmin or requireMembership on the caller; leaving needs neither.
Authorized(p) == CASE proc[p].op = "role" -> proc[p].caller \in Admins
                   [] proc[p].op = "remove" -> proc[p].caller \in Active
                   [] OTHER -> TRUE

\* The rollback of a transaction frees the row.
Unlock(p) == lock' = IF lock = p THEN None ELSE lock

Authorize(p) ==
    /\ InPhase(p, "authorize")
    /\ IF Authorized(p)
       THEN Goto(p, "target") /\ lock' = lock
       ELSE Finish(p) /\ Unlock(p)
    /\ UNCHANGED <<group, member, account, pinned, invite>>

\* The request would leave its target without the admin role.
Unseats(p) == proc[p].op # "role" \/ proc[p].role = "member"

\* isLastAdmin
IsLastAdmin(u) == Admins = {u}

\* Mutant of TargetAllowed: the last-admin check is missing.
TargetIsMember(p) == proc[p].target \in Active

TargetAllowed(p) == /\ proc[p].target \in Active
                    /\ Unseats(p) => ~IsLastAdmin(proc[p].target)

CheckTarget(p) ==
    /\ InPhase(p, "target")
    /\ IF TargetAllowed(p)
       THEN Goto(p, "write") /\ lock' = lock
       ELSE Finish(p) /\ Unlock(p)
    /\ UNCHANGED <<group, member, account, pinned, invite>>

\* Mutant of Written: a value no row can have.
WrittenMistyped(p) == IF proc[p].op = "role" THEN proc[p].role ELSE "removed"

\* EndMembership or UpdateMembership on an active row.
Written(p) == IF proc[p].op = "role" THEN proc[p].role ELSE "left"

Write(p) ==
    /\ InPhase(p, "write")
    /\ member' = IF proc[p].target \in Active
                 THEN [member EXCEPT ![proc[p].target] = Written(p)]
                 ELSE member
    /\ Finish(p)
    /\ Unlock(p)
    /\ UNCHANGED <<group, account, pinned, invite>>

-----------------------------------------------------------------------------
(* DeleteGroup: requireAdmin, then the DELETE, which waits for the lock. *)

AskDelete(p, u) ==
    /\ Arrives(p, u)
    /\ u \in Admins
    /\ Become(p, NewRequest("delete", "delete", u, None, "member"))
    /\ UNCHANGED <<group, member, account, pinned, invite, lock>>

DeleteGroup(p) ==
    /\ InPhase(p, "delete")
    /\ lock = None
    /\ IF GroupExists
       THEN /\ group' = "deleted"
            /\ member' = [u \in Users |-> "never"]
            /\ invite' = "none"
            /\ pinned' = {}
       ELSE UNCHANGED <<group, member, invite, pinned>>
    /\ Finish(p)
    /\ UNCHANGED <<account, lock>>

-----------------------------------------------------------------------------
(* InviteMember and JoinGroup: check, gate (two queries), insert. *)

AskInvite(p, u) ==
    /\ Arrives(p, u)
    /\ u \in Active
    /\ Become(p, NewRequest("count", "invite", u, None, "member"))
    /\ UNCHANGED <<group, member, account, pinned, invite, lock>>

AskJoin(p, u) ==
    /\ Arrives(p, u)
    /\ invite = "valid"
    /\ u \notin Active
    /\ Become(p, NewRequest("count", "join", u, None, "member"))
    /\ UNCHANGED <<group, member, account, pinned, invite, lock>>

\* Mutant of HasRoom: one too many.
HasRoomForOne == Cardinality(Active) <= FreeLimit

HasRoom == Cardinality(Active) < FreeLimit

\* householdEntitlement's first query: CountGroupMembers.
Count(p) ==
    /\ InPhase(p, "count")
    /\ Become(p, [proc[p] EXCEPT !.pc = "cover", !.room = HasRoom])
    /\ UNCHANGED <<group, member, account, pinned, invite, lock>>

\* Its second query, GetGroupCoverage, and the verdict.
Cover(p) ==
    /\ InPhase(p, "cover")
    /\ IF Covered \/ proc[p].room THEN Goto(p, "admit") ELSE Finish(p)
    /\ UNCHANGED <<group, member, account, pinned, invite, lock>>

\* CreateInvite: the code is good for seven days, for anyone.
CreateInvite(p) ==
    /\ InPhase(p, "admit")
    /\ proc[p].op = "invite"
    /\ lock = None
    /\ invite' = IF GroupExists THEN "valid" ELSE invite
    /\ Finish(p)
    /\ UNCHANGED <<group, member, account, pinned, lock>>

\* CreateMembership: a new row, or a retired one reactivated as 'member'; an
\* active row is ErrMembershipExists.  Only a new row checks the foreign key.
CreateMembership(p) ==
    /\ InPhase(p, "admit")
    /\ proc[p].op = "join"
    /\ LET u == proc[p].caller
       IN /\ member[u] = "never" => lock = None
          /\ member' = IF GroupExists /\ u \notin Active
                       THEN [member EXCEPT ![u] = "member"]
                       ELSE member
    /\ Finish(p)
    /\ UNCHANGED <<group, account, pinned, invite, lock>>

-----------------------------------------------------------------------------
\* The request's context is cancelled, or its server dies.
Abort(p) ==
    /\ ~InPhase(p, "idle")
    /\ Finish(p)
    /\ Unlock(p)
    /\ UNCHANGED <<group, member, account, pinned, invite>>

\* DeleteMe: the user row becomes a tombstone; memberships and
\* subscriptions stay as they are.
DeleteMe(u) ==
    /\ u \in world.quitters
    /\ account[u] = "open"
    /\ account' = [account EXCEPT ![u] = "closed"]
    /\ UNCHANGED <<group, member, pinned, invite, lock, proc>>

\* SetPremiumHousehold by a member who pays.
Pin(u) ==
    /\ u \in world.payers \cap Active
    /\ account[u] = "open"
    /\ pinned' = pinned \cup {u}
    /\ UNCHANGED <<group, member, account, invite, lock, proc>>

\* The subscription moves elsewhere, ends or lapses.
Unpin(u) ==
    /\ u \in pinned
    /\ pinned' = pinned \ {u}
    /\ UNCHANGED <<group, member, account, invite, lock, proc>>

\* Seven days pass over the code.
ExpireInvite ==
    /\ invite = "valid"
    /\ invite' = "expired"
    /\ UNCHANGED <<group, member, account, pinned, lock, proc>>

Act ==  \/ \E p \in Procs, u \in Users :
             \/ InsertGroup(p, u) \/ AskLeave(p, u) \/ AskDelete(p, u)
             \/ AskInvite(p, u) \/ AskJoin(p, u)
             \/ \E t \in Users : AskRemove(p, u, t)
             \/ \E t \in Users, r \in Roles : AskRole(p, u, t, r)
        \/ \E p \in Procs :
             \/ Enroll(p) \/ LockGroup(p) \/ Authorize(p) \/ CheckTarget(p)
             \/ Write(p) \/ DeleteGroup(p) \/ Count(p) \/ Cover(p)
             \/ CreateInvite(p) \/ CreateMembership(p) \/ Abort(p)
        \/ \E u \in Users : DeleteMe(u) \/ Pin(u) \/ Unpin(u)
        \/ ExpireInvite

Next == Act /\ UNCHANGED world

Spec == Init /\ [][Next]_vars

-----------------------------------------------------------------------------
(* Properties *)

\* A household that got its first admin has an admin until it is deleted,
\* whatever members leave, are removed or demoted at the same time (the
\* last-admin checks under LockGroup).
AdminKept == group = "live" => Admins # {}

\* Whoever becomes an admin after the founder is promoted by someone who is
\* an admin at the moment of the write, not only when it was checked
\* (UpdateMemberRole under LockGroup).
PromotionByAdmin ==
    [][\A u \in Users :
         (group = "live" /\ u \notin Admins /\ member'[u] = "admin") =>
            \E p \in Procs : /\ InPhase(p, "write") /\ proc'[p] = Idle
                             /\ proc[p].target = u
                             /\ proc[p].caller \in Admins]_vars

\* Nobody's membership is ended by someone who is no longer a member
\* (RemoveMember and LeaveGroup under LockGroup).
RemovalByMember ==
    [][\A u \in Active :
         member'[u] = "left" =>
            \E p \in Procs : /\ InPhase(p, "write") /\ proc'[p] = Idle
                             /\ proc[p].target = u
                             /\ proc[p].caller \in Active]_vars

\* A household nobody ever pays for can overshoot its free limit only by the
\* requests in flight: the gate and the insert are not one transaction
\* (EnsureCanAddMember, CreateMembership).
OvershootBounded ==
    world.payers = {} => Cardinality(Active) <= FreeLimit - 1 + Cardinality(Procs)

\* RemoveMember's comment, "the last admin is still protected so the group
\* never ends up without one": some admin can still sign in.  The code does not
\* keep it: deleting an account looks at no membership (user_service.go:485-496).
\* AdminKept is what it keeps.
UsableAdmin == group = "live" => \E u \in Admins : account[u] = "open"
=============================================================================
