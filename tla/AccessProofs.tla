---------------------------- MODULE AccessProofs ----------------------------
(***************************************************************************)
(* Theorems about who may act for a household: Membership, for every set   *)
(* of users and requests, and Sessions, for every number of requests,      *)
(* sessions and passwords.                                                 *)
(*                                                                         *)
(* The safety argument of Membership is two-phase locking on the groups    *)
(* row: what a locked request checked stays true until it writes, because  *)
(* every step that takes a role away, ends a membership or deletes the     *)
(* household needs the lock.                                               *)
(***************************************************************************)
EXTENDS Membership, Sessions, OrderLemmas

(* The members of a household. *)

\* A request changes its own state and nobody else's.
LEMMA BecomeTyped ==
  ASSUME TypeOK, NEW p \in Procs, NEW s \in ProcState, Become(p, s)
  PROVE  /\ proc' \in [Procs -> ProcState]
         /\ proc'[p] = s
         /\ \A q \in Procs \ {p} : proc'[q] = proc[q]
BY DEF TypeOK, Become

LEMMA IdleTyped == Idle \in ProcState
BY NoneAssumption DEF Idle, NewRequest, ProcState, Request, Phases, LockedOps, Locked, Roles

LEMMA FinishTyped ==
  ASSUME TypeOK, NEW p \in Procs, Finish(p)
  PROVE  /\ proc' \in [Procs -> ProcState]
         /\ proc'[p] = Idle
         /\ \A q \in Procs \ {p} : proc'[q] = proc[q]
BY IdleTyped, BecomeTyped DEF Finish

\* A request that goes on keeps what it knows.
LEMMA GotoTyped ==
  ASSUME TypeOK, NEW p \in Procs, NEW pc \in Phases \ {"idle", "lock"}, Goto(p, pc),
         proc[p].pc # "idle",
         pc \in Locked => proc[p].pc \in Locked \cup {"lock"}
  PROVE  /\ proc' \in [Procs -> ProcState]
         /\ proc'[p] = [proc[p] EXCEPT !.pc = pc]
         /\ \A q \in Procs \ {p} : proc'[q] = proc[q]
<1>1. [proc[p] EXCEPT !.pc = pc] \in ProcState
  BY DEF TypeOK, ProcState, Request, Phases
<1> QED BY <1>1, BecomeTyped DEF Goto

\* A request that arrives.
LEMMA ArrivalTyped ==
  ASSUME TypeOK, NEW p \in Procs, NEW u \in Users,
         NEW pc \in {"enroll", "count", "delete"},
         NEW op \in {"create", "delete", "invite", "join"},
         Become(p, NewRequest(pc, op, u, None, "member"))
  PROVE  /\ proc' \in [Procs -> ProcState]
         /\ proc'[p] = NewRequest(pc, op, u, None, "member")
         /\ \A q \in Procs \ {p} : proc'[q] = proc[q]
<1>1. NewRequest(pc, op, u, None, "member") \in ProcState
  BY DEF NewRequest, ProcState, Request, Phases, LockedOps, Locked, Roles
<1> QED BY <1>1, BecomeTyped

\* A locked request that arrives waits for the lock.
LEMMA LockedArrivalTyped ==
  ASSUME TypeOK, NEW p \in Procs, NEW u \in Users, NEW t \in Users, NEW r \in Roles,
         \/ AskLeave(p, u) \/ AskRemove(p, u, t) \/ AskRole(p, u, t, r)
  PROVE  /\ proc' \in [Procs -> ProcState]
         /\ proc'[p].pc = "lock"
         /\ \A q \in Procs \ {p} : proc'[q] = proc[q]
         /\ UNCHANGED <<group, member, account, pinned, invite, lock>>
<1>1. PICK s \in {NewRequest("lock", "leave", u, u, "member"),
                  NewRequest("lock", "remove", u, t, "member"),
                  NewRequest("lock", "role", u, t, r)} : Become(p, s)
  BY DEF AskLeave, AskRemove, AskRole
<1>2. \A op \in LockedOps, x \in Users, role \in Roles :
        (op = "leave" => x = u) => /\ NewRequest("lock", op, u, x, role) \in ProcState
                                  /\ NewRequest("lock", op, u, x, role).pc = "lock"
  BY DEF NewRequest, ProcState, Request, Phases, LockedOps, Locked, Roles
<1>3. s \in ProcState /\ s.pc = "lock"
  BY <1>1, <1>2 DEF LockedOps, Roles
<1>4. UNCHANGED <<group, member, account, pinned, invite, lock>>
  BY DEF AskLeave, AskRemove, AskRole
<1> QED BY <1>1, <1>3, <1>4, BecomeTyped

\* The steps of a process on its way through a request, by what they do to
\* the process: it goes on, notes the count, or is done.
LEMMA CountTyped ==
  ASSUME TypeOK, NEW p \in Procs, Count(p)
  PROVE  /\ proc' \in [Procs -> ProcState]
         /\ proc'[p] = [proc[p] EXCEPT !.pc = "cover", !.room = HasRoom]
         /\ \A q \in Procs \ {p} : proc'[q] = proc[q]
<1>1. HasRoom \in BOOLEAN
  BY DEF HasRoom
<1>2. [proc[p] EXCEPT !.pc = "cover", !.room = HasRoom] \in ProcState
  BY <1>1 DEF TypeOK, ProcState, Request, Phases, Count, InPhase, Locked
<1> QED BY <1>2, BecomeTyped DEF Count

\* Every reachable state is well typed.
THEOREM TypeCorrect == Spec => []TypeOK
<1>1. Init => TypeOK
  BY IdleTyped DEF Init, TypeOK, GroupStates, Rows, Roles
<1>2. TypeOK /\ [Next]_vars => TypeOK'
  <2> SUFFICES ASSUME TypeOK, [Next]_vars PROVE TypeOK'
    OBVIOUS
  <2> world' = world
    BY DEF Next, vars
  <2> USE DEF TypeOK
  <2>1. ASSUME NEW p \in Procs, NEW u \in Users, InsertGroup(p, u) PROVE TypeOK'
    BY <2>1, ArrivalTyped DEF InsertGroup, GroupStates
  <2>2. ASSUME NEW p \in Procs, NEW u \in Users, NEW t \in Users, NEW r \in Roles,
               AskLeave(p, u) \/ AskRemove(p, u, t) \/ AskRole(p, u, t, r)
        PROVE TypeOK'
    BY <2>2, LockedArrivalTyped
  <2>3. ASSUME NEW p \in Procs, NEW u \in Users,
               AskDelete(p, u) \/ AskInvite(p, u) \/ AskJoin(p, u)
        PROVE TypeOK'
    BY <2>3, ArrivalTyped DEF AskDelete, AskInvite, AskJoin
  <2>4. ASSUME NEW p \in Procs, Enroll(p) PROVE TypeOK'
    BY <2>4, FinishTyped DEF Enroll, Rows, Roles, GroupStates
  <2>5. ASSUME NEW p \in Procs, LockGroup(p) PROVE TypeOK'
    BY <2>5, FinishTyped, GotoTyped DEF LockGroup, InPhase, Phases, Locked
  <2>6. ASSUME NEW p \in Procs, Authorize(p) PROVE TypeOK'
    BY <2>6, FinishTyped, GotoTyped DEF Authorize, InPhase, Phases, Locked, Unlock
  <2>7. ASSUME NEW p \in Procs, CheckTarget(p) PROVE TypeOK'
    BY <2>7, FinishTyped, GotoTyped DEF CheckTarget, InPhase, Phases, Locked, Unlock
  <2>8. ASSUME NEW p \in Procs, Write(p) PROVE TypeOK'
    <3>1. Written(p) \in Rows
      BY DEF Written, ProcState, Request, Rows, Roles
    <3> QED BY <2>8, <3>1, FinishTyped DEF Write, Unlock
  <2>9. ASSUME NEW p \in Procs, DeleteGroup(p) PROVE TypeOK'
    BY <2>9, FinishTyped DEF DeleteGroup, Rows, GroupStates
  <2>10. ASSUME NEW p \in Procs, Count(p) PROVE TypeOK'
    BY <2>10, CountTyped DEF Count
  <2>11. ASSUME NEW p \in Procs, Cover(p) PROVE TypeOK'
    BY <2>11, FinishTyped, GotoTyped DEF Cover, InPhase, Phases, Locked
  <2>12. ASSUME NEW p \in Procs, CreateInvite(p) PROVE TypeOK'
    BY <2>12, FinishTyped DEF CreateInvite
  <2>13. ASSUME NEW p \in Procs, CreateMembership(p) PROVE TypeOK'
    BY <2>13, FinishTyped DEF CreateMembership, Rows, Roles
  <2>14. ASSUME NEW p \in Procs, Abort(p) PROVE TypeOK'
    BY <2>14, FinishTyped DEF Abort, Unlock
  <2>15. ASSUME NEW u \in Users, DeleteMe(u) \/ Pin(u) \/ Unpin(u) PROVE TypeOK'
    BY <2>15 DEF DeleteMe, Pin, Unpin
  <2>16. CASE ExpireInvite
    BY <2>16 DEF ExpireInvite
  <2>17. CASE UNCHANGED vars
    BY <2>17 DEF vars
  <2>18. "member" \in Roles
    BY DEF Roles
  <2> QED BY <2>1, <2>2, <2>3, <2>4, <2>5, <2>6, <2>7, <2>8, <2>9, <2>10, <2>11, <2>12,
             <2>13, <2>14, <2>15, <2>16, <2>17, <2>18 DEF Next, Act
<1> QED BY <1>1, <1>2, PTL DEF Spec

-----------------------------------------------------------------------------
(* The inductive invariant *)

\* Only the holder of the lock is past LockGroup.
Exclusive == \A p \in Procs : proc[p].pc \in Locked => lock = p

\* What a locked request has checked still holds.
Checked == \A p \in Procs :
             /\ proc[p].pc \in {"target", "write"} => Authorized(p)
             /\ proc[p].pc = "write" => TargetAllowed(p)

\* The founder's two statements: nobody is a member between them.
Founding == /\ group # "live" => Active = {}
            /\ invite # "none" => group = "live"
            /\ \A p \in Procs : proc[p].pc \in {"delete", "count", "cover", "admit"}
                                  => group \in {"live", "deleted"}
            /\ \A p \in Procs : proc[p].pc = "enroll" => group = "empty"
            /\ \A p, q \in Procs : proc[p].pc = "enroll" /\ proc[q].pc = "enroll" => p = q

IInv == TypeOK /\ Exclusive /\ Checked /\ Founding /\ AdminKept

\* A step that leaves the memberships alone keeps the facts about the
\* requests that stay where they are.
LEMMA StepKeeps ==
  ASSUME IInv, TypeOK', NEW p \in Procs,
         \A q \in Procs \ {p} : proc'[q] = proc[q],
         member' = member, group' = group, invite' = invite,
         lock' = lock \/ lock = p \/ (lock = None /\ lock' = p),
         proc'[p].pc \notin {"enroll", "target", "write"},
         proc'[p].pc \in {"delete", "count", "cover", "admit"}
            => group \in {"live", "deleted"},
         proc'[p].pc \in Locked => lock' = p
  PROVE  IInv'
<1>1. Exclusive'
  BY NoneAssumption DEF IInv, Exclusive, Locked
<1>2. Checked'
  BY DEF IInv, Checked, Authorized, TargetAllowed, Unseats, IsLastAdmin, Active, Admins
<1>3. Founding'
  BY DEF IInv, Founding, Active
<1>4. AdminKept'
  BY DEF IInv, AdminKept, Admins
<1> QED BY <1>1, <1>2, <1>3, <1>4 DEF IInv

\* While nobody holds the lock, nobody is past LockGroup, so a step that
\* needs it free disturbs no check.
LEMMA UnlockedStep ==
  ASSUME IInv, TypeOK', NEW p \in Procs, lock = None, lock' = lock,
         \A q \in Procs \ {p} : proc'[q] = proc[q],
         proc'[p].pc \notin Locked
  PROVE  Exclusive' /\ Checked'
<1>1. \A q \in Procs : proc[q].pc \notin Locked
  BY NoneAssumption DEF IInv, Exclusive
<1>2. \A q \in Procs : proc'[q].pc \notin Locked
  BY <1>1
<1> QED BY <1>2 DEF Exclusive, Checked, Locked

\* A step under the lock from one check to the next keeps everything else.
LEMMA CheckKeeps ==
  ASSUME IInv, TypeOK', NEW p \in Procs, NEW pc \in {"target", "write"},
         lock = p, UNCHANGED <<group, member, invite, lock>>,
         proc'[p] = [proc[p] EXCEPT !.pc = pc],
         \A q \in Procs \ {p} : proc'[q] = proc[q],
         Authorized(p), pc = "write" => TargetAllowed(p)
  PROVE  IInv'
<1>1. /\ proc'[p].pc = pc /\ proc'[p].op = proc[p].op
      /\ proc'[p].caller = proc[p].caller /\ proc'[p].target = proc[p].target
      /\ proc'[p].role = proc[p].role
  BY DEF IInv, TypeOK, ProcState, Request
<1>2. Exclusive'
  BY <1>1 DEF IInv, Exclusive, Locked
<1>3. UNCHANGED <<Active, Admins>>
  BY DEF Active, Admins
<1>4. Checked'
  <2>1. (Authorized(p) /\ (pc = "write" => TargetAllowed(p)))'
    BY <1>1, <1>3 DEF Authorized, TargetAllowed, Unseats, IsLastAdmin
  <2>2. ASSUME NEW q \in Procs \ {p}
        PROVE  /\ proc'[q].pc \in {"target", "write"} => Authorized(q)'
               /\ proc'[q].pc = "write" => TargetAllowed(q)'
    BY <1>3, <2>2 DEF IInv, Checked, Authorized, TargetAllowed, Unseats, IsLastAdmin
  <2> QED BY <1>1, <2>1, <2>2 DEF Checked
<1>5. Founding'
  <2>1. \A q \in Procs : proc'[q].pc = "enroll" => proc[q].pc = "enroll" /\ q # p
    BY <1>1
  <2>2. \A q \in Procs : proc'[q].pc \in {"delete", "count", "cover", "admit"}
                            => proc[q].pc = proc'[q].pc
    BY <1>1
  <2> QED BY <1>3, <2>1, <2>2 DEF IInv, Founding
<1> QED BY <1>2, <1>3, <1>4, <1>5 DEF IInv, AdminKept

\* TypeOK is inductive; the step is the one of TypeCorrect.
LEMMA InvInit == Init => IInv
<1> SUFFICES ASSUME Init PROVE IInv
  OBVIOUS
<1>1. TypeOK
  BY IdleTyped DEF Init, TypeOK, GroupStates, Rows, Roles
<1>2. \A p \in Procs : proc[p].pc = "idle"
  BY DEF Init, Idle, NewRequest
<1>3. Active = {}
  BY DEF Init, Active, Roles
<1> QED BY <1>1, <1>2, <1>3 DEF IInv, Exclusive, Checked, Founding, AdminKept, Init, Locked

LEMMA WriteKeeps ==
  ASSUME IInv, TypeOK', NEW p \in Procs, Write(p)
  PROVE  IInv'
<1>1. /\ proc' \in [Procs -> ProcState]
      /\ proc'[p].pc = "idle"
      /\ \A q \in Procs \ {p} : proc'[q] = proc[q]
  BY FinishTyped DEF Write, IInv, Idle, NewRequest
<1>2. /\ lock = p /\ lock' = None
      /\ \A q \in Procs \ {p} : proc[q].pc \notin Locked
  BY NoneAssumption DEF Write, IInv, Exclusive, Locked, Unlock, InPhase
<1>3. Exclusive' /\ Checked'
  BY <1>1, <1>2 DEF Exclusive, Checked, Locked
<1> DEFINE t == proc[p].target
<1>4. /\ t \in Active
      /\ Unseats(p) => ~IsLastAdmin(t)
  BY DEF IInv, Checked, TargetAllowed, Write, InPhase
<1>5. group = "live" /\ group' = "live"
  BY <1>4 DEF IInv, Founding, Write
<1>6. Founding'
  BY <1>1, <1>5 DEF IInv, Founding
<1>7. AdminKept'
  <2>1. t \in Users /\ proc[p].role \in Roles /\ proc[p].op \in LockedOps
    BY DEF IInv, TypeOK, ProcState, Request, Write, InPhase, Locked
  <2>2. member' = [member EXCEPT ![t] = Written(p)]
    BY <1>4 DEF Write
  <2>3. CASE Unseats(p)
    <3>1. PICK v \in Admins : v # t
      BY <1>4, <1>5, <2>3 DEF IInv, AdminKept, IsLastAdmin
    <3>2. v \in Admins'
      BY <2>1, <2>2, <3>1 DEF IInv, TypeOK, Admins
    <3> QED BY <3>2 DEF AdminKept
  <2>4. CASE ~Unseats(p)
    <3>1. Written(p) = "admin"
      BY <2>1, <2>4 DEF Unseats, Written, Roles
    <3>2. t \in Admins'
      BY <2>1, <2>2, <3>1 DEF IInv, TypeOK, Admins
    <3> QED BY <3>2 DEF AdminKept
  <2> QED BY <2>3, <2>4
<1> QED BY <1>3, <1>6, <1>7 DEF IInv

\* Joining never touches an admin, so it disturbs no check under the lock.
LEMMA JoinKeeps ==
  ASSUME IInv, TypeOK', NEW p \in Procs, CreateMembership(p)
  PROVE  IInv'
<1>1. /\ proc'[p].pc = "idle"
      /\ \A q \in Procs \ {p} : proc'[q] = proc[q]
  BY FinishTyped DEF CreateMembership, IInv, Idle, NewRequest
<1>2. group' = group /\ lock' = lock /\ invite' = invite
  BY DEF CreateMembership
<1>3. Admins' = Admins /\ Active \subseteq Active'
  BY DEF CreateMembership, Admins, Active, IInv, TypeOK, Roles
<1>4. group # "live" => Active' = {}
  <2>1. group \in {"live", "deleted"}
    BY DEF CreateMembership, InPhase, IInv, Founding
  <2> QED BY <2>1 DEF CreateMembership, IInv, Founding, Active, GroupExists
<1>5. Exclusive'
  BY <1>1, <1>2 DEF IInv, Exclusive, Locked
<1>6. Checked'
  BY <1>1, <1>3 DEF IInv, Checked, Authorized, TargetAllowed, Unseats, IsLastAdmin
<1>7. Founding' /\ AdminKept'
  BY <1>1, <1>2, <1>3, <1>4 DEF IInv, Founding, AdminKept
<1> QED BY <1>5, <1>6, <1>7 DEF IInv

\* The invariant is inductive: one step per action.
LEMMA InvStep == IInv /\ TypeOK' /\ [Next]_vars => IInv'
<1> SUFFICES ASSUME IInv, TypeOK', [Next]_vars PROVE IInv'
  OBVIOUS
<1>0. TypeOK /\ \A q \in Procs : proc'[q] \in ProcState
  BY DEF IInv, TypeOK
<1> USE DEF InPhase
<1>1. ASSUME NEW p \in Procs, NEW u \in Users, InsertGroup(p, u) PROVE IInv'
  <2>1. /\ proc'[p].pc = "enroll"
        /\ \A q \in Procs \ {p} : proc'[q] = proc[q]
    <3>1. Become(p, NewRequest("enroll", "create", u, None, "member"))
      BY <1>1 DEF InsertGroup
    <3>2. /\ proc'[p] = NewRequest("enroll", "create", u, None, "member")
          /\ \A q \in Procs \ {p} : proc'[q] = proc[q]
      BY <3>1, <1>0, ArrivalTyped
    <3> QED BY <3>2 DEF NewRequest
  <2>2. /\ group = "none" /\ group' = "empty"
        /\ UNCHANGED <<member, invite, lock>>
    BY <1>1 DEF InsertGroup
  <2>3. Exclusive' /\ Checked'
    BY <2>1, <2>2 DEF IInv, Exclusive, Checked, Locked, Authorized, TargetAllowed, Unseats,
                      IsLastAdmin, Active, Admins
  <2>4. Founding' /\ AdminKept'
    BY <2>1, <2>2 DEF IInv, Founding, AdminKept, Active
  <2> QED BY <2>3, <2>4 DEF IInv
<1>2. ASSUME NEW p \in Procs, NEW u \in Users, NEW t \in Users, NEW r \in Roles,
             AskLeave(p, u) \/ AskRemove(p, u, t) \/ AskRole(p, u, t, r)
      PROVE IInv'
  BY <1>2, <1>0, LockedArrivalTyped, StepKeeps DEF Locked
<1>3. ASSUME NEW p \in Procs, NEW u \in Users,
             AskDelete(p, u) \/ AskInvite(p, u) \/ AskJoin(p, u)
      PROVE IInv'
  <2>1. /\ proc'[p].pc \in {"delete", "count"}
        /\ \A q \in Procs \ {p} : proc'[q] = proc[q]
        /\ UNCHANGED <<group, member, invite, lock>>
    <3>1. PICK pc \in {"count", "delete"}, op \in {"delete", "invite", "join"} :
            Become(p, NewRequest(pc, op, u, None, "member"))
      BY <1>3 DEF AskDelete, AskInvite, AskJoin
    <3>2. /\ proc'[p] = NewRequest(pc, op, u, None, "member")
          /\ \A q \in Procs \ {p} : proc'[q] = proc[q]
      BY <3>1, <1>0, ArrivalTyped
    <3>3. UNCHANGED <<group, member, invite, lock>>
      BY <1>3 DEF AskDelete, AskInvite, AskJoin
    <3> QED BY <3>2, <3>3 DEF NewRequest
  <2>2. group = "live"
    BY <1>3 DEF AskDelete, AskInvite, AskJoin, IInv, Founding, Active, Admins, Roles
  <2> QED BY <2>1, <2>2, StepKeeps DEF Locked
<1>4. ASSUME NEW p \in Procs, Enroll(p) PROVE IInv'
  <2>1. /\ proc'[p].pc = "idle"
        /\ \A q \in Procs \ {p} : proc'[q] = proc[q]
    BY <1>4, <1>0, FinishTyped DEF Enroll, Idle, NewRequest
  <2>2. Exclusive' /\ Checked'
    BY <1>4, <2>1, UnlockedStep DEF Enroll, Locked
  <2>3. group = "empty" /\ group' = "live" /\ invite' = invite
    BY <1>4 DEF Enroll, IInv, Founding
  <2>4. \A q \in Procs : proc'[q].pc # "enroll"
    BY <1>4, <2>1 DEF Enroll, IInv, Founding
  <2>5. AdminKept'
    <3>1. proc[p].caller \in Users
      BY <1>4, <1>0 DEF Enroll, TypeOK, ProcState
    <3> QED BY <1>4, <1>0, <3>1 DEF Enroll, AdminKept, Admins, TypeOK
  <2> QED BY <2>1, <2>2, <2>3, <2>4, <2>5 DEF IInv, Founding
<1>5. ASSUME NEW p \in Procs, LockGroup(p) PROVE IInv'
  <2>1. CASE GroupExists
    <3>1. Goto(p, "authorize") /\ lock = None /\ lock' = p
          /\ UNCHANGED <<group, member, invite>> /\ proc[p].pc = "lock"
      BY <1>5, <2>1 DEF LockGroup
    <3>2. /\ proc'[p].pc = "authorize"
          /\ \A q \in Procs \ {p} : proc'[q] = proc[q]
      BY <3>1, <1>0, GotoTyped DEF Phases, Locked, TypeOK, ProcState, Request
    <3> QED BY <3>1, <3>2, StepKeeps
  <2>2. CASE ~GroupExists
    BY <1>5, <2>2, <1>0, FinishTyped, StepKeeps DEF LockGroup, Idle, NewRequest, Locked
  <2> QED BY <2>1, <2>2
<1>6. ASSUME NEW p \in Procs, Authorize(p) PROVE IInv'
  <2>0. lock = p /\ UNCHANGED <<group, member, invite>>
    BY <1>6 DEF Authorize, IInv, Exclusive, Locked
  <2>1. CASE Authorized(p)
    <3>1. /\ proc'[p] = [proc[p] EXCEPT !.pc = "target"]
          /\ \A q \in Procs \ {p} : proc'[q] = proc[q]
          /\ lock' = lock
      BY <1>6, <2>1, <1>0, GotoTyped DEF Authorize, Phases, Locked
    <3> QED BY <2>0, <2>1, <3>1, CheckKeeps
  <2>2. CASE ~Authorized(p)
    BY <1>6, <2>0, <2>2, <1>0, FinishTyped, StepKeeps
       DEF Authorize, Unlock, Idle, NewRequest, Locked
  <2> QED BY <2>1, <2>2
<1>7. ASSUME NEW p \in Procs, CheckTarget(p) PROVE IInv'
  <2>0. lock = p /\ UNCHANGED <<group, member, invite>>
    BY <1>7 DEF CheckTarget, IInv, Exclusive, Locked
  <2>1. CASE TargetAllowed(p)
    <3>1. /\ proc'[p] = [proc[p] EXCEPT !.pc = "write"]
          /\ \A q \in Procs \ {p} : proc'[q] = proc[q]
          /\ lock' = lock
      BY <1>7, <2>1, <1>0, GotoTyped DEF CheckTarget, Phases, Locked
    <3>2. Authorized(p)
      BY <1>7 DEF CheckTarget, IInv, Checked
    <3> QED BY <2>0, <2>1, <3>1, <3>2, CheckKeeps
  <2>2. CASE ~TargetAllowed(p)
    BY <1>7, <2>0, <2>2, <1>0, FinishTyped, StepKeeps
       DEF CheckTarget, Unlock, Idle, NewRequest, Locked
  <2> QED BY <2>1, <2>2
<1>8. ASSUME NEW p \in Procs, Write(p) PROVE IInv'
  BY <1>8, WriteKeeps
<1>9. ASSUME NEW p \in Procs, DeleteGroup(p) PROVE IInv'
  <2>1. /\ proc'[p].pc = "idle"
        /\ \A q \in Procs \ {p} : proc'[q] = proc[q]
    BY <1>9, <1>0, FinishTyped DEF DeleteGroup, Idle, NewRequest
  <2>2. CASE GroupExists
    <3>1. Exclusive' /\ Checked'
      BY <1>9, <2>1, UnlockedStep DEF DeleteGroup, Locked
    <3>2. /\ group' = "deleted" /\ invite' = "none"
          /\ member' = [u \in Users |-> "never"] /\ group = "live"
      BY <1>9, <2>2 DEF DeleteGroup, IInv, Founding, GroupExists
    <3>3. Active' = {}
      BY <3>2 DEF Active, Roles
    <3> QED BY <2>1, <3>1, <3>2, <3>3 DEF IInv, Founding, AdminKept
  <2>3. CASE ~GroupExists
    BY <1>9, <2>1, <2>3, StepKeeps DEF DeleteGroup, Locked
  <2> QED BY <2>2, <2>3
<1>10. ASSUME NEW p \in Procs, Count(p) PROVE IInv'
  <2>1. /\ proc'[p].pc = "cover"
        /\ \A q \in Procs \ {p} : proc'[q] = proc[q]
    BY <1>10, <1>0, CountTyped DEF TypeOK, ProcState, Request
  <2>2. group \in {"live", "deleted"} /\ UNCHANGED <<group, member, invite, lock>>
    BY <1>10 DEF Count, IInv, Founding
  <2> QED BY <2>1, <2>2, StepKeeps DEF Locked
<1>11. ASSUME NEW p \in Procs, Cover(p) PROVE IInv'
  <2>1. group \in {"live", "deleted"} /\ UNCHANGED <<group, member, invite, lock>>
    BY <1>11 DEF Cover, IInv, Founding
  <2>2. CASE Goto(p, "admit")
    <3>1. /\ proc'[p].pc = "admit"
          /\ \A q \in Procs \ {p} : proc'[q] = proc[q]
      BY <1>11, <1>0, <2>2, GotoTyped DEF Cover, Phases, Locked, TypeOK, ProcState, Request
    <3> QED BY <2>1, <3>1, StepKeeps DEF Locked
  <2>3. CASE Finish(p)
    BY <2>1, <2>3, <1>0, FinishTyped, StepKeeps DEF Idle, NewRequest, Locked
  <2> QED BY <1>11, <2>2, <2>3 DEF Cover
<1>12. ASSUME NEW p \in Procs, CreateInvite(p) PROVE IInv'
  <2>1. /\ proc'[p].pc = "idle"
        /\ \A q \in Procs \ {p} : proc'[q] = proc[q]
    BY <1>12, <1>0, FinishTyped DEF CreateInvite, Idle, NewRequest
  <2>2. Exclusive' /\ Checked'
    BY <1>12, <2>1, UnlockedStep DEF CreateInvite, Locked
  <2>3. UNCHANGED <<group, member>> /\ group \in {"live", "deleted"}
    BY <1>12 DEF CreateInvite, IInv, Founding
  <2>4. Founding'
    BY <1>12, <2>1, <2>3 DEF CreateInvite, IInv, Founding, Active, GroupExists
  <2> QED BY <2>2, <2>3, <2>4 DEF IInv, AdminKept, Admins
<1>13. ASSUME NEW p \in Procs, CreateMembership(p) PROVE IInv'
  BY <1>13, JoinKeeps
<1>14. ASSUME NEW p \in Procs, Abort(p) PROVE IInv'
  BY <1>14, <1>0, FinishTyped, StepKeeps DEF Abort, Unlock, Idle, NewRequest, Locked
<1>15. ASSUME \/ UNCHANGED vars \/ ExpireInvite
              \/ \E u \in Users : DeleteMe(u) \/ Pin(u) \/ Unpin(u)
       PROVE IInv'
  <2>1. /\ UNCHANGED <<group, member, lock, proc>>
        /\ invite' # "none" => invite # "none"
    BY <1>15 DEF vars, ExpireInvite, DeleteMe, Pin, Unpin
  <2> QED BY <2>1 DEF IInv, Exclusive, Checked, Authorized, TargetAllowed, Unseats, IsLastAdmin,
                      Active, Admins, Founding, AdminKept
<1>16. "member" \in Roles
  BY DEF Roles
<1> QED BY <1>1, <1>2, <1>3, <1>4, <1>5, <1>6, <1>7, <1>8, <1>9, <1>10, <1>11, <1>12,
           <1>13, <1>14, <1>15, <1>16 DEF Next, Act

LEMMA Invariance == Spec => []IInv
<1>1. IInv /\ TypeOK' /\ [Next]_vars => IInv'
  BY InvStep
<1> QED BY <1>1, InvInit, TypeCorrect, PTL DEF Spec

\* A household that got its first admin has one until it is deleted.
THEOREM AnAdminRemains == Spec => []AdminKept
<1>1. IInv => AdminKept
  BY DEF IInv
<1> QED BY <1>1, Invariance, PTL

\* Whoever is promoted is promoted by someone who is an admin at that moment.
THEOREM PromotersAreAdmins == Spec => PromotionByAdmin
<1> DEFINE Step == \A u \in Users :
         (group = "live" /\ u \notin Admins /\ member'[u] = "admin") =>
            \E p \in Procs : /\ InPhase(p, "write") /\ proc'[p] = Idle
                             /\ proc[p].target = u
                             /\ proc[p].caller \in Admins
<1>1. IInv /\ [Next]_vars => [Step]_vars
  <2> SUFFICES ASSUME IInv, Next, NEW u \in Users, group = "live", u \notin Admins,
                      member'[u] = "admin"
               PROVE  \E p \in Procs : /\ InPhase(p, "write") /\ proc'[p] = Idle
                                       /\ proc[p].target = u
                                       /\ proc[p].caller \in Admins
    BY DEF vars
  <2>1. PICK p \in Procs : Enroll(p) \/ Write(p) \/ DeleteGroup(p) \/ CreateMembership(p)
    BY DEF Next, Act, Admins, InsertGroup, AskLeave, AskDelete, AskInvite, AskJoin, AskRemove,
           AskRole, LockGroup, Authorize, CheckTarget, Count, Cover, CreateInvite, Abort,
           DeleteMe, Pin, Unpin, ExpireInvite
  <2>2. ~Enroll(p)
    BY DEF Enroll, IInv, Founding, InPhase
  <2>3. ~DeleteGroup(p)
    BY DEF DeleteGroup, Admins
  <2>4. ~CreateMembership(p)
    BY DEF CreateMembership, Admins, IInv, TypeOK
  <2>5. Write(p)
    BY <2>1, <2>2, <2>3, <2>4
  <2>6. proc[p].target = u /\ proc[p].op = "role"
    BY <2>5 DEF Write, Written, Admins, IInv, TypeOK, Become, Finish
  <2>7. proc[p].caller \in Admins
    BY <2>5, <2>6 DEF Write, IInv, Checked, Authorized, InPhase
  <2>8. InPhase(p, "write") /\ proc'[p] = Idle
    BY <2>5, FinishTyped DEF Write, IInv
  <2> QED BY <2>6, <2>7, <2>8
<1> QED BY <1>1, Invariance, PTL DEF Spec, PromotionByAdmin

\* Nobody is removed by someone who is no longer a member.
THEOREM RemoversAreMembers == Spec => RemovalByMember
<1> DEFINE Step == \A u \in Active :
         member'[u] = "left" =>
            \E p \in Procs : /\ InPhase(p, "write") /\ proc'[p] = Idle
                             /\ proc[p].target = u
                             /\ proc[p].caller \in Active
<1>1. IInv /\ [Next]_vars => [Step]_vars
  <2> SUFFICES ASSUME IInv, Next, NEW u \in Active, member'[u] = "left"
               PROVE  \E p \in Procs : /\ InPhase(p, "write") /\ proc'[p] = Idle
                                       /\ proc[p].target = u
                                       /\ proc[p].caller \in Active
    BY DEF vars
  <2>0. u \in Users /\ member[u] # "left"
    BY DEF Active, Roles
  <2>1. PICK p \in Procs : Enroll(p) \/ Write(p) \/ DeleteGroup(p) \/ CreateMembership(p)
    BY <2>0 DEF Next, Act, InsertGroup, AskLeave, AskDelete, AskInvite, AskJoin, AskRemove,
           AskRole, LockGroup, Authorize, CheckTarget, Count, Cover, CreateInvite, Abort,
           DeleteMe, Pin, Unpin, ExpireInvite
  <2>2. Write(p)
    BY <2>0, <2>1 DEF Enroll, DeleteGroup, CreateMembership, IInv, TypeOK
  <2>3. proc[p].target = u /\ Written(p) = "left"
    BY <2>0, <2>2 DEF Write, IInv, TypeOK
  <2>4. /\ proc[p] \in ProcState /\ proc[p].pc = "write"
    BY <2>2 DEF Write, InPhase, IInv, TypeOK
  <2>5. proc[p].op \in {"leave", "remove"}
    BY <2>3, <2>4 DEF Written, ProcState, Request, Roles, LockedOps, Locked
  <2>6. proc[p].caller \in Active
    BY <2>3, <2>4, <2>5 DEF IInv, Checked, Authorized, ProcState, Locked
  <2>7. proc'[p] = Idle
    BY <2>2, FinishTyped DEF Write, IInv
  <2> QED BY <2>3, <2>4, <2>6, <2>7 DEF InPhase
<1> QED BY <1>1, Invariance, PTL DEF Spec, RemovalByMember

-----------------------------------------------------------------------------
(* The free limit *)

\* The joins that have passed the gate, or will because they saw room.
Admitted == {p \in Procs : /\ proc[p].op = "join"
                           /\ \/ proc[p].pc = "admit"
                              \/ proc[p].pc = "cover" /\ proc[p].room}

\* Whoever passed the gate has been counted against the limit before.
Bounded == Cardinality(Active) + Cardinality(Admitted) <= FreeLimit - 1 + Cardinality(Procs)

LEMMA Finite ==
  /\ IsFiniteSet(Active) /\ Cardinality(Active) \in Nat
  /\ IsFiniteSet(Admitted) /\ Cardinality(Admitted) \in Nat
  /\ Cardinality(Admitted) <= Cardinality(Procs)
  /\ IsFiniteSet(Procs) /\ Cardinality(Procs) \in Nat /\ Cardinality(Procs) >= 1
<1>1. Active \subseteq Users /\ Admitted \subseteq Procs
  BY DEF Active, Admitted
<1>2. Cardinality(Procs) # 0
  BY FiniteAssumption, FS_EmptySet
<1> QED BY <1>1, <1>2, FiniteAssumption, FS_Subset, FS_CardinalityType

\* A step that admits nobody and adds nobody keeps the bound.
LEMMA ShrinkBounded ==
  ASSUME Bounded, Active' \subseteq Active, Admitted' \subseteq Admitted
  PROVE  Bounded'
<1>1. /\ Cardinality(Active') <= Cardinality(Active) /\ Cardinality(Active') \in Nat
      /\ Cardinality(Admitted') <= Cardinality(Admitted) /\ Cardinality(Admitted') \in Nat
  BY Finite, FS_Subset, FS_CardinalityType
<1> QED BY <1>1, Finite, LimitAssumption DEF Bounded

\* A request that leaves the gate, or is refused, or does something else.
LEMMA AdmittedShrinks ==
  ASSUME NEW p \in Procs, \A q \in Procs \ {p} : proc'[q] = proc[q],
         p \in Admitted' => p \in Admitted
  PROVE  Admitted' \subseteq Admitted
BY DEF Admitted

LEMMA BoundedStep ==
  ASSUME world.payers = {}, IInv, Bounded, [Next]_vars
  PROVE  Bounded'
<1>0. TypeOK
  BY DEF IInv
<1> USE DEF InPhase
<1>1. ASSUME NEW p \in Procs, NEW u \in Users, InsertGroup(p, u) PROVE Bounded'
  <2>1. Become(p, NewRequest("enroll", "create", u, None, "member")) /\ Active' = Active
    BY <1>1 DEF InsertGroup, Active
  <2>2. /\ proc'[p] = NewRequest("enroll", "create", u, None, "member")
        /\ \A q \in Procs \ {p} : proc'[q] = proc[q]
    BY <2>1, <1>0, ArrivalTyped
  <2>3. p \notin Admitted'
    BY <2>2 DEF Admitted, NewRequest
  <2> QED BY <2>1, <2>2, <2>3, AdmittedShrinks, ShrinkBounded
<1>2. ASSUME NEW p \in Procs, NEW u \in Users, NEW t \in Users, NEW r \in Roles,
             AskLeave(p, u) \/ AskRemove(p, u, t) \/ AskRole(p, u, t, r)
      PROVE Bounded'
  <2>1. /\ proc'[p].pc = "lock" /\ Active' = Active
        /\ \A q \in Procs \ {p} : proc'[q] = proc[q]
    BY <1>2, <1>0, LockedArrivalTyped DEF Active
  <2>2. p \notin Admitted'
    BY <2>1 DEF Admitted
  <2> QED BY <2>1, <2>2, AdmittedShrinks, ShrinkBounded
<1>3. ASSUME NEW p \in Procs, NEW u \in Users,
             AskDelete(p, u) \/ AskInvite(p, u) \/ AskJoin(p, u)
      PROVE Bounded'
  <2>1. PICK pc \in {"count", "delete"}, op \in {"delete", "invite", "join"} :
          Become(p, NewRequest(pc, op, u, None, "member"))
    BY <1>3 DEF AskDelete, AskInvite, AskJoin
  <2>2. /\ proc'[p] = NewRequest(pc, op, u, None, "member")
        /\ \A q \in Procs \ {p} : proc'[q] = proc[q]
    BY <2>1, <1>0, ArrivalTyped
  <2>3. p \notin Admitted'
    BY <2>2 DEF Admitted, NewRequest
  <2>4. Active' = Active
    BY <1>3 DEF AskDelete, AskInvite, AskJoin, Active
  <2> QED BY <2>2, <2>3, <2>4, AdmittedShrinks, ShrinkBounded
<1>4. ASSUME NEW p \in Procs, Finish(p), Active' \subseteq Active PROVE Bounded'
  <2>1. /\ proc'[p].pc = "idle"
        /\ \A q \in Procs \ {p} : proc'[q] = proc[q]
    BY <1>4, <1>0, FinishTyped DEF Idle, NewRequest
  <2>2. p \notin Admitted'
    BY <2>1 DEF Admitted
  <2> QED BY <1>4, <2>1, <2>2, AdmittedShrinks, ShrinkBounded
<1>5. ASSUME NEW p \in Procs, NEW pc \in {"authorize", "target", "write"}, Goto(p, pc),
             proc[p].pc \in Locked \cup {"lock"}, Active' = Active
      PROVE Bounded'
  <2>1. /\ proc'[p] = [proc[p] EXCEPT !.pc = pc]
        /\ \A q \in Procs \ {p} : proc'[q] = proc[q]
    BY <1>5, <1>0, GotoTyped DEF Phases, Locked
  <2>2. p \notin Admitted'
    <3>1. proc'[p].pc = pc
      BY <2>1, <1>0 DEF TypeOK, ProcState, Request
    <3> QED BY <3>1 DEF Admitted
  <2> QED BY <1>5, <2>1, <2>2, AdmittedShrinks, ShrinkBounded
<1>6. ASSUME NEW p \in Procs, LockGroup(p) \/ Authorize(p) \/ CheckTarget(p) PROVE Bounded'
  <2>1. Active' = Active /\ proc[p].pc \in Locked \cup {"lock"}
    BY <1>6 DEF LockGroup, Authorize, CheckTarget, Active, Locked
  <2>2. Finish(p) \/ \E pc \in {"authorize", "target", "write"} : Goto(p, pc)
    BY <1>6 DEF LockGroup, Authorize, CheckTarget
  <2> QED BY <2>1, <2>2, <1>4, <1>5
<1>7. ASSUME NEW p \in Procs, Write(p) \/ DeleteGroup(p) \/ CreateInvite(p) \/ Abort(p)
      PROVE Bounded'
  <2>1. Finish(p)
    BY <1>7 DEF Write, DeleteGroup, CreateInvite, Abort
  <2>2. Active' \subseteq Active
    BY <1>7, <1>0 DEF Write, DeleteGroup, CreateInvite, Abort, Active, TypeOK, Roles
  <2> QED BY <2>1, <2>2, <1>4
<1>8. ASSUME NEW p \in Procs, Enroll(p) PROVE Bounded'
  <2>1. Active = {}
    BY <1>8 DEF Enroll, IInv, Founding
  <2>2. Active' \subseteq {proc[p].caller}
    BY <1>8, <2>1, <1>0 DEF Enroll, Active, TypeOK
  <2>3. Cardinality(Active') <= 1
    <3>1. /\ IsFiniteSet({proc[p].caller})
          /\ Cardinality({proc[p].caller}) = 1
      BY FS_Singleton
    <3>2. Cardinality(Active') <= Cardinality({proc[p].caller})
      BY <2>2, <3>1, FS_Subset
    <3> QED BY <3>1, <3>2
  <2>4. /\ proc'[p].pc = "idle"
        /\ \A q \in Procs \ {p} : proc'[q] = proc[q]
    BY <1>8, <1>0, FinishTyped DEF Enroll, Idle, NewRequest
  <2>5. Admitted' \subseteq Procs \ {p}
    BY <2>4 DEF Admitted
  <2>6. /\ IsFiniteSet(Procs \ {p})
        /\ Cardinality(Procs \ {p}) = Cardinality(Procs) - 1
    BY Finite, FS_RemoveElement
  <2>7. Cardinality(Admitted') <= Cardinality(Procs) - 1
    BY <2>5, <2>6, FS_Subset
  <2>8. Cardinality(Active') \in Nat /\ Cardinality(Admitted') \in Nat
    BY <2>2, <2>5, <2>6, FS_Singleton, FS_Subset, FS_CardinalityType
  <2> QED BY <2>3, <2>7, <2>8, Finite, LimitAssumption DEF Bounded
<1>9. ASSUME NEW p \in Procs, Count(p) PROVE Bounded'
  <2>1. /\ proc'[p] = [proc[p] EXCEPT !.pc = "cover", !.room = HasRoom]
        /\ \A q \in Procs \ {p} : proc'[q] = proc[q]
        /\ Active' = Active
    BY <1>9, <1>0, CountTyped DEF Count, Active
  <2>2. CASE HasRoom
    <3>1. Cardinality(Active') <= FreeLimit - 1 /\ Cardinality(Active') \in Nat
      BY <2>1, <2>2, Finite, LimitAssumption DEF HasRoom
    <3>2. Admitted' \subseteq Procs
      BY DEF Admitted
    <3>3. Cardinality(Admitted') <= Cardinality(Procs) /\ Cardinality(Admitted') \in Nat
      BY <3>2, FiniteAssumption, FS_Subset, FS_CardinalityType
    <3> QED BY <3>1, <3>3, Finite, LimitAssumption DEF Bounded
  <2>3. CASE ~HasRoom
    <3>1. proc'[p].pc = "cover" /\ ~proc'[p].room
      BY <2>1, <2>3, <1>0 DEF TypeOK, ProcState, Request
    <3>2. p \notin Admitted'
      BY <3>1 DEF Admitted
    <3> QED BY <2>1, <3>2, AdmittedShrinks, ShrinkBounded
  <2> QED BY <2>2, <2>3
<1>10. ASSUME NEW p \in Procs, Cover(p) PROVE Bounded'
  <2>1. ~Covered /\ Active' = Active
    BY <1>10, <1>0 DEF Cover, Covered, Active, TypeOK
  <2>2. CASE proc[p].room
    <3>1. Goto(p, "admit") /\ proc[p].pc = "cover"
      BY <1>10, <2>2 DEF Cover
    <3>2. /\ proc'[p] = [proc[p] EXCEPT !.pc = "admit"]
          /\ \A q \in Procs \ {p} : proc'[q] = proc[q]
      BY <3>1, <1>0, GotoTyped DEF Phases, Locked
    <3>3. proc'[p].op = proc[p].op
      BY <3>2, <1>0 DEF TypeOK, ProcState, Request
    <3>4. p \in Admitted' => p \in Admitted
      BY <2>2, <3>1, <3>3 DEF Admitted
    <3> QED BY <2>1, <3>2, <3>4, AdmittedShrinks, ShrinkBounded
  <2>3. CASE ~proc[p].room
    BY <1>10, <2>1, <2>3, <1>4 DEF Cover
  <2> QED BY <2>2, <2>3
<1>11. ASSUME NEW p \in Procs, CreateMembership(p) PROVE Bounded'
  <2>1. p \in Admitted
    <3>1. proc[p].op = "join" /\ proc[p].pc = "admit"
      BY <1>11 DEF CreateMembership
    <3> QED BY <3>1 DEF Admitted
  <2>2. /\ proc'[p].pc = "idle"
        /\ \A q \in Procs \ {p} : proc'[q] = proc[q]
    BY <1>11, <1>0, FinishTyped DEF CreateMembership, Idle, NewRequest
  <2>3. Admitted' = Admitted \ {p}
    BY <2>2 DEF Admitted
  <2>4. Active' \subseteq Active \cup {proc[p].caller}
    BY <1>11, <1>0 DEF CreateMembership, Active, TypeOK
  <2>5. /\ IsFiniteSet(Active \cup {proc[p].caller})
        /\ Cardinality(Active \cup {proc[p].caller}) <= Cardinality(Active) + 1
        /\ Cardinality(Active \cup {proc[p].caller}) \in Nat
    <3>1. CASE proc[p].caller \in Active
      <4>1. Active \cup {proc[p].caller} = Active
        BY <3>1
      <4> QED BY <4>1, Finite
    <3>2. CASE proc[p].caller \notin Active
      <4> DEFINE c == proc[p].caller
      <4>1. /\ IsFiniteSet(Active \cup {c})
            /\ Cardinality(Active \cup {c}) = Cardinality(Active) + 1
        <5> HIDE DEF c
        <5>1. c \notin Active
          BY <3>2 DEF c
        <5> QED BY <5>1, Finite, FS_AddElement
      <4> QED BY <4>1, Finite
    <3> QED BY <3>1, <3>2
  <2>6. Cardinality(Active') <= Cardinality(Active) + 1 /\ Cardinality(Active') \in Nat
    <3>1. /\ Cardinality(Active') <= Cardinality(Active \cup {proc[p].caller})
          /\ Cardinality(Active') \in Nat
      BY <2>4, <2>5, FS_Subset, FS_CardinalityType
    <3> QED BY <3>1, <2>5, Finite
  <2>7. Cardinality(Admitted') = Cardinality(Admitted) - 1
    BY <2>1, <2>3, Finite, FS_RemoveElement
  <2> QED BY <2>6, <2>7, Finite, LimitAssumption DEF Bounded
<1>12. ASSUME \/ UNCHANGED vars \/ ExpireInvite
              \/ \E u \in Users : DeleteMe(u) \/ Pin(u) \/ Unpin(u)
       PROVE Bounded'
  <2>1. UNCHANGED <<member, proc>>
    BY <1>12 DEF vars, ExpireInvite, DeleteMe, Pin, Unpin
  <2> QED BY <2>1 DEF Bounded, Active, Admitted
<1>13. "member" \in Roles
  BY DEF Roles
<1> QED BY <1>1, <1>2, <1>3, <1>6, <1>7, <1>8, <1>9, <1>10, <1>11, <1>12, <1>13 DEF Next, Act

\* A household that nobody pays for outgrows its free limit by less than the
\* number of requests in flight.
THEOREM OvershootIsBounded == Spec => []OvershootBounded
<1>1. Init => Bounded
  <2> SUFFICES ASSUME Init PROVE Bounded
    OBVIOUS
  <2>1. Active = {} /\ Admitted = {}
    BY DEF Init, Active, Admitted, Roles, Idle, NewRequest
  <2> QED BY <2>1, FS_EmptySet, Finite, LimitAssumption DEF Bounded
<1>2. IInv /\ (world.payers = {} => Bounded) /\ [Next]_vars
          => (world.payers = {} => Bounded)'
  <2> SUFFICES ASSUME IInv, world'.payers = {}, world.payers = {} => Bounded, [Next]_vars PROVE Bounded'
    OBVIOUS
  <2>1. world.payers = {}
    BY DEF Next, vars
  <2> QED BY <2>1, BoundedStep
<1>3. (world.payers = {} => Bounded) => OvershootBounded
  BY Finite, LimitAssumption DEF Bounded, OvershootBounded
<1> QED BY <1>1, <1>2, <1>3, Invariance, PTL DEF Spec

-----------------------------------------------------------------------------
(* The sessions of an account. *)

\* The row that gets the next session is a free one.
LEMMA NextSession ==
  ASSUME Stored # Sids
  PROVE  Min(Sids \ Stored) \in Sids \ Stored
<1>1. Sids \ Stored \subseteq Nat /\ Sids \ Stored # {}
  BY DEF Sids, Stored
<1> QED BY <1>1, LeastNat

\* At and its kin change the request of one worker.
LEMMA AtFrame ==
  ASSUME SessionsTypeOK, NEW w \in Workers, NEW j, At(w, j)
  PROVE  /\ work'[w] = j
         /\ \A v \in Workers : v # w => work'[v] = work[v]
         /\ j \in WorkType => work' \in [Workers -> WorkType]
BY DEF SessionsTypeOK, At

\* The ways of writing a request, as one.
LEMMA ContinueIsAt ==
  ASSUME SessionsTypeOK, NEW w \in Workers, NEW p, Continue(w, p)
  PROVE  At(w, [work[w] EXCEPT !.pc = p])
BY DEF SessionsTypeOK, At, Continue

LEMMA NoWorkTyped ==
  /\ NoWork \in WorkType
  /\ Registered \in UserType /\ Guest \in UserType /\ Tombstone \in UserType
<1>1. 0 \in 0..MaxPasswords /\ 1 \in 0..MaxPasswords /\ 1 \in Sids
  BY SessionsAssumption DEF Sids
<1>2. Registered \in UserType /\ Guest \in UserType /\ Tombstone \in UserType
  BY <1>1 DEF Registered, Guest, Tombstone, UserType, NoPassword
<1> QED BY <1>1, <1>2 DEF NoWork, WorkType

\* The numbers the actions write.
LEMMA Numbers ==
  /\ NoPassword \in 0..MaxPasswords /\ 1 \in 0..MaxPasswords /\ 1 \in Sids
  /\ \A n \in 0..MaxPasswords : n < MaxPasswords => n + 1 \in 0..MaxPasswords
BY SessionsAssumption DEF NoPassword, Sids

\* A session that ends keeps its type.
LEMMA EndedTyped ==
  ASSUME NEW s \in SessionType, NEW st \in {"none", "live", "revoked", "gone"}
  PROVE  [s EXCEPT !.st = st, !.pw = NoPassword] \in SessionType
BY Numbers DEF SessionType

\* A revocation keeps the type of the sessions.
LEMMA RevokedTyped ==
  ASSUME SessionsTypeOK, NEW S, Revoked(S)
  PROVE  sess' \in [Sids -> SessionType]
BY EndedTyped DEF SessionsTypeOK, Revoked

LEMMA RetiredTyped ==
  ASSUME SessionsTypeOK, NEW S, Retired(S)
  PROVE  sess' \in [Sids -> SessionType] /\ user' \in UserType /\ reset' \in BOOLEAN /\ verify' \in BOOLEAN
BY EndedTyped, NoWorkTyped DEF SessionsTypeOK, Retired

LEMMA ExcusedTyped ==
  ASSUME SessionsTypeOK, NEW S, Excused(S)
  PROVE  excused' \subseteq Sids
BY DEF SessionsTypeOK, Excused, Live

\* Every reachable state is well typed.
THEOREM SessionsTypeCorrect == SessionsSpec => []SessionsTypeOK
<1> USE SessionsAssumption
<1>1. SessionsInit => SessionsTypeOK
  <2> SUFFICES ASSUME SessionsInit PROVE SessionsTypeOK
    OBVIOUS
  <2>1. user \in UserType /\ user.pw \in 0..MaxPasswords
    BY NoWorkTyped DEF SessionsInit, UserType
  <2>2. sess \in [Sids -> SessionType]
    BY <2>1, Numbers DEF SessionsInit, SessionType
  <2>3. work \in [Workers -> WorkType]
    BY NoWorkTyped DEF SessionsInit
  <2> QED BY <2>1, <2>2, <2>3 DEF SessionsInit, SessionsTypeOK
<1>2. SessionsTypeOK /\ [SessionsNext]_sessionVars => SessionsTypeOK'
  <2> SUFFICES ASSUME SessionsTypeOK, [SessionsNext]_sessionVars PROVE SessionsTypeOK'
    OBVIOUS
  <2>0. \A w \in Workers : work[w] \in WorkType /\ work[w].row \in UserType
    BY DEF SessionsTypeOK, WorkType
  <2>1. ASSUME NEW w \in Workers, NEW j \in WorkType, At(w, j)
        PROVE work' \in [Workers -> WorkType]
    BY <2>1 DEF At, SessionsTypeOK
  <2>2. ASSUME NEW w \in Workers, Stop(w) PROVE work' \in [Workers -> WorkType]
    BY <2>1, <2>2, NoWorkTyped DEF Stop
  <2>3. ASSUME NEW w \in Workers, NEW p \in {"ready", "code", "sweep", "rotating", "locked"}, Continue(w, p)
        PROVE work' \in [Workers -> WorkType]
    <3>1. [work[w] EXCEPT !.pc = p] \in WorkType
      BY <2>0 DEF WorkType
    <3> QED BY <2>1, <2>3, <3>1, ContinueIsAt
  <2>4. ASSUME NEW w \in Workers, NEW pw \in 0..MaxPasswords, Issuing(w, pw)
        PROVE work' \in [Workers -> WorkType]
    <3>1. [NoWork EXCEPT !.pc = "issue", !.row.pw = pw] \in WorkType
      BY NoWorkTyped DEF WorkType, UserType
    <3> QED BY <2>1, <2>4, <3>1 DEF Issuing
  <2>5. user.pw \in 0..MaxPasswords
    BY DEF SessionsTypeOK, UserType
  <2>6. ASSUME NEW w \in Workers,
               \/ Login(w) \/ ChangePassword(w) \/ ConfirmPasswordReset(w) \/ StartDeleteMe(w)
               \/ UpdateMe(w) \/ ConvertGuest(w) \/ Fail(w)
               \/ \E s \in Sids : ValidateRefreshToken(w, s) \/ Logout_Validate(w, s)
        PROVE SessionsTypeOK'
    <3>1. CASE Login(w)
      BY <3>1, <2>4, <2>5 DEF Login, SessionsTypeOK
    <3>2. CASE Fail(w)
      BY <3>2, <2>2 DEF Fail, SessionsTypeOK
    <3>3. \A p \in {"validated", "logout", "sweep", "update", "convert"},
             o \in {"change", "reset", "delete", "convert"}, s \in Sids :
             /\ [NoWork EXCEPT !.pc = p, !.sid = s] \in WorkType
             /\ [NoWork EXCEPT !.pc = p, !.op = o] \in WorkType
             /\ [NoWork EXCEPT !.pc = p, !.row = user] \in WorkType
             /\ [NoWork EXCEPT !.pc = p, !.op = o, !.row = user] \in WorkType
      BY NoWorkTyped, ZenonT(30) DEF WorkType, SessionsTypeOK
    <3>4. CASE ~Login(w) /\ ~Fail(w)
      <4>1. \E j \in WorkType : At(w, j)
        <5>1. CASE ChangePassword(w) \/ ConfirmPasswordReset(w) \/ StartDeleteMe(w)
          BY <3>3, <5>1, Numbers DEF ChangePassword, ConfirmPasswordReset, StartDeleteMe
        <5>2. CASE UpdateMe(w) \/ ConvertGuest(w)
          BY <3>3, <5>2, Numbers DEF UpdateMe, ConvertGuest
        <5>3. CASE \E s \in Sids : ValidateRefreshToken(w, s) \/ Logout_Validate(w, s)
          BY <3>3, <5>3 DEF ValidateRefreshToken, Logout_Validate
        <5> QED BY <2>6, <3>4, <5>1, <5>2, <5>3
      <4>2. work' \in [Workers -> WorkType]
        BY <4>1, <2>1
      <4> QED BY <2>6, <3>4, <4>2
              DEF ChangePassword, ConfirmPasswordReset, StartDeleteMe, UpdateMe, ConvertGuest,
                  ValidateRefreshToken, Logout_Validate, SessionsTypeOK
    <3> QED BY <3>1, <3>2, <3>4
  <2>7. ASSUME NEW w \in Workers, GenerateTokenPair(w) PROVE SessionsTypeOK'
    <3>1. Min(Sids \ Stored) \in Sids
      BY <2>7, NextSession DEF GenerateTokenPair
    <3>2. work[w].row.pw \in 0..MaxPasswords
      BY <2>0 DEF UserType
    <3>3. sess' \in [Sids -> SessionType]
      BY <2>7, <3>1, <3>2 DEF GenerateTokenPair, SessionsTypeOK, SessionType
    <3>4. excused' \subseteq Sids
      BY <2>7, ExcusedTyped DEF GenerateTokenPair
    <3> QED BY <2>2, <2>7, <3>3, <3>4 DEF GenerateTokenPair, SessionsTypeOK
  <2>8. ASSUME NEW w \in Workers, ReactivateGuestForRefresh(w) PROVE SessionsTypeOK'
    <3>1. user' \in UserType
      BY <2>8 DEF ReactivateGuestForRefresh, SessionsTypeOK, UserType
    <3> QED BY <2>2, <2>3, <2>8, <3>1 DEF ReactivateGuestForRefresh, SessionsTypeOK
  <2>9. ASSUME NEW w \in Workers, Rotate_Lock(w) PROVE SessionsTypeOK'
    <3>1. /\ [work[w] EXCEPT !.pc = "rotating"] \in WorkType
          /\ [work[w] EXCEPT !.pc = "family", !.snap = Family(sess[work[w].sid].fam)] \in WorkType
      BY <2>0 DEF WorkType, Family, Stored
    <3>2. work' \in [Workers -> WorkType]
      BY <2>9, <3>1, NoWorkTyped DEF Rotate_Lock, SessionsTypeOK
    <3> QED BY <2>9, <3>2 DEF Rotate_Lock, SessionsTypeOK
  <2>10. ASSUME NEW w \in Workers, Rotate_Commit(w) PROVE SessionsTypeOK'
    <3>1. Min(Sids \ Stored) \in Sids /\ work[w].sid \in Sids
      BY <2>0, <2>10, NextSession DEF Rotate_Commit, WorkType
    <3>2. sess' \in [Sids -> SessionType]
      <4> DEFINE old == work[w].sid
                 new == Min(Sids \ Stored)
      <4>1. sess' = [sess EXCEPT ![old] = [sess[old] EXCEPT !.st = "revoked", !.pw = NoPassword],
                                 ![new] = [sess[old] EXCEPT !.st = "live"]]
        BY <2>10, <3>1 DEF Rotate_Commit, SessionsTypeOK
      <4>2. [sess[old] EXCEPT !.st = "live"] \in SessionType
        BY <3>1 DEF SessionsTypeOK, SessionType
      <4> HIDE DEF old, new
      <4> QED BY <4>1, <4>2, <3>1, EndedTyped DEF SessionsTypeOK, old
    <3>3. excused' \subseteq Sids
      BY <2>10, ExcusedTyped DEF Rotate_Commit
    <3> QED BY <2>2, <2>10, <3>2, <3>3 DEF Rotate_Commit, SessionsTypeOK
  <2>11. ASSUME NEW w \in Workers, Rotate_RevokeFamily(w) \/ Logout_Revoke(w) PROVE SessionsTypeOK'
    <3>1. sess[work[w].sid].fam \in Sids
      BY <2>0 DEF SessionsTypeOK, WorkType, SessionType
    <3>2. sess' \in [Sids -> SessionType] /\ excused' \subseteq Sids
      BY <2>11, RevokedTyped, ExcusedTyped DEF Rotate_RevokeFamily, Logout_Revoke
    <3> QED BY <2>2, <2>11, <3>1, <3>2 DEF Rotate_RevokeFamily, Logout_Revoke, SessionsTypeOK
  <2>12. ASSUME NEW w \in Workers, Sweep_Lock(w) PROVE SessionsTypeOK'
    <3>1. /\ [work[w] EXCEPT !.pc = "locked", !.row = user] \in WorkType
          /\ lastPw < MaxPasswords =>
               /\ lastPw + 1 \in 0..MaxPasswords
               /\ [work[w] EXCEPT !.pc = "locked", !.row = [user EXCEPT !.pw = lastPw + 1]] \in WorkType
      <4>1. \A n \in 0..MaxPasswords : [user EXCEPT !.pw = n] \in UserType
        BY DEF SessionsTypeOK, UserType
      <4>2. \A u \in UserType : [work[w] EXCEPT !.pc = "locked", !.row = u] \in WorkType
        BY <2>0 DEF WorkType
      <4> QED BY <4>1, <4>2, Numbers DEF SessionsTypeOK
    <3>2. work' \in [Workers -> WorkType] /\ lastPw' \in 0..MaxPasswords
      BY <2>2, <2>12, <3>1 DEF Sweep_Lock, SessionsTypeOK
    <3> QED BY <2>12, <3>2 DEF Sweep_Lock, SessionsTypeOK
  <2>13. ASSUME NEW w \in Workers, Sweep_Scan(w) PROVE SessionsTypeOK'
    <3>1. [work[w] EXCEPT !.pc = "scanned", !.snap = Live] \in WorkType
      BY <2>0 DEF WorkType, Live
    <3> QED BY <2>13, <3>1 DEF Sweep_Scan, SessionsTypeOK
  <2>14. ASSUME NEW w \in Workers, Sweep_Commit(w) PROVE SessionsTypeOK'
    <3>1. user' \in UserType /\ user'.pw \in 0..MaxPasswords
      BY <2>0, <2>14 DEF Sweep_Commit, UserType
    <3>2. sess' \in [Sids -> SessionType] /\ excused' \subseteq Sids
      BY <2>14, RevokedTyped, ExcusedTyped DEF Sweep_Commit
    <3>3. [NoWork EXCEPT !.pc = "softdelete"] \in WorkType
      BY NoWorkTyped DEF WorkType
    <3>4. work' \in [Workers -> WorkType]
      BY <2>1, <2>4, <2>14, <3>1, <3>3 DEF Sweep_Commit
    <3> QED BY <2>14, <3>1, <3>2, <3>4 DEF Sweep_Commit, SessionsTypeOK
  <2>15. ASSUME NEW w \in Workers, SoftDelete(w) PROVE SessionsTypeOK'
    <3>1. CASE user.deleted
      BY <2>2, <2>15, <3>1 DEF SoftDelete, SessionsTypeOK
    <3>2. CASE ~user.deleted
      <4>1. Retired(Stored)
        BY <2>15, <3>2 DEF SoftDelete
      <4>2. excused' \subseteq Sids
        BY <4>1, ExcusedTyped DEF Retired
      <4> QED BY <2>2, <2>15, <4>1, <4>2, RetiredTyped DEF SoftDelete, SessionsTypeOK
    <3> QED BY <3>1, <3>2
  <2>16. ASSUME NEW w \in Workers, Update(w) PROVE SessionsTypeOK'
    BY <2>0, <2>2, <2>16 DEF Update, SessionsTypeOK, Live
  <2>17. ASSUME NEW w \in Workers, ConvertGuest_Update(w) PROVE SessionsTypeOK'
    <3>1. lastPw < MaxPasswords =>
            /\ lastPw + 1 \in 0..MaxPasswords
            /\ [work[w].row EXCEPT !.pw = lastPw + 1, !.verified = FALSE] \in UserType
      <4>1. \A n \in 0..MaxPasswords : [work[w].row EXCEPT !.pw = n, !.verified = FALSE] \in UserType
        BY <2>0 DEF UserType
      <4> QED BY <4>1, Numbers DEF SessionsTypeOK
    <3> QED BY <2>2, <2>3, <2>17, <3>1 DEF ConvertGuest_Update, SessionsTypeOK, Live
  <2>18. ASSUME NEW w \in Workers, ConvertGuest_Code(w) PROVE SessionsTypeOK'
    BY <2>3, <2>18 DEF ConvertGuest_Code, SessionsTypeOK
  <2>19. ASSUME NEW w \in Workers, VerifyEmail(w) PROVE SessionsTypeOK'
    <3>1. [user EXCEPT !.verified = TRUE, !.guest = FALSE] \in UserType
      BY DEF SessionsTypeOK, UserType
    <3> QED BY <2>4, <2>5, <2>19, <3>1 DEF VerifyEmail, SessionsTypeOK
  <2>20. CASE ResendEmailVerification \/ RequestPasswordReset
    BY <2>20 DEF ResendEmailVerification, RequestPasswordReset, SessionsTypeOK
  <2>21. CASE GuestCleanup_Lock
    BY <2>21 DEF GuestCleanup_Lock, SessionsTypeOK, UserType
  <2>22. CASE GuestCleanup_Retire
    <3>1. excused' \subseteq Sids
      BY <2>22, ExcusedTyped DEF GuestCleanup_Retire, Retired
    <3> QED BY <2>22, <3>1, RetiredTyped DEF GuestCleanup_Retire, SessionsTypeOK
  <2>23. CASE UNCHANGED sessionVars
    BY <2>23 DEF sessionVars, SessionsTypeOK
  <2> QED BY <2>6, <2>7, <2>8, <2>9, <2>10, <2>11, <2>12, <2>13, <2>14, <2>15, <2>16, <2>17,
             <2>18, <2>19, <2>20, <2>21, <2>22, <2>23 DEF SessionsNext
<1> QED BY <1>1, <1>2, PTL DEF SessionsSpec

-----------------------------------------------------------------------------
(***************************************************************************)
(* A deleted account.  The row lock is what keeps a sweep that was under   *)
(* way from writing back the row it read before the deletion.              *)
(***************************************************************************)
\* Once deleted an account is a tombstone no code resets, and no request holds
\* a row that revives it, or one that says "deleted" of an account that is not.
Buried ==
    /\ user.deleted => user = Tombstone /\ ~reset
    /\ \A w \in Workers :
         /\ work[w].pc \in {"update", "convert"} => ~work[w].row.deleted
         /\ work[w].pc \in {"locked", "scanned"} =>
              /\ user.deleted \/ work[w].row.deleted => user = Tombstone /\ work[w].row = Tombstone
              /\ RowFree(w)

\* A step of w that ends without the row lock, and writes the account's row
\* only if no other request has it locked.
LEMMA RowFreeStep ==
  ASSUME SessionsTypeOK, Buried, NEW w \in Workers, NEW j, At(w, j),
         j.pc \notin {"locked", "scanned"},
         j.pc \in {"update", "convert"} => ~j.row.deleted,
         RowFree(w) \/ user' = user,
         user'.deleted => user' = Tombstone /\ ~reset'
  PROVE  Buried'
<1>1. work'[w] = j /\ \A v \in Workers : v # w => work'[v] = work[v]
  BY AtFrame
<1>2. ASSUME NEW v \in Workers, work'[v].pc \in {"locked", "scanned"}
      PROVE  /\ user'.deleted \/ work'[v].row.deleted
                   => user' = Tombstone /\ work'[v].row = Tombstone
             /\ RowFree(v)'
  <2>1. v # w /\ work'[v] = work[v] /\ user' = user
    BY <1>1, <1>2 DEF RowFree
  <2>2. RowFree(v) /\ (user.deleted \/ work[v].row.deleted
                         => user = Tombstone /\ work[v].row = Tombstone)
    BY <1>2, <2>1 DEF Buried
  <2>3. RowFree(v)'
    BY <1>1, <2>2 DEF RowFree
  <2> QED BY <2>1, <2>2, <2>3
<1>3. \A v \in Workers : work'[v].pc \in {"update", "convert"} => ~work'[v].row.deleted
  BY <1>1 DEF Buried
<1> QED BY <1>2, <1>3 DEF Buried, Tombstone

\* A step of w that takes or keeps the row lock and writes nothing yet.
LEMMA LockedStep ==
  ASSUME SessionsTypeOK, Buried, NEW w \in Workers, NEW j, At(w, j), RowFree(w),
         j.pc \in {"locked", "scanned"}, UNCHANGED <<user, reset>>,
         user.deleted \/ j.row.deleted => user = Tombstone /\ j.row = Tombstone
  PROVE  Buried'
<1>1. work'[w] = j /\ \A v \in Workers : v # w => work'[v] = work[v]
  BY AtFrame
<1>2. RowFree(w)' /\ \A v \in Workers : v # w => work'[v].pc \notin {"locked", "scanned"}
  BY <1>1 DEF RowFree
<1>3. \A v \in Workers : v # w /\ work'[v].pc \in {"update", "convert"} => ~work'[v].row.deleted
  BY <1>1 DEF Buried
<1>4. Tombstone' = Tombstone
  BY DEF Tombstone
<1> QED BY <1>1, <1>2, <1>3, <1>4 DEF Buried

\* A step that leaves the requests alone, when none of them has the row locked
\* or none of the account's row changes.
LEMMA NoRequestStep ==
  ASSUME Buried, UNCHANGED work,
         user' = user \/ \A w \in Workers : work[w].pc \notin {"locked", "scanned"},
         user'.deleted => user' = Tombstone /\ ~reset'
  PROVE  Buried'
<1>1. \A w \in Workers : RowFree(w)' = RowFree(w)
  BY DEF RowFree
<1> QED BY <1>1 DEF Buried, Tombstone

\* The row lock keeps every deleted account buried.
LEMMA BuriedInvariant == SessionsSpec => []Buried
<1>1. SessionsInit => Buried
  <2> SUFFICES ASSUME SessionsInit PROVE Buried
    OBVIOUS
  <2>1. ~Registered.deleted /\ ~Guest.deleted /\ NoWork.pc = "idle"
    BY DEF Registered, Guest, NoWork
  <2> QED BY <2>1 DEF SessionsInit, Buried
<1>2. SessionsTypeOK /\ Buried /\ [SessionsNext]_sessionVars => Buried'
  <2> SUFFICES ASSUME SessionsTypeOK, Buried, [SessionsNext]_sessionVars PROVE Buried'
    OBVIOUS
  <2>0. \A w \in Workers : work[w] \in WorkType /\ work[w].row \in UserType
    BY DEF SessionsTypeOK, WorkType
  <2>1. /\ user \in UserType
        /\ ~Tombstone.active /\ ~Tombstone.guest /\ Tombstone.deleted
    BY DEF SessionsTypeOK, Tombstone
  <2>2. user.deleted => user = Tombstone /\ ~reset /\ ~user.active /\ ~user.guest
    BY <2>1 DEF Buried
  <2>3. ASSUME NEW w \in Workers, Stop(w), user' = user \/ RowFree(w),
               user'.deleted => user' = Tombstone /\ ~reset'
        PROVE Buried'
    <3>1. NoWork.pc = "idle"
      BY DEF NoWork
    <3> QED BY <2>3, <3>1, RowFreeStep DEF Stop
  <2>4. ASSUME NEW w \in Workers, NEW pw, Issuing(w, pw), user' = user \/ RowFree(w),
               user'.deleted => user' = Tombstone /\ ~reset'
        PROVE Buried'
    <3>1. [NoWork EXCEPT !.pc = "issue", !.row.pw = pw].pc = "issue"
      BY DEF NoWork
    <3> QED BY <2>4, <3>1, RowFreeStep DEF Issuing
  <2>5. ASSUME NEW w \in Workers, NEW p \in {"ready", "code", "sweep"}, Continue(w, p),
               user' = user \/ RowFree(w), user'.deleted => user' = Tombstone /\ ~reset'
        PROVE Buried'
    <3>1. [work[w] EXCEPT !.pc = p].pc = p
      BY <2>0 DEF WorkType
    <3> HIDE DEF UserType
    <3> QED BY <2>5, <3>1, ContinueIsAt, RowFreeStep
  <2>6. ASSUME NEW w \in Workers,
               \/ Login(w) \/ GenerateTokenPair(w) \/ Rotate_Commit(w) \/ Rotate_RevokeFamily(w)
               \/ Logout_Revoke(w) \/ Fail(w)
        PROVE Buried'
    BY <2>2, <2>3, <2>4, <2>6
       DEF Login, GenerateTokenPair, Rotate_Commit, Rotate_RevokeFamily, Logout_Revoke, Fail
  <2>7. ASSUME NEW w \in Workers,
               \/ ChangePassword(w) \/ ConfirmPasswordReset(w) \/ StartDeleteMe(w)
               \/ \E s \in Sids : ValidateRefreshToken(w, s) \/ Logout_Validate(w, s)
        PROVE Buried'
    <3>1. PICK p \in {"sweep", "validated", "logout"},
              o \in {"none", "change", "reset", "delete"}, s \in Sids :
             /\ At(w, [NoWork EXCEPT !.pc = p, !.op = o]) \/ At(w, [NoWork EXCEPT !.pc = p, !.sid = s])
             /\ UNCHANGED <<user, reset>>
      BY <2>7, Numbers DEF ChangePassword, ConfirmPasswordReset, StartDeleteMe, ValidateRefreshToken, Logout_Validate
    <3>2. [NoWork EXCEPT !.pc = p, !.op = o].pc = p /\ [NoWork EXCEPT !.pc = p, !.sid = s].pc = p
      BY DEF NoWork
    <3> QED BY <2>2, <3>1, <3>2, RowFreeStep
  <2>8. ASSUME NEW w \in Workers, UpdateMe(w) \/ ConvertGuest(w) PROVE Buried'
    <3>1. PICK p \in {"update", "convert"}, o \in {"none", "convert"} :
             /\ At(w, [NoWork EXCEPT !.pc = p, !.row = user]) \/ At(w, [NoWork EXCEPT !.pc = p, !.op = o, !.row = user])
             /\ UNCHANGED <<user, reset>> /\ user.active
      BY <2>8 DEF UpdateMe, ConvertGuest
    <3>2. /\ [NoWork EXCEPT !.pc = p, !.row = user].pc = p
          /\ [NoWork EXCEPT !.pc = p, !.row = user].row = user
          /\ [NoWork EXCEPT !.pc = p, !.op = o, !.row = user].pc = p
          /\ [NoWork EXCEPT !.pc = p, !.op = o, !.row = user].row = user
      BY DEF NoWork
    <3> QED BY <2>2, <3>1, <3>2, RowFreeStep
  <2>9. ASSUME NEW w \in Workers, ReactivateGuestForRefresh(w) PROVE Buried'
    <3>1. user' = user \/ (RowFree(w) /\ ~user.deleted /\ user' = [user EXCEPT !.active = TRUE])
      BY <2>9 DEF ReactivateGuestForRefresh
    <3>2. user'.deleted => user' = Tombstone /\ ~reset'
      BY <2>1, <2>2, <2>9, <3>1 DEF ReactivateGuestForRefresh, UserType
    <3> QED BY <2>3, <2>5, <2>9, <3>1, <3>2 DEF ReactivateGuestForRefresh
  <2>10. ASSUME NEW w \in Workers, Rotate_Lock(w) PROVE Buried'
    <3>1. /\ [work[w] EXCEPT !.pc = "rotating"].pc = "rotating"
          /\ [work[w] EXCEPT !.pc = "family", !.snap = Family(sess[work[w].sid].fam)].pc = "family"
          /\ NoWork.pc = "idle"
      BY <2>0 DEF WorkType, NoWork
    <3>2. \/ At(w, [work[w] EXCEPT !.pc = "rotating"])
          \/ At(w, [work[w] EXCEPT !.pc = "family", !.snap = Family(sess[work[w].sid].fam)])
          \/ At(w, NoWork)
      BY <2>10 DEF Rotate_Lock, At, SessionsTypeOK
    <3>3. UNCHANGED <<user, reset>>
      BY <2>10 DEF Rotate_Lock
    <3> QED BY <2>2, <3>1, <3>2, <3>3, RowFreeStep
  <2>11. ASSUME NEW w \in Workers, Sweep_Lock(w) PROVE Buried'
    <3>1. RowFree(w) /\ UNCHANGED <<user, reset>>
      BY <2>11 DEF Sweep_Lock
    <3>2. CASE Stop(w)
      BY <2>2, <2>3, <3>1, <3>2
    <3>3. CASE ~Stop(w)
      <4>1. PICK u : /\ At(w, [work[w] EXCEPT !.pc = "locked", !.row = u])
                     /\ u = user \/ (~user.deleted /\ u = [user EXCEPT !.pw = lastPw + 1])
        BY <2>2, <2>11, <3>3 DEF Sweep_Lock, At, SessionsTypeOK
      <4>2. /\ [work[w] EXCEPT !.pc = "locked", !.row = u].pc = "locked"
            /\ [work[w] EXCEPT !.pc = "locked", !.row = u].row = u
        BY <2>0 DEF WorkType
      <4>3. u.deleted = user.deleted /\ (user.deleted => u = user)
        BY <2>1, <4>1 DEF UserType
      <4> QED BY <2>2, <3>1, <4>1, <4>2, <4>3, LockedStep
    <3> QED BY <3>2, <3>3
  <2>12. ASSUME NEW w \in Workers, Sweep_Scan(w) PROVE Buried'
    <3>1. At(w, [work[w] EXCEPT !.pc = "scanned", !.snap = Live]) /\ UNCHANGED <<user, reset>>
      BY <2>12 DEF Sweep_Scan, At, SessionsTypeOK
    <3>2. /\ [work[w] EXCEPT !.pc = "scanned", !.snap = Live].pc = "scanned"
          /\ [work[w] EXCEPT !.pc = "scanned", !.snap = Live].row = work[w].row
      BY <2>0 DEF WorkType
    <3>3. RowFree(w) /\ (user.deleted \/ work[w].row.deleted
                           => user = Tombstone /\ work[w].row = Tombstone)
      BY <2>12 DEF Sweep_Scan, Buried
    <3> QED BY <3>1, <3>2, <3>3, LockedStep
  <2>13. ASSUME NEW w \in Workers, Sweep_Commit(w) PROVE Buried'
    <3>1. RowFree(w) /\ (user.deleted \/ work[w].row.deleted
                           => user = Tombstone /\ work[w].row = Tombstone)
      BY <2>13 DEF Sweep_Commit, Buried
    <3>2. user'.deleted => user' = Tombstone /\ ~reset'
      BY <2>1, <2>2, <2>13, <3>1 DEF Sweep_Commit
    <3>3. [NoWork EXCEPT !.pc = "softdelete"].pc = "softdelete"
      BY DEF NoWork
    <3>4. CASE At(w, [NoWork EXCEPT !.pc = "softdelete"])
      BY <3>1, <3>2, <3>3, <3>4, RowFreeStep
    <3> QED BY <2>4, <2>13, <3>1, <3>2, <3>4 DEF Sweep_Commit
  <2>14. ASSUME NEW w \in Workers, SoftDelete(w) PROVE Buried'
    <3>1. RowFree(w) /\ Stop(w)
      BY <2>14 DEF SoftDelete
    <3>2. user'.deleted => user' = Tombstone /\ ~reset'
      BY <2>2, <2>14 DEF SoftDelete, Retired
    <3> QED BY <2>3, <3>1, <3>2
  <2>15. ASSUME NEW w \in Workers, Update(w) PROVE Buried'
    <3>1. ~work[w].row.deleted
      BY <2>15 DEF Update, Buried
    <3> QED BY <2>2, <2>3, <2>15, <3>1 DEF Update
  <2>16. ASSUME NEW w \in Workers, ConvertGuest_Update(w) PROVE Buried'
    <3>1. ~work[w].row.deleted
      BY <2>16 DEF ConvertGuest_Update, Buried
    <3>2. ~[work[w].row EXCEPT !.pw = lastPw + 1, !.verified = FALSE].deleted
      BY <2>0, <3>1 DEF UserType
    <3> QED BY <2>2, <2>3, <2>5, <2>16, <3>2 DEF ConvertGuest_Update
  <2>17. ASSUME NEW w \in Workers, ConvertGuest_Code(w) PROVE Buried'
    BY <2>2, <2>5, <2>17 DEF ConvertGuest_Code
  <2>18. ASSUME NEW w \in Workers, VerifyEmail(w) PROVE Buried'
    <3>1. ~[user EXCEPT !.verified = TRUE, !.guest = FALSE].deleted
      BY <2>1, <2>2, <2>18 DEF VerifyEmail, UserType
    <3> QED BY <2>4, <2>18, <3>1 DEF VerifyEmail
  <2>19. CASE ResendEmailVerification \/ RequestPasswordReset
    BY <2>2, <2>19, NoRequestStep DEF ResendEmailVerification, RequestPasswordReset
  <2>20. CASE GuestCleanup_Lock
    <3>1. ~user'.deleted
      BY <2>1, <2>2, <2>20 DEF GuestCleanup_Lock, UserType
    <3> QED BY <2>20, <3>1, NoRequestStep DEF GuestCleanup_Lock
  <2>21. CASE GuestCleanup_Retire
    BY <2>21, NoRequestStep DEF GuestCleanup_Retire, Retired
  <2>22. CASE UNCHANGED sessionVars
    BY <2>2, <2>22, NoRequestStep DEF sessionVars
  <2> QED BY <2>6, <2>7, <2>8, <2>9, <2>10, <2>11, <2>12, <2>13, <2>14, <2>15, <2>16, <2>17,
             <2>18, <2>19, <2>20, <2>21, <2>22 DEF SessionsNext
<1> QED BY <1>1, <1>2, SessionsTypeCorrect, PTL DEF SessionsSpec

\* Whatever requests were under way, nothing writes the row of a deleted
\* account again.
THEOREM DeletionIsFinal == SessionsSpec => DeletedIsFinal
<1>1. SessionsTypeOK /\ Buried /\ [SessionsNext]_sessionVars => [user.deleted => user' = user]_sessionVars
  <2> SUFFICES ASSUME SessionsTypeOK, Buried, [SessionsNext]_sessionVars, user.deleted PROVE user' = user
    OBVIOUS
  <2>1. user = Tombstone /\ ~user.active /\ ~user.guest
    BY DEF Buried, Tombstone
  <2>2. ASSUME NEW w \in Workers, Sweep_Commit(w) PROVE user' = user
    BY <2>1, <2>2 DEF Sweep_Commit, Buried
  <2> QED BY <2>1, <2>2
          DEF SessionsNext, sessionVars, Login, GenerateTokenPair, ReactivateGuestForRefresh, Rotate_Lock,
              Rotate_Commit, Rotate_RevokeFamily, Logout_Revoke, ChangePassword,
              ConfirmPasswordReset, StartDeleteMe, Sweep_Lock, Sweep_Scan, SoftDelete, UpdateMe,
              Update, ConvertGuest, ConvertGuest_Update, ConvertGuest_Code, VerifyEmail, Fail,
              ValidateRefreshToken, Logout_Validate, ResendEmailVerification,
              RequestPasswordReset, GuestCleanup_Lock, GuestCleanup_Retire
<1> QED BY <1>1, SessionsTypeCorrect, BuriedInvariant, PTL DEF SessionsSpec, DeletedIsFinal

-----------------------------------------------------------------------------
(***************************************************************************)
(* The live sessions.  A rotation holds the row it replaces, so it alone   *)
(* can end it; a revocation under way knows every session it should end    *)
(* but the excused ones.                                                   *)
(***************************************************************************)
\* The requests that name a session.
Holding == {"validated", "ready", "rotating", "family", "logout"}

\* What request j may rely on: the session it names is stored, the one it
\* rotates is live, and what a revocation has not in its sights is excused.
JobOK(j) ==
    /\ j.pc \in Holding => j.sid \in Stored
    /\ j.pc = "rotating" => j.sid \in Live
    /\ j.pc = "family" =>
         \A s \in Live \ j.snap : sess[s].fam = sess[j.sid].fam => s \in excused
    /\ j.pc = "logout" =>
         \A s \in Live \ {j.sid} : sess[s].fam = sess[j.sid].fam => s \in excused
    /\ j.pc = "scanned" => Live \ j.snap \subseteq excused

\* No two rotations hold the same session.
Held(w) == work[w].pc = "rotating" => work[w].sid \notin LockedBut(w)

\* Families are numbered by stored sessions, so a new session's family is new.
Families == ended \subseteq Stored /\ \A s \in Stored : sess[s].fam \in Stored

SessionInv ==
    /\ Families
    /\ OneLivePerFamily
    /\ EndedFamiliesStayEnded
    /\ OnlyRacesOutliveThePassword
    /\ \A w \in Workers : JobOK(work[w]) /\ Held(w)

\* A step of w that ends no session and stores none.
LEMMA QuietStep ==
  ASSUME SessionsTypeOK, SessionInv, NEW w \in Workers, NEW j, At(w, j),
         UNCHANGED <<sess, ended>>, excused \subseteq excused',
         JobOK(j), j.pc = "rotating" => j.sid \notin LockedBut(w),
         \A s \in Live : sess[s].pw \notin {NoPassword, user'.pw} => s \in excused'
  PROVE  SessionInv'
<1>1. work'[w] = j /\ \A v \in Workers : v # w => work'[v] = work[v]
  BY AtFrame
<1>2. Live' = Live /\ Stored' = Stored
  BY DEF Live, Stored
<1>3. \A v \in Workers : JobOK(work'[v])
  BY <1>1 DEF SessionInv
<1>4. \A v \in Workers : JobOK(work[v])'
  BY <1>2, <1>3 DEF JobOK
<1>5. ASSUME NEW v \in Workers PROVE Held(v)'
  BY <1>1 DEF SessionInv, Held, LockedBut
<1>6. Families' /\ OneLivePerFamily' /\ EndedFamiliesStayEnded'
  BY <1>2 DEF SessionInv, Families, OneLivePerFamily, EndedFamiliesStayEnded
<1>7. OnlyRacesOutliveThePassword'
  BY <1>2 DEF OnlyRacesOutliveThePassword, NoPassword
<1> QED BY <1>4, <1>5, <1>6, <1>7 DEF SessionInv

\* The same, when the request becomes one that names no session.
LEMMA FreeStep ==
  ASSUME SessionsTypeOK, SessionInv, NEW w \in Workers, NEW j, At(w, j),
         UNCHANGED <<sess, ended>>, excused \subseteq excused',
         j.pc \notin Holding \cup {"scanned"},
         \A s \in Live : sess[s].pw \notin {NoPassword, user'.pw} => s \in excused'
  PROVE  SessionInv'
<1>1. JobOK(j) /\ j.pc # "rotating"
  BY DEF JobOK, Holding
<1> QED BY <1>1, QuietStep

\* A step of w that ends sessions none of which another request holds.
LEMMA EndingStep ==
  ASSUME SessionsTypeOK, SessionInv, NEW w \in Workers, NEW j, At(w, j),
         j.pc \notin Holding \cup {"scanned"},
         Stored' = Stored, Live' \subseteq Live, Live \cap LockedBut(w) \subseteq Live',
         \A s \in Sids : sess'[s].fam = sess[s].fam,
         \A s \in Live' : sess'[s] = sess[s],
         ended' \subseteq Stored, excused \cap Live' \subseteq excused',
         \A s \in Live' : \/ sess[s].fam \in ended'
                          \/ sess[s].pw \notin {NoPassword, user'.pw}
                          => s \in excused
  PROVE  SessionInv'
<1>1. work'[w] = j /\ \A v \in Workers : v # w => work'[v] = work[v]
  BY AtFrame
<1>2. ASSUME NEW v \in Workers PROVE JobOK(work[v])' /\ Held(v)'
  <2>1. CASE v = w
    BY <1>1, <2>1 DEF JobOK, Holding, Held
  <2>2. CASE v # w
    <3>1. JobOK(work[v]) /\ Held(v) /\ work'[v] = work[v]
      BY <1>1, <2>2 DEF SessionInv
    <3>2. work[v].pc = "rotating" => work[v].sid \in Live'
      BY <2>2, <3>1 DEF JobOK, LockedBut
    <3>3. work[v].pc \in Holding => work[v].sid \in Sids
      BY <3>1 DEF JobOK, Stored
    <3>4. JobOK(work[v])'
      BY <3>1, <3>2, <3>3 DEF JobOK, Live, Holding
    <3>5. Held(v)'
      BY <1>1, <3>1 DEF Held, LockedBut, Holding
    <3> QED BY <3>4, <3>5
  <2> QED BY <2>1, <2>2
<1>3. Families'
  BY DEF SessionInv, Families, Stored
<1>4. OneLivePerFamily'
  BY DEF SessionInv, OneLivePerFamily
<1>5. EndedFamiliesStayEnded' /\ OnlyRacesOutliveThePassword'
  BY DEF EndedFamiliesStayEnded, OnlyRacesOutliveThePassword, NoPassword
<1> QED BY <1>2, <1>3, <1>4, <1>5 DEF SessionInv

\* A step of w that stores session n of family f and is done.  Whatever
\* revocation is under way for the family, or for every session, n must be
\* excused from it.
LEMMA StoringStep ==
  ASSUME SessionsTypeOK, SessionInv, NEW w \in Workers, Stop(w),
         NEW n \in Sids \ Stored, NEW f, f = n \/ f \in Stored,
         Stored' = Stored \cup {n}, Live' \subseteq Live \cup {n},
         Live \cap LockedBut(w) \subseteq Live',
         sess'[n].fam = f, \A s \in Stored : sess'[s].fam = sess[s].fam,
         \A s \in Live' \ {n} : sess'[s] = sess[s] /\ sess[s].fam # f,
         UNCHANGED <<user, ended>>, excused \cap Live' \subseteq excused',
         \/ f \in ended
         \/ sess'[n].pw \notin {NoPassword, user.pw}
         \/ \E v \in Workers \ {w} :
               \/ work[v].pc = "scanned"
               \/ work[v].pc \in {"family", "logout"} /\ sess[work[v].sid].fam = f
         => n \in excused'
  PROVE  SessionInv'
<1>1. work'[w] = NoWork /\ \A v \in Workers : v # w => work'[v] = work[v]
  BY AtFrame DEF Stop
<1>2. NoWork.pc \notin Holding \cup {"scanned"}
  BY DEF NoWork, Holding
<1>3. Live \subseteq Stored /\ Live' \subseteq Stored'
  BY DEF Live, Stored
<1>4. ASSUME NEW v \in Workers PROVE JobOK(work[v])' /\ Held(v)'
  <2>1. CASE v = w
    BY <1>1, <1>2, <2>1 DEF JobOK, Holding, Held
  <2>2. CASE v # w
    <3>1. JobOK(work[v]) /\ Held(v) /\ work'[v] = work[v]
      BY <1>1, <2>2 DEF SessionInv
    <3>2. work[v].pc = "rotating" => work[v].sid \in Live'
      BY <2>2, <3>1 DEF JobOK, LockedBut
    <3>3. work[v].pc \in Holding => work[v].sid \in Stored'
      BY <3>1 DEF JobOK
    <3>4. work[v].pc = "family" =>
            \A s \in Live' \ work[v].snap : sess'[s].fam = sess'[work[v].sid].fam => s \in excused'
      BY <2>2, <3>1, <1>3 DEF JobOK, Holding
    <3>5. work[v].pc = "logout" =>
            \A s \in Live' \ {work[v].sid} : sess'[s].fam = sess'[work[v].sid].fam => s \in excused'
      BY <2>2, <3>1, <1>3 DEF JobOK, Holding
    <3>6. work[v].pc = "scanned" => Live' \ work[v].snap \subseteq excused'
      BY <2>2, <3>1 DEF JobOK
    <3>7. JobOK(work[v])'
      BY <3>1, <3>2, <3>3, <3>4, <3>5, <3>6 DEF JobOK, Holding
    <3>8. Held(v)'
      BY <1>1, <1>2, <3>1 DEF Held, LockedBut, Holding
    <3> QED BY <3>7, <3>8
  <2> QED BY <2>1, <2>2
<1>5. Families'
  BY DEF SessionInv, Families
<1>6. OneLivePerFamily'
  BY DEF SessionInv, OneLivePerFamily
<1>7. EndedFamiliesStayEnded' /\ OnlyRacesOutliveThePassword'
  BY DEF SessionInv, EndedFamiliesStayEnded, OnlyRacesOutliveThePassword, NoPassword
<1> QED BY <1>4, <1>5, <1>6, <1>7 DEF SessionInv

\* What a revocation of S does to the sessions.
LEMMA RevokedFrame ==
  ASSUME SessionsTypeOK, NEW S, Revoked(S), Excused({})
  PROVE  /\ Stored' = Stored /\ Live' = Live \ S
         /\ \A s \in Sids : sess'[s].fam = sess[s].fam
         /\ \A s \in Live' : sess'[s] = sess[s]
         /\ excused \cap Live' \subseteq excused'
<1>1. \A s \in Sids : sess[s] \in SessionType
  BY DEF SessionsTypeOK
<1>2. \A s \in Sids : sess'[s] = IF s \in S /\ sess[s].st = "live"
                                 THEN [sess[s] EXCEPT !.st = "revoked", !.pw = NoPassword]
                                 ELSE sess[s]
  BY DEF Revoked
<1>3. \A s \in Sids : /\ [sess[s] EXCEPT !.st = "revoked", !.pw = NoPassword].st = "revoked"
                      /\ [sess[s] EXCEPT !.st = "revoked", !.pw = NoPassword].fam = sess[s].fam
  BY <1>1 DEF SessionType
<1> QED BY <1>2, <1>3 DEF Stored, Live, Excused

\* What the end of an account does to them.
LEMMA RetiredFrame ==
  ASSUME SessionsTypeOK, Retired(Stored)
  PROVE  /\ Stored' = Stored /\ Live' = {}
         /\ \A s \in Sids : sess'[s].fam = sess[s].fam
<1>1. \A s \in Sids : sess[s] \in SessionType
  BY DEF SessionsTypeOK
<1>2. \A s \in Sids : sess'[s] = IF s \in Stored
                                 THEN [sess[s] EXCEPT !.st = "gone", !.pw = NoPassword]
                                 ELSE sess[s]
  BY DEF Retired
<1>3. \A s \in Sids : /\ [sess[s] EXCEPT !.st = "gone", !.pw = NoPassword].st = "gone"
                      /\ [sess[s] EXCEPT !.st = "gone", !.pw = NoPassword].fam = sess[s].fam
  BY <1>1 DEF SessionType
<1> QED BY <1>2, <1>3 DEF Stored, Live

\* The session invariant is inductive.
LEMMA SessionInvariant == SessionsSpec => []SessionInv
<1>1. SessionsInit => SessionInv
  <2> SUFFICES ASSUME SessionsInit PROVE SessionInv
    OBVIOUS
  <2>1. \A s \in Sids : sess[s].fam = s
    BY DEF SessionsInit
  <2>2. \A s \in Live : sess[s].pw = user.pw
    BY DEF SessionsInit, Live
  <2>3. \A w \in Workers : work[w].pc = "idle"
    BY DEF SessionsInit, NoWork
  <2>4. \A w \in Workers : JobOK(work[w]) /\ Held(w)
    BY <2>3 DEF JobOK, Held, Holding
  <2>5. Families /\ OneLivePerFamily /\ EndedFamiliesStayEnded
    BY <2>1 DEF SessionsInit, Families, OneLivePerFamily, EndedFamiliesStayEnded, Stored, Live
  <2> QED BY <2>2, <2>4, <2>5 DEF SessionInv, OnlyRacesOutliveThePassword
<1>2. SessionsTypeOK /\ SessionInv /\ SessionsTypeOK' /\ [SessionsNext]_sessionVars => SessionInv'
  <2> SUFFICES ASSUME SessionsTypeOK, SessionInv, SessionsTypeOK', [SessionsNext]_sessionVars PROVE SessionInv'
    OBVIOUS
  <2>0. \A w \in Workers : work[w] \in WorkType
    BY DEF SessionsTypeOK
  <2>1. \A s \in Live : sess[s].pw \notin {NoPassword, user.pw} => s \in excused
    BY DEF SessionInv, OnlyRacesOutliveThePassword
  <2>2. NoWork.pc = "idle" /\ Live \subseteq Stored /\ Stored \subseteq Sids
    BY DEF NoWork, Live, Stored
  <2>3. ASSUME NEW w \in Workers, Stop(w), UNCHANGED <<sess, ended>>,
               excused \subseteq excused',
               \A s \in Live : sess[s].pw \notin {NoPassword, user'.pw} => s \in excused'
        PROVE SessionInv'
    BY <2>2, <2>3, FreeStep DEF Stop, Holding
  <2>4. ASSUME NEW w \in Workers, NEW pw, Issuing(w, pw), UNCHANGED <<sess, ended, excused>>,
               user'.pw = user.pw
        PROVE SessionInv'
    <3>1. [NoWork EXCEPT !.pc = "issue", !.row.pw = pw].pc = "issue"
      BY DEF NoWork
    <3> QED BY <2>1, <2>4, <3>1, FreeStep DEF Issuing, Holding
  <2>5. ASSUME NEW w \in Workers, NEW p \in {"code", "sweep"}, Continue(w, p),
               UNCHANGED <<sess, ended>>, excused \subseteq excused',
               \A s \in Live : sess[s].pw \notin {NoPassword, user'.pw} => s \in excused'
        PROVE SessionInv'
    <3>1. [work[w] EXCEPT !.pc = p].pc = p
      BY <2>0 DEF WorkType
    <3> QED BY <2>5, <3>1, ContinueIsAt, FreeStep DEF Holding
  <2>6. ASSUME NEW w \in Workers, Login(w) \/ Fail(w) PROVE SessionInv'
    BY <2>1, <2>3, <2>4, <2>6 DEF Login, Fail
  <2>7. ASSUME NEW w \in Workers,
               \/ ChangePassword(w) \/ ConfirmPasswordReset(w) \/ StartDeleteMe(w)
               \/ UpdateMe(w) \/ ConvertGuest(w)
        PROVE SessionInv'
    <3>1. PICK p \in {"sweep", "update", "convert"},
              o \in {"none", "change", "reset", "delete", "convert"} :
             /\ \/ At(w, [NoWork EXCEPT !.pc = p, !.op = o])
                \/ At(w, [NoWork EXCEPT !.pc = p, !.row = user])
                \/ At(w, [NoWork EXCEPT !.pc = p, !.op = o, !.row = user])
             /\ UNCHANGED <<user, sess, ended, excused>>
      BY <2>7 DEF ChangePassword, ConfirmPasswordReset, StartDeleteMe, UpdateMe, ConvertGuest
    <3>2. /\ [NoWork EXCEPT !.pc = p, !.op = o].pc = p
          /\ [NoWork EXCEPT !.pc = p, !.row = user].pc = p
          /\ [NoWork EXCEPT !.pc = p, !.op = o, !.row = user].pc = p
      BY DEF NoWork
    <3> QED BY <2>1, <3>1, <3>2, FreeStep DEF Holding
  <2>8. ASSUME NEW w \in Workers, NEW s \in Sids, ValidateRefreshToken(w, s) \/ Logout_Validate(w, s)
        PROVE SessionInv'
    <3>1. PICK p \in {"validated", "logout"} :
             /\ At(w, [NoWork EXCEPT !.pc = p, !.sid = s]) /\ s \in Live
             /\ UNCHANGED <<user, sess, ended, excused>>
      BY <2>8 DEF ValidateRefreshToken, Logout_Validate
    <3> DEFINE j == [NoWork EXCEPT !.pc = p, !.sid = s]
    <3>2. j.pc = p /\ j.sid = s
      BY DEF NoWork
    <3> HIDE DEF j
    <3>3. JobOK(j)
      BY <2>2, <3>1, <3>2 DEF JobOK, Holding, SessionInv, OneLivePerFamily
    <3> QED BY <2>1, <3>1, <3>2, <3>3, QuietStep DEF j
  <2>9. ASSUME NEW w \in Workers, GenerateTokenPair(w) PROVE SessionInv'
    <3> DEFINE n == Min(Sids \ Stored)
    <3>1. n \in Sids \ Stored
      BY <2>9, NextSession DEF GenerateTokenPair
    <3>2. sess' = [sess EXCEPT ![n] = [st |-> "live", fam |-> n, pw |-> work[w].row.pw]]
      BY <2>9 DEF GenerateTokenPair
    <3>3. Excused(IF SweepUnderWay \/ work[w].row.pw # user.pw THEN {n} ELSE {})
      BY <2>9 DEF GenerateTokenPair
    <3>4. Stop(w) /\ UNCHANGED <<user, ended>>
      BY <2>9 DEF GenerateTokenPair
    <3> HIDE DEF n
    <3>5. /\ sess'[n].st = "live" /\ sess'[n].fam = n /\ sess'[n].pw = work[w].row.pw
          /\ \A s \in Sids \ {n} : sess'[s] = sess[s]
      BY <3>1, <3>2 DEF SessionsTypeOK
    <3>6. Stored' = Stored \cup {n} /\ Live' = Live \cup {n}
      BY <3>1, <3>5 DEF Stored, Live
    <3>7. \A s \in Stored : sess[s].fam # n
      BY <3>1 DEF SessionInv, Families
    <3>8. \A v \in Workers : work[v].pc \in {"family", "logout"} => sess[work[v].sid].fam # n
      BY <3>7 DEF SessionInv, JobOK, Holding
    <3>9. n \notin ended
      BY <3>1 DEF SessionInv, Families
    <3>10. SweepUnderWay \/ sess'[n].pw # user.pw => n \in excused'
      BY <3>3, <3>5, <3>6 DEF Excused
    <3>11. \A v \in Workers : work[v].pc = "scanned" => SweepUnderWay
      BY DEF SweepUnderWay
    <3>12. excused \cap Live' \subseteq excused'
      BY <3>3 DEF Excused
    <3>13. \A s \in Live' \ {n} : sess'[s] = sess[s] /\ sess[s].fam # n
      BY <2>2, <3>5, <3>6, <3>7
    <3>14. \A s \in Stored : sess'[s].fam = sess[s].fam
      BY <2>2, <3>1, <3>5
    <3> QED BY <3>1, <3>4, <3>5, <3>6, <3>8, <3>9, <3>10, <3>11, <3>12, <3>13, <3>14, StoringStep
  <2>10. ASSUME NEW w \in Workers, ReactivateGuestForRefresh(w) PROVE SessionInv'
    <3>1. user'.pw = user.pw /\ UNCHANGED <<sess, ended, excused>>
      BY <2>10 DEF ReactivateGuestForRefresh, SessionsTypeOK, UserType
    <3>2. CASE Stop(w)
      BY <2>1, <2>3, <3>1, <3>2
    <3>3. CASE Continue(w, "ready")
      <4> DEFINE j == [work[w] EXCEPT !.pc = "ready"]
      <4>1. At(w, j)
        BY <3>3, ContinueIsAt
      <4>2. j.pc = "ready" /\ j.sid = work[w].sid
        BY <2>0 DEF WorkType
      <4> HIDE DEF j
      <4>3. JobOK(j)
        BY <2>10, <4>2 DEF ReactivateGuestForRefresh, SessionInv, JobOK, Holding
      <4> QED BY <2>1, <3>1, <4>1, <4>2, <4>3, QuietStep
    <3> QED BY <2>10, <3>2, <3>3 DEF ReactivateGuestForRefresh
  <2>11. ASSUME NEW w \in Workers, Rotate_Lock(w) PROVE SessionInv'
    <3> DEFINE s == work[w].sid
               rot == [work[w] EXCEPT !.pc = "rotating"]
               fam == [work[w] EXCEPT !.pc = "family", !.snap = Family(sess[s].fam)]
    <3>1. s \in Stored /\ s \notin LockedBut(w) /\ UNCHANGED <<user, sess, ended, excused>>
      BY <2>11 DEF Rotate_Lock, SessionInv, JobOK, Holding
    <3>2. \/ sess[s].st = "live" /\ At(w, rot)
          \/ At(w, fam)
          \/ Stop(w)
      BY <2>11 DEF Rotate_Lock, At, Stop, SessionsTypeOK
    <3>3. /\ rot.pc = "rotating" /\ rot.sid = s
          /\ fam.pc = "family" /\ fam.sid = s /\ fam.snap = Family(sess[s].fam)
      BY <2>0 DEF WorkType
    <3> HIDE DEF rot, fam
    <3>4. JobOK(fam)
      BY <3>1, <3>3, <2>2 DEF JobOK, Family, Holding
    <3>5. CASE sess[s].st = "live" /\ At(w, rot)
      <4>1. JobOK(rot)
        BY <2>2, <3>1, <3>3, <3>5 DEF JobOK, Live, Holding
      <4> QED BY <2>1, <3>1, <3>3, <3>5, <4>1, QuietStep
    <3>6. CASE At(w, fam)
      BY <2>1, <3>1, <3>3, <3>4, <3>6, QuietStep
    <3>7. CASE Stop(w)
      BY <2>1, <2>3, <3>1, <3>7
    <3> QED BY <3>2, <3>5, <3>6, <3>7
  <2>12. ASSUME NEW w \in Workers, Rotate_Commit(w) PROVE SessionInv'
    <3> DEFINE old == work[w].sid
               n == Min(Sids \ Stored)
    <3>1. n \in Sids \ Stored /\ old \in Live
      BY <2>12, NextSession DEF Rotate_Commit, SessionInv, JobOK
    <3>2. sess' = [sess EXCEPT ![old].st = "revoked", ![old].pw = NoPassword,
                               ![n] = [sess[old] EXCEPT !.st = "live"]]
      BY <2>12 DEF Rotate_Commit
    <3>3. Excused(IF old \in excused \/ Chased(old) \/ SweepUnderWay THEN {n} ELSE {})
      BY <2>12 DEF Rotate_Commit
    <3>4. Stop(w) /\ UNCHANGED <<user, ended>> /\ old \notin LockedBut(w)
      BY <2>12 DEF Rotate_Commit, SessionInv, Held
    <3> HIDE DEF n
    <3>5. old # n /\ old \in Sids /\ sess[old] \in SessionType
      BY <2>2, <3>1 DEF SessionsTypeOK
    <3>6. /\ sess'[old] = [sess[old] EXCEPT !.st = "revoked", !.pw = NoPassword]
          /\ sess'[n] = [sess[old] EXCEPT !.st = "live"]
          /\ \A s \in Sids \ {old, n} : sess'[s] = sess[s]
      BY <3>1, <3>2, <3>5 DEF SessionsTypeOK
    <3>7. /\ sess'[old].st = "revoked" /\ sess'[old].fam = sess[old].fam
          /\ sess'[n].st = "live" /\ sess'[n].fam = sess[old].fam /\ sess'[n].pw = sess[old].pw
      BY <3>5, <3>6 DEF SessionType
    <3>8. Stored' = Stored \cup {n} /\ Live' = (Live \ {old}) \cup {n}
      BY <3>1, <3>5, <3>6, <3>7, ZenonT(30) DEF Stored, Live
    <3>9. sess[old].fam \in Stored
      BY <2>2, <3>1 DEF SessionInv, Families
    <3>10. \A s \in Live' \ {n} : sess'[s] = sess[s] /\ sess[s].fam # sess[old].fam
      BY <2>2, <3>1, <3>6, <3>8 DEF SessionInv, OneLivePerFamily
    <3>11. \A s \in Stored : sess'[s].fam = sess[s].fam
      BY <2>2, <3>1, <3>6, <3>7
    <3>12. old \in excused \/ Chased(old) \/ SweepUnderWay => n \in excused'
      BY <3>3, <3>8 DEF Excused
    <3>13. ASSUME NEW v \in Workers, work[v].pc \in {"family", "logout"},
                  sess[work[v].sid].fam = sess[old].fam
           PROVE  old \in excused \/ Chased(old)
      BY <3>1, <3>13 DEF Chased, SessionInv, JobOK
    <3>14. \A v \in Workers : work[v].pc = "scanned" => SweepUnderWay
      BY DEF SweepUnderWay
    <3>15. \/ sess[old].fam \in ended
           \/ sess[old].pw \notin {NoPassword, user.pw}
           => old \in excused
      BY <2>1, <3>1 DEF SessionInv, EndedFamiliesStayEnded
    <3>16. excused \cap Live' \subseteq excused'
      BY <3>3 DEF Excused
    <3>17. Live \cap LockedBut(w) \subseteq Live'
      BY <3>4, <3>8
    <3> HIDE DEF old
    <3> QED BY <3>1, <3>4, <3>7, <3>8, <3>9, <3>10, <3>11, <3>12, <3>13, <3>14, <3>15, <3>16,
               <3>17, StoringStep
  <2>13. ASSUME NEW w \in Workers, Rotate_RevokeFamily(w) PROVE SessionInv'
    <3> DEFINE f == sess[work[w].sid].fam
    <3>1. /\ JobOK(work[w]) /\ f \in Stored /\ Families /\ EndedFamiliesStayEnded
          /\ work[w].pc = "family"
      BY <2>2, <2>13 DEF Rotate_RevokeFamily, SessionInv, JobOK, Holding, Families
    <3>2. Revoked(work[w].snap) /\ Excused({}) /\ ended' = ended \cup {f} /\ UNCHANGED user
      BY <2>13 DEF Rotate_RevokeFamily
    <3>3. Live' = Live \ work[w].snap
      BY <3>2, RevokedFrame
    <3>4. \A s \in Live' : sess[s].fam \in ended' => s \in excused
      BY <3>1, <3>2, <3>3 DEF JobOK, EndedFamiliesStayEnded
    <3>5. Live \cap LockedBut(w) \subseteq Live'
      BY <2>13, <3>3 DEF Rotate_RevokeFamily
    <3>6. ended' \subseteq Stored
      BY <3>1, <3>2 DEF Families
    <3>7. At(w, NoWork)
      BY <2>13 DEF Rotate_RevokeFamily, Stop
    <3> QED BY <2>1, <2>2, <3>2, <3>3, <3>4, <3>5, <3>6, <3>7, RevokedFrame, EndingStep DEF Holding
  <2>14. ASSUME NEW w \in Workers, Logout_Revoke(w) PROVE SessionInv'
    <3> DEFINE s0 == work[w].sid
    <3>1. /\ JobOK(work[w]) /\ sess[s0].fam \in Stored /\ Families /\ EndedFamiliesStayEnded
          /\ work[w].pc = "logout"
      BY <2>2, <2>14 DEF Logout_Revoke, SessionInv, JobOK, Holding, Families
    <3>2. Revoked({s0}) /\ Excused({}) /\ ended' = ended \cup {sess[s0].fam} /\ UNCHANGED user
      BY <2>14 DEF Logout_Revoke
    <3>3. Live' = Live \ {s0}
      BY <3>2, RevokedFrame
    <3>4. \A s \in Live' : sess[s].fam \in ended' => s \in excused
      BY <3>1, <3>2, <3>3 DEF JobOK, EndedFamiliesStayEnded
    <3>5. Live \cap LockedBut(w) \subseteq Live'
      BY <2>14, <3>3 DEF Logout_Revoke
    <3>6. ended' \subseteq Stored
      BY <3>1, <3>2 DEF Families
    <3>7. At(w, NoWork)
      BY <2>14 DEF Logout_Revoke, Stop
    <3> QED BY <2>1, <2>2, <3>2, <3>3, <3>4, <3>5, <3>6, <3>7, RevokedFrame, EndingStep DEF Holding
  <2>15. ASSUME NEW w \in Workers, Sweep_Lock(w) PROVE SessionInv'
    <3>1. UNCHANGED <<user, sess, ended, excused>>
      BY <2>15 DEF Sweep_Lock
    <3>2. CASE Stop(w)
      BY <2>1, <2>3, <3>1, <3>2
    <3>3. CASE ~Stop(w)
      <4>1. PICK u : At(w, [work[w] EXCEPT !.pc = "locked", !.row = u])
        BY <2>15, <3>3 DEF Sweep_Lock, At, SessionsTypeOK
      <4>2. [work[w] EXCEPT !.pc = "locked", !.row = u].pc = "locked"
        BY <2>0 DEF WorkType
      <4> QED BY <2>1, <3>1, <4>1, <4>2, FreeStep DEF Holding
    <3> QED BY <3>2, <3>3
  <2>16. ASSUME NEW w \in Workers, Sweep_Scan(w) PROVE SessionInv'
    <3> DEFINE j == [work[w] EXCEPT !.pc = "scanned", !.snap = Live]
    <3>1. At(w, j) /\ UNCHANGED <<user, sess, ended, excused>>
      BY <2>16 DEF Sweep_Scan, At, SessionsTypeOK
    <3>2. j.pc = "scanned" /\ j.snap = Live
      BY <2>0 DEF WorkType
    <3> HIDE DEF j
    <3>3. JobOK(j)
      BY <3>2 DEF JobOK, Holding
    <3> QED BY <2>1, <3>1, <3>2, <3>3, QuietStep
  <2>17. ASSUME NEW w \in Workers, Sweep_Commit(w) PROVE SessionInv'
    <3>1. /\ Revoked(work[w].snap) /\ Excused({}) /\ UNCHANGED ended
          /\ work[w].snap \cap LockedBut(w) = {}
      BY <2>17 DEF Sweep_Commit
    <3>2. Live' = Live \ work[w].snap
      BY <3>1, RevokedFrame
    <3>3. Live' \subseteq excused
      BY <2>17, <3>2 DEF Sweep_Commit, SessionInv, JobOK
    <3>4. PICK j : At(w, j) /\ j.pc \in {"softdelete", "issue"}
      <4>1. \A pw : [NoWork EXCEPT !.pc = "softdelete"].pc = "softdelete"
                    /\ [NoWork EXCEPT !.pc = "issue", !.row.pw = pw].pc = "issue"
        BY DEF NoWork
      <4> QED BY <2>17, <4>1 DEF Sweep_Commit, Issuing
    <3>5. ended' \subseteq Stored
      BY <3>1 DEF SessionInv, Families
    <3>6. Live \cap LockedBut(w) \subseteq Live'
      BY <3>1, <3>2
    <3> QED BY <3>1, <3>2, <3>3, <3>4, <3>5, <3>6, RevokedFrame, EndingStep DEF Holding
  <2>18. ASSUME NEW w \in Workers, SoftDelete(w) PROVE SessionInv'
    <3>1. CASE user.deleted
      BY <2>1, <2>3, <2>18, <3>1 DEF SoftDelete
    <3>2. CASE ~user.deleted
      <4>1. /\ Retired(Stored) /\ Stored \cap LockedBut(w) = {} /\ At(w, NoWork)
            /\ UNCHANGED ended
        BY <2>18, <3>2 DEF SoftDelete, Stop
      <4>2. Live' = {} /\ Stored' = Stored /\ \A s \in Sids : sess'[s].fam = sess[s].fam
        BY <4>1, RetiredFrame
      <4>3. ended' \subseteq Stored
        BY <4>1 DEF SessionInv, Families
      <4>4. Live \cap LockedBut(w) \subseteq Live'
        BY <2>2, <4>1
      <4> QED BY <2>2, <4>1, <4>2, <4>3, <4>4, EndingStep DEF Holding
    <3> QED BY <3>1, <3>2
  <2>19. ASSUME NEW w \in Workers, Update(w) PROVE SessionInv'
    <3>1. \A s \in Live : sess[s].pw \notin {NoPassword, user'.pw} => s \in excused'
      BY <2>1, <2>19 DEF Update
    <3> QED BY <2>3, <2>19, <3>1 DEF Update
  <2>20. ASSUME NEW w \in Workers, ConvertGuest_Update(w) PROVE SessionInv'
    <3>1. \A s \in Live : sess[s].pw \notin {NoPassword, user'.pw} => s \in excused'
      BY <2>1, <2>20 DEF ConvertGuest_Update
    <3> QED BY <2>3, <2>5, <2>20, <3>1 DEF ConvertGuest_Update
  <2>21. ASSUME NEW w \in Workers, ConvertGuest_Code(w) PROVE SessionInv'
    BY <2>1, <2>5, <2>21 DEF ConvertGuest_Code
  <2>22. ASSUME NEW w \in Workers, VerifyEmail(w) PROVE SessionInv'
    <3>1. user'.pw = user.pw
      BY <2>22 DEF VerifyEmail, SessionsTypeOK, UserType
    <3> QED BY <2>4, <2>22, <3>1 DEF VerifyEmail
  <2>23. ASSUME user'.pw = user.pw, UNCHANGED <<sess, work, ended, excused>> PROVE SessionInv'
    BY <2>23 DEF SessionInv, Families, OneLivePerFamily, EndedFamiliesStayEnded,
                 OnlyRacesOutliveThePassword, JobOK, Held, LockedBut, Live, Stored
  <2>24. CASE ResendEmailVerification \/ RequestPasswordReset \/ GuestCleanup_Lock
    <3>1. user'.pw = user.pw
      BY <2>24 DEF ResendEmailVerification, RequestPasswordReset, GuestCleanup_Lock, SessionsTypeOK, UserType
    <3> QED BY <2>23, <2>24, <3>1 DEF ResendEmailVerification, RequestPasswordReset, GuestCleanup_Lock
  <2>25. CASE GuestCleanup_Retire
    <3>1. Retired(Stored) /\ UNCHANGED <<work, ended>>
      BY <2>25 DEF GuestCleanup_Retire
    <3>2. Live' = {} /\ Stored' = Stored /\ \A s \in Sids : sess'[s].fam = sess[s].fam
      BY <3>1, RetiredFrame
    <3>3. \A w \in Workers : work[w].pc \in {"idle", "validated", "ready"}
      BY <2>25 DEF GuestCleanup_Retire
    <3>4. \A w \in Workers : JobOK(work[w])' /\ Held(w)'
      BY <3>1, <3>2, <3>3 DEF SessionInv, JobOK, Held, Holding
    <3>5. Families'
      BY <2>2, <3>1, <3>2 DEF SessionInv, Families
    <3> QED BY <3>2, <3>4, <3>5 DEF SessionInv, OneLivePerFamily, EndedFamiliesStayEnded,
                                    OnlyRacesOutliveThePassword
  <2>26. CASE UNCHANGED sessionVars
    BY <2>23, <2>26 DEF sessionVars
  <2> QED BY <2>6, <2>7, <2>8, <2>9, <2>10, <2>11, <2>12, <2>13, <2>14, <2>15, <2>16, <2>17,
             <2>18, <2>19, <2>20, <2>21, <2>22, <2>24, <2>25, <2>26 DEF SessionsNext
<1> QED BY <1>1, <1>2, SessionsTypeCorrect, PTL DEF SessionsSpec

\* A spent, logged out or outdated credential opens nothing, but for the
\* sessions that slipped past a revocation.
THEOREM SessionsAreSafe == SessionsSpec => []Safety
<1>1. SessionsTypeOK /\ SessionInv => Safety
  BY DEF SessionInv, Safety
<1> QED BY <1>1, SessionsTypeCorrect, SessionInvariant, PTL
=============================================================================
