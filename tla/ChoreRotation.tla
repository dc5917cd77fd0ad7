--------------------------- MODULE ChoreRotation ---------------------------
(***************************************************************************)
(* The rotation of one chore: whose turn it is, who is due next, and what  *)
(* happens to both when turns are completed, skipped, rescheduled, undone, *)
(* rotated by hand, scheduled by the daily job, and when the household     *)
(* changes (ChoreService, ChoreRepository, ChoreScheduler).                *)
(*                                                                         *)
(* The chore assigns turns in sequence; the policies "random" and          *)
(* "who-least-did-first" and unassigned chores are left out.  A request    *)
(* sends one statement after another without a lock, each an action here;  *)
(* CompleteAssignmentAndAdvance and ScheduleChore are one transaction      *)
(* each.  A unique index admits one pending assignment per chore.          *)
(***************************************************************************)
EXTENDS Integers, FiniteSets, Orders

CONSTANTS Users,      \* user ids, in the order of the users' UUIDs
          Procs,      \* goroutines: requests, the daily job
          Worlds      \* what may happen together

ASSUME UsersAssumption == Users \subseteq Nat \ {0} /\ IsFiniteSet(Users)

\* "crash": a process dies, or its request is cancelled, between statements.
\* "serial": requests do not overlap.
Operations == {"finish", "reschedule", "reassign", "undo", "rotate", "schedule"}
Circumstances == {"join", "leave", "crash", "serial"}

\* A world: the users there are, what may happen, a bound on assignments.
World == [users : SUBSET Users, may : SUBSET (Operations \cup Circumstances), rows : Nat \ {0}]
ASSUME WorldsAssumption == Worlds \subseteq World

VARIABLES world,      \* one of Worlds
          members,    \* the active members of the household
          state,      \* the chore_rotation_states row
          rows,       \* the chore_assignments rows, in order of assigned_at
          proc        \* proc[p]: the local state of a process

rotationVars == <<world, members, state, rows, proc>>

Statuses == {"pending", "completed", "skipped", "deleted"}
Finished == {"completed", "skipped"}
Rotation == [order : Seq(Users), index : Nat]

\* An assignment; since: the members who never left since it was made (history,
\* kept when requests do not overlap).
Row == [user : Users, status : Statuses, since : SUBSET Users]

\* A process: the turn it is about and the user it read or chose, the successor
\* of that turn and who had it, the rotation it read and the one it will write,
\* the members it listed.
Local == [pc : {"idle", "pending", "assignee", "state", "commit", "update", "list", "successor",
                "delete", "restore", "reread", "index", "advance", "assign", "insert",
                "members", "rotation", "sync"},
          op : Operations \cup {"none", "sync"}, row : Nat, user : Users \cup {0},
          other : Nat, heir : Users \cup {0},
          read : Rotation, next : Rotation, seen : SUBSET Users]

Nobody == [order |-> << >>, index |-> 0]
Idle == [pc |-> "idle", op |-> "none", row |-> 0, user |-> 0, other |-> 0, heir |-> 0,
         read |-> Nobody, next |-> Nobody, seen |-> {}]

TypeOK == /\ world \in Worlds
          /\ members \in SUBSET Users
          /\ state \in Rotation
          /\ rows \in Seq(Row) /\ Len(rows) <= world.rows
          /\ proc \in [Procs -> Local]

-----------------------------------------------------------------------------
(* The order and the index *)

\* ListMembershipsByGroup: ordered by user id.
Listed(S) == Only([u \in 1..Max(Users) |-> u], S)

\* indexOfUUID, from 0, and 0 for somebody who is not there.
IndexOf(order, u) == IF \E i \in DOMAIN order : order[i] = u
                     THEN (CHOOSE i \in DOMAIN order : order[i] = u) - 1 ELSE 0

InRange(s) == s.index < Len(s.order)
Due(s) == s.order[s.index + 1]
Advanced(s) == [order |-> s.order, index |-> (s.index + 1) % Len(s.order)]

\* The order after the household changed: who stays keeps the place, newcomers
\* come last, who is gone drops out.
NextOrder(order, eligible) ==
    Only(order, eligible) \o Listed(eligible \ ToSet(order))

\* Mutants of NextIndex: the index is kept, not the person; the index is kept
\* although the order may be shorter.
NextIndexStale(s, eligible) == s.index

NextIndexKept(s, eligible) ==
    LET next == NextOrder(s.order, eligible)
    IN IF s.index < Len(next) THEN s.index ELSE 0

\* The index points at the person it pointed at before, or, if gone, at the
\* first remaining one after.
NextIndex(s, eligible) ==
    LET next == NextOrder(s.order, eligible)
        n == Len(s.order)
        from == IF s.index < n THEN s.index ELSE 0
        At(step) == s.order[((from + step) % n) + 1]
        staying == {step \in 0..(n - 1) : At(step) \in eligible}
    IN IF next = << >> \/ staying = {} THEN 0
       ELSE IF n = 1 THEN (IndexOf(next, s.order[1]) + 1) % Len(next)
       ELSE IndexOf(next, At(Min(staying)))

Reconciled(s, eligible) ==
    [order |-> NextOrder(s.order, eligible), index |-> NextIndex(s, eligible)]

-----------------------------------------------------------------------------
(* The tables *)

PendingIn(rs) == {i \in DOMAIN rs : rs[i].status = "pending"}
FinishedIn(rs) == {i \in DOMAIN rs : rs[i].status \in Finished}
InsertPending(rs, u) == Append(rs, [user |-> u, status |-> "pending",
                                    since |-> IF "serial" \in world.may THEN members ELSE {}])

\* Mutant of Unique: the index is missing.
AlwaysUnique(rs) == Len(rs) <= world.rows

\* idx_chore_assignments_one_pending_per_chore
Unique(rs) == Len(rs) <= world.rows /\ Cardinality(PendingIn(rs)) <= 1

InPhase(p, pc) == proc[p].pc = pc
Become(p, s) == proc' = [proc EXCEPT ![p] = s]
Goto(p, pc) == Become(p, [proc[p] EXCEPT !.pc = pc])
Finish(p) == Become(p, Idle)

\* CreateChore: order and index 0, then the first turn, then index 1.  A crash
\* leaves what was written so far.
RotationInit ==
    /\ world \in Worlds
    /\ members \in (SUBSET world.users) \ {{}}
    /\ LET s == [order |-> Listed(members), index |-> 0]
       IN \/ state = Advanced(s) /\ rows = InsertPending(<< >>, Due(s))
          \/ "crash" \in world.may /\ state = s /\ rows \in {<< >>, InsertPending(<< >>, Due(s))}
    /\ proc = [p \in Procs |-> Idle]

-----------------------------------------------------------------------------
(* Requests and the daily job *)

Free(p) == /\ InPhase(p, "idle")
           /\ "serial" \in world.may => \A q \in Procs : InPhase(q, "idle")

\* A request arrives, or the job begins.
Start(p, op) ==
    /\ Free(p) /\ op \in world.may
    /\ Become(p, [Idle EXCEPT !.op = op, !.pc = IF op = "undo" THEN "list" ELSE "pending"])
    /\ UNCHANGED <<world, members, state, rows>>

\* GetPendingAssignmentByChore: completing, skipping and rescheduling need a
\* pending turn.
ReadPending(p) ==
    /\ InPhase(p, "pending") /\ proc[p].op \in {"finish", "reschedule", "reassign"}
    /\ \/ PendingIn(rows) = {} /\ Finish(p)
       \/ \E i \in PendingIn(rows) :
            Become(p, [proc[p] EXCEPT !.row = i, !.user = rows[i].user,
                         !.pc = CASE proc[p].op = "finish" -> "state"
                                  [] proc[p].op = "reschedule" -> "update"
                                  [] proc[p].op = "reassign" -> "assignee"])
    /\ UNCHANGED <<world, members, state, rows>>

\* RescheduleChore with an assignee: requireMembership.
Reassign(p) ==
    /\ InPhase(p, "assignee")
    /\ \E u \in Users :
         IF u \in members THEN Become(p, [proc[p] EXCEPT !.user = u, !.pc = "update"])
         ELSE Finish(p)
    /\ UNCHANGED <<world, members, state, rows>>

\* Rotating, and the job's list of chores, want no pending turn.
ReadNoPending(p) ==
    /\ InPhase(p, "pending") /\ proc[p].op \in {"rotate", "schedule"}
    /\ IF PendingIn(rows) = {} THEN Goto(p, "state") ELSE Finish(p)
    /\ UNCHANGED <<world, members, state, rows>>

\* GetRotationState, and nextAssignee: the person due next gets the turn.  An
\* empty order is an error, an index out of range a panic.
ReadState(p) ==
    /\ InPhase(p, "state") /\ proc[p].op \in {"finish", "rotate"}
    /\ IF InRange(state)
       THEN Become(p, [proc[p] EXCEPT !.next = Advanced(state), !.user = Due(state),
                         !.pc = IF proc[p].op = "finish" THEN "commit" ELSE "advance"])
       ELSE Finish(p)
    /\ UNCHANGED <<world, members, state, rows>>

\* scheduleChore repairs an index that is out of range.
ReadScheduled(p) ==
    /\ InPhase(p, "state") /\ proc[p].op = "schedule"
    /\ LET s == IF InRange(state) THEN state ELSE [state EXCEPT !.index = 0]
       IN IF s.order = << >> THEN Finish(p)
          ELSE Become(p, [proc[p] EXCEPT !.read = state, !.next = Advanced(s),
                            !.user = Due(s), !.pc = "insert"])
    /\ UNCHANGED <<world, members, state, rows>>

\* CompleteAssignmentAndAdvance: finish the turn if it is still pending, write
\* the rotation and insert the next turn, or change nothing.
Commit(p) ==
    /\ InPhase(p, "commit") /\ Len(rows) < world.rows
    /\ \E status \in Finished :
         LET done == [rows EXCEPT ![proc[p].row].status = status]
         IN IF proc[p].row \in PendingIn(rows) /\ Unique(InsertPending(done, proc[p].user))
            THEN rows' = InsertPending(done, proc[p].user) /\ state' = proc[p].next
            ELSE UNCHANGED <<rows, state>>
    /\ Finish(p)
    /\ UNCHANGED <<world, members>>

\* A row is written if it is still there and the unique index admits it.
WriteRow(i, u) ==
    LET written == [rows EXCEPT ![i] = [@ EXCEPT !.user = u, !.status = "pending"]]
    IN IF rows[i].status # "deleted" /\ Unique(written) THEN rows' = written
       ELSE UNCHANGED rows

\* UpdateAssignment of RescheduleChore: the whole row, status included.
Reschedule(p) ==
    /\ InPhase(p, "update")
    /\ WriteRow(proc[p].row, proc[p].user)
    /\ Finish(p)
    /\ UNCHANGED <<world, members, state>>

\* RotateChore: UpdateRotationState, then CreateAssignment.
Advance(p) ==
    /\ InPhase(p, "advance")
    /\ state' = proc[p].next
    /\ Goto(p, "assign")
    /\ UNCHANGED <<world, members, rows>>

Assign(p) ==
    /\ InPhase(p, "assign") /\ Len(rows) < world.rows
    /\ rows' = IF Unique(InsertPending(rows, proc[p].user))
               THEN InsertPending(rows, proc[p].user) ELSE rows
    /\ Finish(p)
    /\ UNCHANGED <<world, members, state>>

\* ScheduleChore: insert the turn and set the index, leaving the order alone.
Insert(p) ==
    /\ InPhase(p, "insert") /\ Len(rows) < world.rows
    /\ IF Unique(InsertPending(rows, proc[p].user))
       THEN /\ rows' = InsertPending(rows, proc[p].user)
            /\ state' = [state EXCEPT !.index = proc[p].next.index]
       ELSE UNCHANGED <<rows, state>>
    /\ Finish(p)
    /\ UNCHANGED <<world, members>>

-----------------------------------------------------------------------------
(* UndoLastChoreExecution *)

\* ListAssignments: the latest finished turn, newest first.
ListFinished(p) ==
    /\ InPhase(p, "list")
    /\ IF FinishedIn(rows) = {} THEN Finish(p)
       ELSE LET i == Max(FinishedIn(rows))
            IN Become(p, [proc[p] EXCEPT !.pc = "successor", !.row = i, !.user = rows[i].user])
    /\ UNCHANGED <<world, members, state, rows>>

\* The pending turn, unless it is the restored one itself.
ReadSuccessor(p) ==
    /\ InPhase(p, "successor")
    /\ \/ PendingIn(rows) \ {proc[p].row} = {} /\ Goto(p, "restore")
       \/ \E i \in PendingIn(rows) \ {proc[p].row} :
            Become(p, [proc[p] EXCEPT !.pc = "delete", !.other = i, !.heir = rows[i].user])
    /\ UNCHANGED <<world, members, state, rows>>

\* DeleteAssignment, by id and whatever its status is by now.
DeleteSuccessor(p) ==
    /\ InPhase(p, "delete")
    /\ IF rows[proc[p].other].status = "deleted" THEN Finish(p) /\ UNCHANGED rows
       ELSE /\ rows' = [rows EXCEPT ![proc[p].other].status = "deleted"]
            /\ Goto(p, "restore")
    /\ UNCHANGED <<world, members, state>>

\* UpdateAssignment: the turn is pending again.
Restore(p) ==
    /\ InPhase(p, "restore")
    /\ WriteRow(proc[p].row, proc[p].user)
    /\ IF proc[p].other # 0 /\ PendingIn(rows') = {proc[p].row}
       THEN Goto(p, "reread") ELSE Finish(p)
    /\ UNCHANGED <<world, members, state>>

\* GetRotationState: whoever had the successor is due next again.
Reread(p) ==
    /\ InPhase(p, "reread")
    /\ Become(p, [proc[p] EXCEPT !.pc = "index",
                    !.next = [state EXCEPT !.index = IndexOf(state.order, proc[p].heir)]])
    /\ UNCHANGED <<world, members, state, rows>>

\* UpdateRotationState: order and index as read.
RestoreIndex(p) ==
    /\ InPhase(p, "index")
    /\ state' = proc[p].next
    /\ Finish(p)
    /\ UNCHANGED <<world, members, rows>>

-----------------------------------------------------------------------------
(* The household changes, and its request rebuilds the rotation *)

Join(p, u) ==
    /\ Free(p) /\ "join" \in world.may
    /\ u \in world.users \ members
    /\ members' = members \cup {u}
    /\ Become(p, [Idle EXCEPT !.op = "sync", !.pc = "members"])
    /\ UNCHANGED <<world, state, rows>>

\* The last member, being the last admin, cannot leave.
Leave(p, u) ==
    /\ Free(p) /\ "leave" \in world.may
    /\ u \in members /\ members # {u}
    /\ members' = members \ {u}
    /\ rows' = [i \in DOMAIN rows |-> [rows[i] EXCEPT !.since = @ \ {u}]]
    /\ Become(p, [Idle EXCEPT !.op = "sync", !.pc = "members"])
    /\ UNCHANGED <<world, state>>

\* RebuildMemberOrdersForGroup: list the members, read the rotation, write it.
ListMembers(p) ==
    /\ InPhase(p, "members")
    /\ Become(p, [proc[p] EXCEPT !.pc = "rotation", !.seen = members])
    /\ UNCHANGED <<world, members, state, rows>>

ReadRotation(p) ==
    /\ InPhase(p, "rotation")
    /\ LET next == Reconciled(state, proc[p].seen)
       IN IF next = state THEN Finish(p)
          ELSE Become(p, [proc[p] EXCEPT !.pc = "sync", !.read = state, !.next = next])
    /\ UNCHANGED <<world, members, state, rows>>

SyncMemberOrder(p) ==
    /\ InPhase(p, "sync")
    /\ state' = proc[p].next
    /\ Finish(p)
    /\ UNCHANGED <<world, members, rows>>

Abort(p) ==
    /\ "crash" \in world.may
    /\ ~InPhase(p, "idle")
    /\ Finish(p)
    /\ UNCHANGED <<world, members, state, rows>>

RotationNext == \E p \in Procs :
           \/ \E op \in Operations : Start(p, op)
           \/ \E u \in Users : Join(p, u) \/ Leave(p, u)
           \/ ReadPending(p) \/ Reassign(p) \/ ReadNoPending(p) \/ ReadState(p)
           \/ ReadScheduled(p)
           \/ Commit(p) \/ Reschedule(p) \/ Advance(p) \/ Assign(p) \/ Insert(p)
           \/ ListFinished(p) \/ ReadSuccessor(p) \/ DeleteSuccessor(p) \/ Restore(p)
           \/ Reread(p) \/ RestoreIndex(p)
           \/ ListMembers(p) \/ ReadRotation(p) \/ SyncMemberOrder(p) \/ Abort(p)

RotationSpec == RotationInit /\ [][RotationNext]_rotationVars

-----------------------------------------------------------------------------
(* Properties *)

\* In a household that does not change, however many people tap Done or Skip at
\* the same time and whatever the daily job does, each turn goes to whoever
\* follows the previous one in the order: nobody is passed over, nobody is
\* served twice (CompleteAssignmentAndAdvance).
Follower(u) == state.order[((IndexOf(state.order, u) + 1) % Len(state.order)) + 1]
TurnsInOrder ==
    world.may \subseteq {"finish", "reschedule", "schedule"} =>
        \A i \in 1..(Len(rows) - 1) : rows[i + 1].user = Follower(rows[i].user)

\* Requests one after the other: while people join, or while people leave,
\* nobody has two turns without everyone else who was there all along having one
\* in between ("members who stay keep their place", RebuildMemberOrdersForGroup;
\* UndoLastChoreExecution).
Given == {i \in DOMAIN rows : rows[i].status # "deleted"}
Undisturbed == /\ "serial" \in world.may
               /\ world.may \cap {"reassign", "crash"} = {}
               /\ "leave" \in world.may => world.may \cap {"join", "undo"} = {}
FairTurns ==
    Undisturbed =>
        \A i, j \in Given :
           (i < j /\ rows[i].user = rows[j].user) =>
              \A u \in rows[i].since \ {rows[i].user} :
                 \E k \in Given : i < k /\ k < j /\ rows[k].user = u

\* "The person due next stays due next" when the rotation is rebuilt
\* (RebuildMemberOrdersForGroup), unless that person has the turn already.
\* The code does not keep it: with one member left the rebuild cannot tell whose
\* turn is pending.
DueStaysDue ==
    [][\A p \in Procs :
         (InPhase(p, "sync") /\ state' = proc[p].next /\ state = proc[p].read /\ InRange(state)
            /\ Due(state) \in members
            /\ \A i \in PendingIn(rows) : rows[i].user # Due(state)) =>
              Due(state)' = Due(state)]_rotationVars

\* A finished turn is pending again only by an undo: an answer to an older
\* screen, which writes the whole row, never reopens it (RescheduleChore, the
\* unique index).
FinishedStaysFinished ==
    [][\A i \in FinishedIn(rows) :
         "undo" \notin world.may => rows'[i].status = rows[i].status]_rotationVars

\* The index leaves the order, so that completing panics, in one way only: the
\* daily job sets the index that follows an order which has been shortened
\* since (ScheduleChore).
OnlyStaleScheduleBreaksIndex ==
    [][(InRange(state) /\ ~InRange(state)') =>
         \E p \in Procs : /\ InPhase(p, "insert") /\ proc'[p] = Idle
                          /\ Len(proc[p].read.order) > Len(state.order)]_rotationVars

\* The rotation is well formed, keeps its order against simultaneous answers
\* and the daily job, and stays fair while the household changes
\* (rotateAndAssign, reconcileMemberOrder).
FairRotation == TypeOK /\ TurnsInOrder /\ FairTurns
=============================================================================
