---------------------------- MODULE ListItemSync ----------------------------
(***************************************************************************)
(* One shopping list item on the server and in the cache of one device:    *)
(* offline edits with the version they were based on, the 409 that answers *)
(* a stale one, its resolution, and the refreshes that follow every event  *)
(* (lib/repositories/list_repository.dart,                                 *)
(* lib/repositories/outbox_drainer.dart, handlers/list.go,                 *)
(* services/list_service.go, repositories/list_repo.go).                   *)
(*                                                                         *)
(* The other devices of the household are the requests they send, with or  *)
(* without a version, one at a time.  A field's value is the number of the *)
(* edit that set it, 0 at first.  Versions are compared in whole seconds,  *)
(* and the device's clock shows the server's time.  An operation whose     *)
(* answer is lost is answered the same again when it has an idempotency    *)
(* key, which is a delay; the queue itself is in Outbox, the event stream  *)
(* in EventStream.                                                         *)
(***************************************************************************)
EXTENDS Naturals, SequencesExt

CONSTANTS
    NoVersion,         \* no version
    Fields,       \* what an edit may change
    CheckField,   \* the field that setAllChecked changes
    MaxWrites,    \* bound: edits and reorderings, of this device and the others
    MaxClock,     \* bound: seconds
    MaxLosses     \* bound: refreshes that fail, answers that get lost

ASSUME SyncAssumption ==
    /\ CheckField \in Fields
    /\ {MaxWrites, MaxClock, MaxLosses} \subseteq Nat
    /\ NoVersion \notin 0..MaxClock

VARIABLES
    clock,      \* seconds
    row,        \* the server's row: its fields and updated_at
    cache,      \* the device's copy, and where its updated_at comes from
    queue,      \* outbox_ops about the item
    request,    \* the operation being sent
    conflict,   \* unresolved conflicts
    dirty,      \* a refresh is scheduled
    fetch,      \* lists fetched and not yet applied, by who asked
    other,      \* the edit of another device that the server is applying
    edits,      \* number of edits so far
    mine,       \* those of this device
    reorders,
    losses,
    behind,     \* history: the copy may stay out of date
    repeated    \* history: an edit was applied again, its answer lost

server == <<clock, row>>
device == <<cache, queue, request, conflict, dirty, fetch>>
budget == <<edits, mine, reorders, losses>>
history == <<behind, repeated>>
vars == <<server, device, other, budget, history>>

Edits == 1..MaxWrites
Seconds == 0..MaxClock
Askers == {"event", "screen"}
Origins == {"list", "answer", "device"}

Fielded == [Fields -> 0..MaxWrites]
Row == [ver : Fielded, at : Seconds]
Copy == [ver : Fielded, at : Seconds, from : Origins]
\* An operation: the edit of a field, or a reordering (edit 0).
Op == [edit : 0..MaxWrites, field : Fields, base : Seconds \cup {NoVersion},
       from : Origins, saw : Fielded, keyed : BOOLEAN, again : BOOLEAN]

TypeOK ==
    /\ clock \in Seconds
    /\ row \in Row
    /\ cache \in Copy
    /\ queue \in Seq(Op)
    /\ request \in [pc : {"none", "sent", "read", "answered", "refused"}, row : Row]
    /\ \A k \in conflict : k.op \in Op /\ k.row \in Row
    /\ dirty \in BOOLEAN
    /\ fetch \in [Askers -> [pc : {"none", "applying"}, row : Row, late : BOOLEAN]]
    /\ other \in [edit : 0..MaxWrites, field : Fields, row : Row]
    /\ edits \in 0..MaxWrites /\ mine \subseteq Edits
    /\ reorders \in 0..MaxWrites /\ losses \in 0..MaxLosses
    /\ behind \in BOOLEAN /\ repeated \in BOOLEAN

Blank == [ver |-> [f \in Fields |-> 0], at |-> 0]
NoRequest == [pc |-> "none", row |-> Blank]
NoFetch == [pc |-> "none", row |-> Blank, late |-> FALSE]
Nobody == [edit |-> 0, field |-> CheckField, row |-> Blank]
Stamped(r, from) == [ver |-> r.ver, at |-> r.at, from |-> from]

Init ==
    /\ clock = 0
    /\ row = Blank
    /\ cache = Stamped(Blank, "list")
    /\ queue = <<>> /\ request = NoRequest /\ conflict = {}
    /\ dirty = FALSE /\ fetch = [a \in Askers |-> NoFetch]
    /\ other = Nobody
    /\ edits = 0 /\ mine = {} /\ reorders = 0 /\ losses = 0
    /\ behind = FALSE /\ repeated = FALSE

---------------------------------------------------------------------------
(* The device.                                                             *)

IsEdit(op) == op.edit # 0
\* pendingOpCountForEntity and getPendingListItemIds: an edit is still queued.
Pending == \E i \in DOMAIN queue : IsEdit(queue[i])

Room == edits + reorders < MaxWrites
Fault == losses < MaxLosses /\ losses' = losses + 1
Enqueue(op) == queue' = Append(queue, op)
\* The local row is patched at once and stamped with the device's own clock.
Patch(ver) == cache' = [ver |-> ver, at |-> clock, from |-> "device"]

Edited(f) ==
    /\ Room
    /\ edits' = edits + 1
    /\ mine' = mine \cup {edits + 1}
    /\ Patch([cache.ver EXCEPT ![f] = edits + 1])

\* The version an edit is based on, unless it follows one still queued.
Base == IF Pending THEN NoVersion ELSE cache.at

NewOp(f, base) ==
    [edit |-> edits + 1, field |-> f, base |-> base, from |-> cache.from,
     saw |-> cache.ver, keyed |-> TRUE, again |-> FALSE]

updateItemOfflineFirst(f) ==
    /\ Edited(f)
    /\ Enqueue(NewOp(f, Base))
    /\ UNCHANGED <<server, request, conflict, dirty, fetch, other, reorders, losses, history>>

\* Checking everything sends one edit per row, without a version.
setAllCheckedOfflineFirst ==
    /\ Edited(CheckField)
    /\ Enqueue(NewOp(CheckField, NoVersion))
    /\ UNCHANGED <<server, request, conflict, dirty, fetch, other, reorders, losses, history>>

\* Positions change, and with them the local row's stamp.
reorderItemsOfflineFirst ==
    /\ Room
    /\ reorders' = reorders + 1
    /\ Patch(cache.ver)
    /\ Enqueue([NewOp(CheckField, NoVersion) EXCEPT !.edit = 0])
    /\ UNCHANGED <<server, request, conflict, dirty, fetch, other, edits, mine, losses, history>>

Sent == Head(queue)
Done == queue' = Tail(queue) /\ request' = NoRequest

\* The drain sends the oldest operation.
Send ==
    /\ queue # <<>> /\ request.pc = "none"
    /\ request' = [request EXCEPT !.pc = "sent"]
    /\ UNCHANGED <<server, cache, queue, conflict, dirty, fetch, other, budget, history>>

\* The answer replaces the local row, then the operation is dropped.
syncUpdateItem ==
    /\ request.pc = "answered"
    /\ cache' = IF IsEdit(Sent) THEN Stamped(request.row, "answer") ELSE cache
    /\ Done
    /\ UNCHANGED <<server, conflict, dirty, fetch, other, budget, history>>

\* The answer of a resolution, which has no idempotency key, is lost.
AnswerLost ==
    /\ request.pc = "answered" /\ ~Sent.keyed
    /\ Fault
    /\ queue' = [queue EXCEPT ![1].again = TRUE]
    /\ request' = NoRequest
    /\ UNCHANGED <<server, cache, conflict, dirty, fetch, other, edits, mine, reorders, history>>

recordConflict ==
    /\ request.pc = "refused"
    /\ conflict' = conflict \cup {[op |-> Sent, row |-> request.row]}
    /\ Done
    /\ UNCHANGED <<server, cache, dirty, fetch, other, budget, history>>

\* The row of the conflict replaces the local row, whatever that holds by now.
resolveConflictAcceptServer(k) ==
    /\ cache' = Stamped(k.row, "list")
    /\ conflict' = conflict \ {k}
    /\ behind' = (behind \/ k.row.ver # row.ver)
    /\ UNCHANGED <<server, queue, request, dirty, fetch, other, budget, repeated>>

\* The edit is queued again, on top of the version that refused it.
resolveConflictKeepLocal(k) ==
    /\ Enqueue([k.op EXCEPT !.base = k.row.at, !.from = "list",
                            !.saw = k.row.ver, !.keyed = FALSE])
    /\ conflict' = conflict \ {k}
    /\ UNCHANGED <<server, cache, request, dirty, fetch, other, budget, history>>

\* A refresh starts: the list is read as it is now.
Fetched(a) ==
    /\ fetch[a].pc = "none"
    /\ fetch' = [b \in Askers |->
          IF b = a THEN [pc |-> "applying", row |-> row, late |-> FALSE]
          ELSE [fetch[b] EXCEPT !.late = fetch[b].pc # "none"]]
    /\ UNCHANGED <<server, cache, queue, request, conflict, other, budget, history>>

\* Mutant: an event that arrives during a refresh is not remembered.
runItemsRefreshForgets ==
    /\ dirty /\ dirty' = FALSE
    /\ IF fetch["event"].pc = "none" THEN Fetched("event")
       ELSE UNCHANGED <<server, cache, queue, request, conflict, fetch, other, budget, history>>

\* One refresh after events runs at a time; another waits for it.
runItemsRefresh == dirty /\ dirty' = FALSE /\ Fetched("event")

OpenScreen == Fetched("screen") /\ UNCHANGED dirty

\* The fetched row replaces the local one, but not while an edit is queued.
\* A list that was overtaken by a later one is applied all the same.
reconcileListItems(a) ==
    /\ fetch[a].pc = "applying"
    /\ fetch' = [fetch EXCEPT ![a] = NoFetch]
    /\ IF Pending
       THEN behind' = TRUE /\ UNCHANGED cache
       ELSE /\ cache' = Stamped(fetch[a].row, "list")
            /\ behind' = fetch[a].late
    /\ UNCHANGED <<server, queue, request, conflict, dirty, other, budget, repeated>>

RefreshFails(a) ==
    /\ fetch[a].pc = "applying"
    /\ Fault
    /\ fetch' = [fetch EXCEPT ![a] = NoFetch]
    /\ behind' = TRUE
    /\ UNCHANGED <<server, cache, queue, request, conflict, dirty, other, edits, mine, reorders, repeated>>

---------------------------------------------------------------------------
(* The server.                                                             *)

\* Mutant: compared the wrong way round.
ConflictsBackwards(base) == base # NoVersion /\ base > row.at

\* The row has moved on since the version the edit was based on.
Conflicts(base) == base # NoVersion /\ row.at > base

\* UpdateItem, up to the comparison: 409 with the current row, or go on.
UpdateItem_Read ==
    /\ request.pc = "sent" /\ IsEdit(Sent)
    /\ request' = [pc |-> IF Conflicts(Sent.base) THEN "refused" ELSE "read", row |-> row]
    /\ UNCHANGED <<server, cache, queue, conflict, dirty, fetch, other, budget, history>>

\* The requested field on top of the row that was read; all of it is written.
Written(op, read) == [read.ver EXCEPT ![op.field] = op.edit]

\* The event that follows a write reaches the writer too.
Publish == dirty' = TRUE

\* The answer carries the updated_at that was read, not the one just written.
UpdateItem_Write ==
    LET ver == Written(Sent, request.row) IN
    /\ request.pc = "read"
    /\ row' = [ver |-> ver, at |-> clock]
    /\ request' = [pc |-> "answered", row |-> [ver |-> ver, at |-> request.row.at]]
    /\ Publish
    /\ repeated' = (repeated \/ Sent.again)
    /\ UNCHANGED <<clock, cache, queue, conflict, fetch, other, budget, behind>>

\* A reordering is one statement; only the stamp of the row shows it here.
ReorderItems ==
    /\ \/ /\ request.pc = "sent" /\ ~IsEdit(Sent)
          /\ request' = [request EXCEPT !.pc = "answered"]
          /\ UNCHANGED reorders
       \/ /\ Room
          /\ reorders' = reorders + 1
          /\ UNCHANGED request
    /\ row' = [row EXCEPT !.at = clock]
    /\ Publish
    /\ UNCHANGED <<clock, cache, queue, conflict, fetch, other, edits, mine, losses, history>>

\* Another device edits the item: read and, some time later, write.
Other_Read(f) ==
    /\ other = Nobody /\ Room
    /\ edits' = edits + 1
    /\ other' = [edit |-> edits + 1, field |-> f, row |-> row]
    /\ UNCHANGED <<server, device, mine, reorders, losses, history>>

Other_Write ==
    /\ other # Nobody
    /\ row' = [ver |-> Written(other, other.row), at |-> clock]
    /\ other' = Nobody
    /\ Publish
    /\ UNCHANGED <<clock, cache, queue, request, conflict, fetch, budget, history>>

Tick ==
    /\ clock < MaxClock
    /\ clock' = clock + 1
    /\ UNCHANGED <<row, device, other, budget, history>>

---------------------------------------------------------------------------
Next ==
    \/ \E f \in Fields : updateItemOfflineFirst(f) \/ Other_Read(f)
    \/ setAllCheckedOfflineFirst \/ reorderItemsOfflineFirst
    \/ Send \/ syncUpdateItem \/ AnswerLost \/ recordConflict
    \/ \E k \in conflict : resolveConflictAcceptServer(k) \/ resolveConflictKeepLocal(k)
    \/ runItemsRefresh \/ OpenScreen
    \/ \E a \in Askers : reconcileListItems(a) \/ RefreshFails(a)
    \/ UpdateItem_Read \/ UpdateItem_Write \/ ReorderItems \/ Other_Write
    \/ Tick

Spec == Init /\ [][Next]_vars

---------------------------------------------------------------------------
(* Properties.                                                             *)

Writes == request.pc = "read" /\ request'.pc = "answered"
\* The value about to be overwritten is another device's, and was not what
\* the user saw.
Unseen(op) == row.ver[op.field] \notin mine \cup {0, op.saw[op.field]}

\* An edit overwrites a change that its author had not seen, without a word,
\* only if it carried no version, a version made up by the device's clock or
\* one of the very second of that change, or if the change landed while the
\* edit was being applied.
SilentOverwritesAreKnown ==
    [][Writes /\ Unseen(Sent) =>
          \/ Sent.base = NoVersion
          \/ Sent.from = "device"
          \/ request.row.at = Sent.base
          \/ request.row # row]_vars

\* A field that an edit does not name keeps its value, unless it was changed
\* between the edit's read and its write.
OtherFieldsAreKept ==
    [][Writes /\ request.row = row =>
          \A f \in Fields \ {Sent.field} : row'.ver[f] = row.ver[f]]_vars

\* A user who had seen everything is told of a conflict only if the version
\* was the answer to an earlier edit, or came from the device's clock, or was
\* taken before a reordering or before an edit whose answer was lost was
\* applied once more.
FalseAlarmsAreKnown ==
    request.pc = "refused" /\ Sent.saw = request.row.ver =>
        Sent.from # "list" \/ repeated \/ reorders > 0

\* A device with nothing left to send, to resolve or to fetch shows the
\* server's row, unless, since it last fetched the list, a refresh failed,
\* passed over the row because of a queued edit or was overtaken by another,
\* or an old conflict was resolved.
QuietDevicesAgree ==
    /\ queue = <<>> /\ conflict = {} /\ ~dirty /\ ~behind
    /\ \A a \in Askers : fetch[a].pc = "none"
    => cache.ver = row.ver

\* What the device shows: no conflict without a named cause, and no lasting
\* difference from the server without one (_syncUpdateItem, refreshItems).
Safety == TypeOK /\ FalseAlarmsAreKnown /\ QuietDevicesAgree

\* What an edit does on the server: it overwrites neither what its author had
\* not seen nor what it does not name, without a named cause (UpdateItem).
EditsAreCareful == SilentOverwritesAreKnown /\ OtherFieldsAreKept
=============================================================================
