------------------------------ MODULE MCLists ------------------------------
(***************************************************************************)
(* Instances of ListItems, Digest and Reminder for TLC.  The rows of a     *)
(* list, the digest of what is added to it and its reminder share no       *)
(* state, so their product holds nothing that they do not: a behaviour     *)
(* shows one of them, its part, and leaves the others as they began.       *)
(***************************************************************************)
EXTENDS TLC

CONSTANTS None, Members, MaxRows, MaxAmount, Workers, MaxAdds, MaxTimes, MaxFaults

VARIABLES
    part,
    item, member, job,
    adds, batch, digesting, told, digestFaults, reset, failed, digestRetaken,
    list, last, reminding, inbox, pushed, faults, swallowed, retaken

Items == INSTANCE ListItems
Digests == INSTANCE Digest
    WITH run <- digesting, faults <- digestFaults, retaken <- digestRetaken
Reminders == INSTANCE Reminder WITH run <- reminding

ASSUME ListsAssumption ==
    /\ Items!ListItemsAssumption
    /\ Digests!DigestAssumption
    /\ Reminders!ReminderAssumption

itemVars == <<item, member, job>>
digestVars == <<adds, batch, digesting, told, digestFaults, reset, failed, digestRetaken>>
reminderVars == <<list, last, reminding, inbox, pushed, faults, swallowed, retaken>>
listsVars == <<part, itemVars, digestVars, reminderVars>>

ListsInit ==
    /\ part \in {"items", "digest", "reminder"}
    /\ Items!Init /\ Digests!Init /\ Reminders!Init

ItemStep ==
    /\ part = "items" /\ Items!Next
    /\ UNCHANGED <<part, digestVars, reminderVars>>
DigestStep ==
    /\ part = "digest" /\ Digests!Next
    /\ UNCHANGED <<part, itemVars, reminderVars>>
ReminderStep ==
    /\ part = "reminder" /\ Reminders!Next
    /\ UNCHANGED <<part, itemVars, digestVars>>

ListsNext == ItemStep \/ DigestStep \/ ReminderStep

\* A part that is left alone has nothing to be fair to: no step of it is enabled.
ListsSpec == ListsInit /\ [][ListsNext]_listsVars /\ Digests!Fairness /\ Reminders!Fairness

-----------------------------------------------------------------------------
(* The properties of the three, stated and commented in their modules.       *)

\* At any moment, whatever stopped half-way: no queued addition has dropped out
\* of its digest and none was announced twice without a lapsed lease; a
\* reminder is in an inbox once, is marked as sent only when everybody has it,
\* and is pushed again only by a retry (list_notification_digest.go,
\* list_reminder.go).
ListsSafety ==
    /\ Items!TypeOK /\ Digests!TypeOK /\ Reminders!TypeOK
    /\ Digests!NothingForgotten /\ Digests!ToldOnce
    /\ Reminders!OneRowPerTime /\ Reminders!SentWasDelivered /\ Reminders!RepeatsAreRetries

\* No step of two requests on one list brings a deleted row back, gives a claim
\* to somebody who is no member, adds to a row nobody sees, or leaves a batch's
\* item on two open rows (ListService).
RowsAreKept ==
    /\ Items!GoneStaysGone /\ Items!ClaimantsAreMembers
    /\ Items!AddsAreShown /\ Items!BatchKeepsOneOpen

\* Every addition to a list is announced in the end (Digest).
EventuallyTold == Digests!EventuallyTold

\* A due reminder is marked as sent in the end (Reminder).
DueIsSent == Reminders!DueIsSent
=============================================================================
