------------------------------ MODULE Reminder ------------------------------
(***************************************************************************)
(* The one reminder of a shopping list, which a minutely job of some       *)
(* instance claims, writes into every member's inbox, pushes and marks as  *)
(* sent (jobs/list_reminder.go, repositories/list_repo.go,                 *)
(* services/notification_service.go).  Pinwall posts and chore turns are   *)
(* reminded of by the same statements, but never rescheduled.              *)
(*                                                                         *)
(* A reminder is for a time; times are numbered in the order in which they *)
(* are set, for each must lie in the future when it is.                    *)
(***************************************************************************)
EXTENDS Naturals, FiniteSets

CONSTANTS
    Workers,    \* instances of the server that run the job
    Members,    \* who wants reminders
    MaxTimes,   \* bound: times a reminder is set to
    MaxFaults   \* bound: pushes and statements that fail, processes that stop

\* Of the constants; MCLists assumes it.
ReminderAssumption == MaxTimes \in Nat \ {0} /\ MaxFaults \in Nat

VARIABLES
    list,       \* the list's row
    last,       \* the latest time set
    run,        \* what each instance's job is doing
    inbox,      \* rows each member has for each time
    pushed,     \* pushes each member got for each time
    faults,     \* for the bound
    swallowed,  \* for the properties: times marked as sent by a run that had
    retaken     \*   claimed another, and times claimed again after a lease

vars == <<list, last, run, inbox, pushed, faults, swallowed, retaken>>

Times == 1..MaxTimes
Never == 0
List == [at : Times \cup {Never}, due : BOOLEAN, sent : BOOLEAN,
         claim : {"no", "held", "lapsed"}, archived : BOOLEAN]
Run == [pc : {"idle", "claimed", "written", "pushed"}, at : Times \cup {Never}]

TypeOK ==
    /\ list \in List
    /\ last \in Times \cup {Never}
    /\ run \in [Workers -> Run]
    /\ inbox \in [Members \X Times -> Nat]
    /\ pushed \in [Members \X Times -> Nat]
    /\ faults \in 0..MaxFaults
    /\ swallowed \cup retaken \subseteq Times
    /\ list.sent => list.claim = "no"

Idle == [pc |-> "idle", at |-> Never]

Init ==
    /\ list = [at |-> Never, due |-> FALSE, sent |-> FALSE, claim |-> "no",
               archived |-> FALSE]
    /\ last = Never
    /\ run = [w \in Workers |-> Idle]
    /\ inbox = [r \in Members \X Times |-> 0]
    /\ pushed = inbox
    /\ faults = 0
    /\ swallowed = {} /\ retaken = {}

Fault == faults < MaxFaults /\ faults' = faults + 1

---------------------------------------------------------------------------
(* The members' side.                                                      *)

\* A new time, or none, drops the delivery state of the old one.
Scheduled(t) == [list EXCEPT !.at = t, !.due = FALSE, !.sent = FALSE, !.claim = "no"]

SetListReminder(t) ==
    /\ t = Never \/ t = last + 1
    /\ list' = Scheduled(t)
    /\ last' = IF t = Never THEN last ELSE t
    /\ UNCHANGED <<run, inbox, pushed, faults, swallowed, retaken>>

SetListArchived(b) ==
    /\ list.archived # b
    /\ list' = [list EXCEPT !.archived = b]
    /\ UNCHANGED <<last, run, inbox, pushed, faults, swallowed, retaken>>

---------------------------------------------------------------------------
(* Time.                                                                   *)

BecomesDue ==
    /\ list.at # Never /\ ~list.due
    /\ list' = [list EXCEPT !.due = TRUE]
    /\ UNCHANGED <<last, run, inbox, pushed, faults, swallowed, retaken>>

LeaseEnds ==
    /\ list.claim = "held"
    /\ list' = [list EXCEPT !.claim = "lapsed"]
    /\ UNCHANGED <<last, run, inbox, pushed, faults, swallowed, retaken>>

---------------------------------------------------------------------------
(* The job.                                                                *)

\* Mutant: a claim never lapses.
FreeOnce == list.claim = "no"

Free == list.claim # "held"

ListDueReminders(w) ==
    /\ run[w].pc = "idle"
    /\ list.due /\ ~list.sent /\ ~list.archived /\ Free
    /\ list' = [list EXCEPT !.claim = "held"]
    /\ run' = [run EXCEPT ![w] = [pc |-> "claimed", at |-> list.at]]
    /\ retaken' = IF list.claim = "lapsed" THEN retaken \cup {list.at} ELSE retaken
    /\ UNCHANGED <<last, inbox, pushed, faults, swallowed>>

\* The key of a row names list and time: a retry finds the row it wrote.
Inserted(t) == [r \in DOMAIN inbox |-> IF r[2] = t THEN 1 ELSE inbox[r]]

CreateNotificationsBatchIdempotent(w) ==
    /\ run[w].pc = "claimed"
    /\ inbox' = Inserted(run[w].at)
    /\ run' = [run EXCEPT ![w].pc = "written"]
    /\ UNCHANGED <<list, last, pushed, faults, swallowed, retaken>>

\* One member whose devices all failed makes the whole delivery fail.
Delivered(missed) == missed = {}

\* Everybody is tried, whoever failed before; a failure ends the run with the
\* claim left to lapse.
DeliverPush(w, missed) ==
    /\ run[w].pc = "written"
    /\ pushed' = [r \in DOMAIN pushed |->
                    pushed[r] + IF r[2] = run[w].at /\ r[1] \notin missed THEN 1 ELSE 0]
    /\ IF missed = {} THEN UNCHANGED faults ELSE Fault
    /\ run' = [run EXCEPT ![w] = IF Delivered(missed) THEN [@ EXCEPT !.pc = "pushed"]
                                 ELSE Idle]
    /\ UNCHANGED <<list, last, inbox, swallowed, retaken>>

Marked == [list EXCEPT !.sent = TRUE, !.claim = "no"]

\* The row is marked unless it is already, whatever its time is by now.
MarkReminderSent(w) ==
    /\ run[w].pc = "pushed"
    /\ run' = [run EXCEPT ![w] = Idle]
    /\ IF list.sent THEN UNCHANGED <<list, swallowed>>
       ELSE /\ list' = Marked
            /\ swallowed' = IF list.at = run[w].at THEN swallowed
                            ELSE swallowed \cup ({list.at} \ {Never})
    /\ UNCHANGED <<last, inbox, pushed, faults, retaken>>

\* A statement fails, or the process stops.
Fails(w) ==
    /\ run[w].pc # "idle" /\ Fault
    /\ run' = [run EXCEPT ![w] = Idle]
    /\ UNCHANGED <<list, last, inbox, pushed, swallowed, retaken>>

Works(w) ==
    \/ CreateNotificationsBatchIdempotent(w)
    \/ \E missed \in SUBSET Members : DeliverPush(w, missed)
    \/ MarkReminderSent(w)

Next ==
    \/ \E t \in Times \cup {Never} : SetListReminder(t)
    \/ \E b \in BOOLEAN : SetListArchived(b)
    \/ BecomesDue \/ LeaseEnds
    \/ \E w \in Workers : ListDueReminders(w) \/ Works(w) \/ Fails(w)

\* Time passes, the job runs every minute, and a run goes on to its end.
Fairness ==
    /\ WF_vars(BecomesDue) /\ WF_vars(LeaseEnds)
    /\ WF_vars(\E w \in Workers : ListDueReminders(w))
    /\ \A w \in Workers : WF_vars(Works(w))

Spec == Init /\ [][Next]_vars
FairSpec == Spec /\ Fairness

---------------------------------------------------------------------------
(* Properties.                                                             *)

\* Nobody finds the reminder for one time twice in the inbox, however often
\* its delivery is retried.
OneRowPerTime == \A r \in Members \X Times : inbox[r] <= 1

\* A reminder marked as sent is in every member's inbox and was pushed to each
\* of them, unless it was set while a run was delivering the one before.
SentWasDelivered ==
    list.sent /\ list.at \in Times \ swallowed =>
        \A m \in Members : inbox[<<m, list.at>>] = 1 /\ pushed[<<m, list.at>>] > 0

\* A member is pushed the reminder for one time again only when a delivery was
\* retried because its lease had run out.
RepeatsAreRetries == \A r \in Members \X Times : pushed[r] > 1 => r[2] \in retaken

\* A reminder that is due is marked as sent in the end, unless it is set to
\* another time, cleared or archived first.
DueIsSent ==
    \A t \in Times : list.due /\ list.at = t ~> list.sent \/ list.at # t \/ list.archived
=============================================================================
