------------------------------- MODULE Digest -------------------------------
(***************************************************************************)
(* One row of list_notification_batches: what one person adds to one list  *)
(* is collected there until a minutely job of some instance announces it   *)
(* to the household (repositories/notification_repo.go,                    *)
(* jobs/list_notification_digest.go).  activity_notification_batches is    *)
(* written and read by the same statements with other keys.                *)
(*                                                                         *)
(* Additions are numbered in the order in which they are queued, which is  *)
(* also the order of the row's updated_at.  The names kept for the text    *)
(* are left out: what the digest counts is what it announces.              *)
(***************************************************************************)
EXTENDS Naturals, FiniteSets

CONSTANTS
    Workers,    \* instances of the server that run the job
    MaxAdds,    \* bound: additions
    MaxFaults   \* bound: statements that fail and processes that stop

\* Of the constants; MCLists assumes it.
DigestAssumption == MaxAdds \in Nat \ {0} /\ MaxFaults \in Nat

VARIABLES
    adds,      \* how many additions have been queued
    batch,     \* the row
    run,       \* what each instance's job is doing with it
    told,      \* how often each addition has been announced
    faults,    \* for the bound
    reset,     \* for the properties: additions a claimed row was cleared of,
    failed,    \*   those of a run that ended before it announced them,
    retaken    \*   and those claimed again because the lease had run out

vars == <<adds, batch, run, told, faults, reset, failed, retaken>>

Items == 1..MaxAdds
\* The row: counted (item_count), updated_at, deliver_after <= now, the thirty
\* minutes since first_at are over, claimed_at and whether it is too old.
Batch == [st : {"none", "open", "claimed"}, items : SUBSET Items, at : 0..MaxAdds,
          due : BOOLEAN, capped : BOOLEAN, lapsed : BOOLEAN]
Run == [pc : {"idle", "claimed", "dispatched"}, items : SUBSET Items, at : 0..MaxAdds]

TypeOK ==
    /\ adds \in 0..MaxAdds
    /\ batch \in Batch
    /\ run \in [Workers -> Run]
    /\ told \in [Items -> Nat]
    /\ faults \in 0..MaxFaults
    /\ reset \cup failed \cup retaken \subseteq Items
    /\ batch.st = "none" <=> batch.items = {}

NoBatch == [st |-> "none", items |-> {}, at |-> 0, due |-> FALSE,
            capped |-> FALSE, lapsed |-> FALSE]
Idle == [pc |-> "idle", items |-> {}, at |-> 0]

Init ==
    /\ adds = 0
    /\ batch = NoBatch
    /\ run = [w \in Workers |-> Idle]
    /\ told = [i \in Items |-> 0]
    /\ faults = 0
    /\ reset = {} /\ failed = {} /\ retaken = {}

Fault == faults < MaxFaults /\ faults' = faults + 1

---------------------------------------------------------------------------
(* The members' side.                                                      *)

\* The upsert: a claimed row is being announced, so it starts anew.  Each
\* addition postpones delivery, up to thirty minutes after the first.
Queued(i) ==
    IF batch.st = "claimed" THEN [NoBatch EXCEPT !.st = "open", !.items = {i}, !.at = i]
    ELSE [batch EXCEPT !.st = "open", !.items = @ \cup {i}, !.at = i,
                       !.due = batch.capped]

QueueListItemNotification ==
    /\ adds < MaxAdds
    /\ adds' = adds + 1
    /\ batch' = Queued(adds + 1)
    /\ reset' = IF batch.st = "claimed" THEN reset \cup (batch.items \ batch'.items)
                ELSE reset
    /\ UNCHANGED <<run, told, faults, failed, retaken>>

\* The person leaves the screen; a claimed row is left alone.
FlushListNotificationBatches ==
    /\ batch.st = "open" /\ ~batch.due
    /\ batch' = [batch EXCEPT !.due = TRUE]
    /\ UNCHANGED <<adds, run, told, faults, reset, failed, retaken>>

---------------------------------------------------------------------------
(* Time.                                                                   *)

BecomesDue ==
    /\ batch.st # "none" /\ ~batch.due
    /\ \E c \in BOOLEAN : batch' = [batch EXCEPT !.due = TRUE, !.capped = c]
    /\ UNCHANGED <<adds, run, told, faults, reset, failed, retaken>>

LeaseEnds ==
    /\ batch.st = "claimed" /\ ~batch.lapsed
    /\ batch' = [batch EXCEPT !.lapsed = TRUE]
    /\ UNCHANGED <<adds, run, told, faults, reset, failed, retaken>>

---------------------------------------------------------------------------
(* The job.                                                                *)

\* Mutant: a claim never lapses.
ClaimableOnce == batch.due /\ batch.st = "open"

Claimable == batch.due /\ (batch.st = "open" \/ (batch.st = "claimed" /\ batch.lapsed))

ClaimDueListNotificationBatches(w) ==
    /\ run[w].pc = "idle" /\ Claimable
    /\ batch' = [batch EXCEPT !.st = "claimed", !.lapsed = FALSE]
    /\ run' = [run EXCEPT ![w] = [pc |-> "claimed", items |-> batch.items, at |-> batch.at]]
    /\ retaken' = IF batch.lapsed THEN retaken \cup batch.items ELSE retaken
    /\ UNCHANGED <<adds, told, faults, reset, failed>>

\* The inbox rows are written, in one statement; a push follows by itself.
DispatchToGroup(w) ==
    /\ run[w].pc = "claimed"
    /\ told' = [i \in Items |-> told[i] + IF i \in run[w].items THEN 1 ELSE 0]
    /\ run' = [run EXCEPT ![w].pc = "dispatched"]
    /\ UNCHANGED <<adds, batch, faults, reset, failed, retaken>>

\* Mutant: whatever was added since is deleted with the row.
DeletesAnyway(w) == batch.st # "none"

\* Only the row that was claimed is deleted: an addition changes updated_at.
Deletes(w) == batch.st = "claimed" /\ batch.at = run[w].at

DeleteClaimedListNotificationBatch(w) ==
    /\ run[w].pc = "dispatched"
    /\ batch' = IF Deletes(w) THEN NoBatch ELSE batch
    /\ run' = [run EXCEPT ![w] = Idle]
    /\ UNCHANGED <<adds, told, faults, reset, failed, retaken>>

\* A statement fails, or the process stops: the claim is left to lapse.
Fails(w) ==
    /\ run[w].pc # "idle" /\ Fault
    /\ failed' = IF run[w].pc = "claimed" THEN failed \cup run[w].items ELSE failed
    /\ run' = [run EXCEPT ![w] = Idle]
    /\ UNCHANGED <<adds, batch, told, reset, retaken>>

Next ==
    \/ QueueListItemNotification \/ FlushListNotificationBatches
    \/ BecomesDue \/ LeaseEnds
    \/ \E w \in Workers :
          \/ ClaimDueListNotificationBatches(w) \/ DispatchToGroup(w)
          \/ DeleteClaimedListNotificationBatch(w) \/ Fails(w)

\* Time passes, the job runs every minute, and a run goes on to its end.
Fairness ==
    /\ WF_vars(BecomesDue) /\ WF_vars(LeaseEnds)
    /\ WF_vars(\E w \in Workers : ClaimDueListNotificationBatches(w))
    /\ \A w \in Workers :
          WF_vars(DispatchToGroup(w)) /\ WF_vars(DeleteClaimedListNotificationBatch(w))

Spec == Init /\ [][Next]_vars
FairSpec == Spec /\ Fairness

---------------------------------------------------------------------------
(* Properties.                                                             *)

\* An addition that nobody will announce any more was in the row when another
\* addition cleared it, and the run that had claimed it did not get through.
Forfeited == reset \cap failed

\* Every addition that was queued has been announced, is in the row, or is in
\* a run that is about to announce it, but for those forfeited.
NothingForgotten ==
    \A i \in 1..adds :
       \/ told[i] > 0
       \/ i \in batch.items
       \/ \E w \in Workers : run[w].pc = "claimed" /\ i \in run[w].items
       \/ i \in Forfeited

\* The household hears of an addition once; twice only if the lease of a claim
\* ran out before its run had deleted the row.
ToldOnce == \A i \in Items : told[i] > 1 => i \in retaken

\* Every addition is announced in the end, however the job's instances fail
\* and however often the row is added to, but for those forfeited.
EventuallyTold == \A i \in Items : adds >= i ~> told[i] > 0 \/ i \in Forfeited
=============================================================================
