------------------------------- MODULE Outbox -------------------------------
(***************************************************************************)
(* The durable write queue of the Flutter client: OutboxCoordinator and    *)
(* OutboxDrainer over the outbox_ops table, against a server that answers, *)
(* fails, is unreachable, or answers too late.                             *)
(*                                                                         *)
(* The user's writes land in the table at once; a drain sends them one by  *)
(* one, repository by repository.  Dart is single threaded, so an action   *)
(* is what runs between two awaits.  The server replays the answer of an   *)
(* operation it has already applied and answers 409 with Retry-After while *)
(* one is still running (module Idempotency), so it is modelled here by    *)
(* the order in which it first applies the operations.                     *)
(***************************************************************************)
EXTENDS Naturals, Orders

CONSTANTS Ops,          \* operations the user may queue, each once
          EntityOf,     \* EntityOf[op]: the row op writes
          RepoOf,       \* RepoOf[op] \in 1..Repos: the repository that drains op
          FoldingSets,  \* which operations may be of the kind that folds
          Repos,        \* repositories, in the order drain() visits them
          MaxAttempts,  \* kOutboxMaxAttempts
          BatchLimit,   \* rows of one batch
          Trouble,      \* bound on faults: lost answers, outages, restarts,
                        \* pauses of the app ..
          Retries       \* bound on the user's taps on Retry

ASSUME EntityAssumption == DOMAIN EntityOf = Ops
ASSUME RepoAssumption == RepoOf \in [Ops -> 1..Repos] /\ FoldingSets \subseteq SUBSET Ops
\* A kind of row is queued and drained by one repository.
ASSUME RowAssumption == \A a, b \in Ops : EntityOf[a] = EntityOf[b] => RepoOf[a] = RepoOf[b]
ASSUME BoundAssumption == /\ {Repos, MaxAttempts, BatchLimit} \subseteq Nat \ {0}
                          /\ {Trouble, Retries} \subseteq Nat

VARIABLES folding,    \* operations that later ones on the same row replace
          queue,      \* outbox_ops in (created_at, rowid) order
          attempts,   \* attempt_count of each queued operation
          recent,     \* operations whose last_attempt_at is within the backoff
          gone,       \* gone[op]: why op left the table without being applied
          stage,      \* what the drain is doing
          repo,       \* the repository it is at
          batch,      \* the rest of the batch it read
          reply,      \* the server's answer to the operation in flight
          session,    \* the idle timer is armed
          retry,      \* the retry timer is armed
          online, signedIn,
          awake,      \* the app is in the foreground
          applied,    \* the operations the server applied, in order
          late,       \* requests still running at the server, nobody waiting
          written,    \* operations the user queued
          failed,     \* operations of which some attempt failed
          trouble, retries

table == <<queue, attempts, recent, gone>>
coordinator == <<stage, repo, batch, reply>>
timers == <<session, retry>>
server == <<applied, late>>
history == <<folding, written, failed>>
budget == <<trouble, retries>>
outboxVars == <<table, coordinator, timers, online, signedIn, awake, server, history, budget>>

\* A drain that has counted what is left ends next, and re-arms itself or rests.
Stages == {"idle", "probe", "fetch", "next", "wait", "count", "rearm", "rest"}
Replies == {"none", "sent", "ok", "transient", "permanent", "conflict"}
Endings == {"none", "conflict", "resolved", "discarded", "folded"}

OutboxTypeOK ==
    /\ folding \in FoldingSets
    /\ queue \in Seq(Ops) /\ IsInjective(queue)
    /\ attempts \in [Ops -> 0..MaxAttempts]
    /\ {recent, late, written, failed} \subseteq SUBSET Ops
    /\ gone \in [Ops -> Endings]
    /\ stage \in Stages /\ repo \in 1..Repos /\ reply \in Replies
    /\ batch \in Seq(Ops)
    /\ {session, retry, online, signedIn, awake} \subseteq BOOLEAN
    /\ applied \in Seq(Ops) /\ IsInjective(applied)
    /\ trouble \in 0..Trouble /\ retries \in 0..Retries

OutboxInit ==
    /\ folding \in FoldingSets
    /\ queue = <<>> /\ attempts = [op \in Ops |-> 0] /\ recent = {}
    /\ gone = [op \in Ops |-> "none"]
    /\ stage = "idle" /\ repo = 1 /\ batch = <<>> /\ reply = "none"
    /\ session = FALSE /\ retry = FALSE
    /\ online \in BOOLEAN /\ signedIn = TRUE /\ awake = TRUE
    /\ applied = <<>> /\ late = {}
    /\ written = {} /\ failed = {}
    /\ trouble = 0 /\ retries = 0

-----------------------------------------------------------------------------
Queued(op) == op \in ToSet(queue)
Applied(op) == op \in ToSet(applied)

\* Operations that still wait for a drain (attempt_count < maxAttempts).
Pending(op) == Queued(op) /\ attempts[op] < MaxAttempts

\* The queued operations of a set, in their order.
Among(ops) == Only(queue, ops)

Without(ops) == Among(Ops \ ops)

\* Rows leave the table, and with them their counts and time stamps.
Delete(ops) ==
    /\ queue' = Without(ops)
    /\ attempts' = [op \in Ops |-> IF op \in ops THEN 0 ELSE attempts[op]]
    /\ recent' = recent \ ops

Spend == trouble < Trouble /\ trouble' = trouble + 1

\* drain(): nothing while a drain runs or nobody is signed in; a forced one
\* skips the connectivity probe.
Drain(force) ==
    IF stage # "idle" \/ ~signedIn THEN UNCHANGED coordinator
    ELSE /\ stage' = IF force THEN "fetch" ELSE "probe"
         /\ repo' = 1
         /\ UNCHANGED <<batch, reply>>

\* Mutant of Write: created_at ties are not broken by the row's position.
WriteTied(op) ==
    /\ op \notin written
    /\ queue' \in {Append(queue, op), <<op>> \o queue}
    /\ written' = written \cup {op}
    /\ session' = TRUE
    /\ UNCHANGED <<gone, attempts, recent, coordinator, retry, online, signedIn, awake, server,
                   folding, failed, budget>>

\* A repository queues an operation in a transaction and reports the write.
\* An edit folds the queued edits of the same row into itself, sent or not.
Write(op) ==
    /\ op \notin written
    /\ LET folded == {o \in folding : /\ op \in folding /\ Queued(o)
                                      /\ EntityOf[o] = EntityOf[op]}
       IN /\ queue' = Append(Without(folded), op)
          /\ attempts' = [o \in Ops |-> IF o \in folded THEN 0 ELSE attempts[o]]
          /\ recent' = recent \ folded
          /\ gone' = [o \in Ops |-> IF o \in folded THEN "folded" ELSE gone[o]]
    /\ written' = written \cup {op}
    /\ session' = TRUE
    /\ UNCHANGED <<coordinator, retry, online, signedIn, awake, server, folding, failed,
                   budget>>

\* flushSession(): the idle window elapsed, or the screen was left.
FlushSession ==
    /\ session
    /\ session' = FALSE
    /\ Drain(FALSE)
    /\ UNCHANGED <<table, retry, online, signedIn, awake, server, history, budget>>

\* The retry timer fires.
RetryTimer ==
    /\ retry
    /\ retry' = FALSE
    /\ Drain(FALSE)
    /\ UNCHANGED <<table, session, online, signedIn, awake, server, history, budget>>

DeadLettered(op) == Queued(op) /\ attempts[op] = MaxAttempts

\* Something waits for the user: a conflict, or an operation that failed for good.
Unreviewed == \E op \in Ops : gone[op] = "conflict" \/ DeadLettered(op)

\* The status poll of the app in the foreground nudges a drain that died without
\* re-arming itself, unless the status is "conflict" or "error".
Poll ==
    /\ awake /\ online /\ ~Unreviewed
    /\ stage = "idle" /\ ~session
    /\ \E op \in Ops : Pending(op)
    /\ Drain(FALSE)
    /\ UNCHANGED <<table, timers, online, signedIn, awake, server, history, budget>>

\* The connectivity probe of drain() answers.
Probe ==
    /\ stage = "probe"
    /\ stage' = IF online THEN "fetch" ELSE "idle"
    /\ UNCHANGED <<repo, batch, reply, table, timers, online, signedIn, awake, server, history, budget>>

-----------------------------------------------------------------------------
\* Mutant of Ready: "last_attempt_at IS NULL" is forgotten.
ReadyAgain(op) == RepoOf[op] = repo /\ attempts[op] < MaxAttempts /\ op \in failed \ recent

\* getOutboxBatchByTypes: attempts below the threshold, backoff elapsed.
Ready(op) == RepoOf[op] = repo /\ attempts[op] < MaxAttempts /\ op \notin recent

ReadyBatch == LET ready == Among({op \in Ops : Ready(op)})
              IN SubSeq(ready, 1, IF Len(ready) < BatchLimit THEN Len(ready) ELSE BatchLimit)

FetchBatch ==
    /\ stage = "fetch"
    /\ batch' = ReadyBatch
    /\ stage' = "next"
    /\ UNCHANGED <<repo, reply, table, timers, online, signedIn, awake, server, history, budget>>

\* The pass is over: on to the next repository, or count what is left.
EndPass ==
    IF repo < Repos
    THEN /\ repo' = repo + 1 /\ stage' = "fetch" /\ batch' = <<>>
    ELSE /\ stage' = "count" /\ batch' = <<>> /\ repo' = 1

\* The batch is used up.
BatchDone ==
    /\ stage = "next" /\ batch = <<>>
    /\ EndPass
    /\ UNCHANGED <<reply, table, timers, online, signedIn, awake, server, history, budget>>

\* What is left is counted in one statement...
CountLeft ==
    /\ stage = "count"
    /\ stage' = IF \E op \in Ops : Pending(op) THEN "rearm" ELSE "rest"
    /\ UNCHANGED <<repo, batch, reply, table, timers, online, signedIn, awake, server, history, budget>>

\* ... and the drain is over when the answer is there.
EndDrain ==
    /\ stage \in {"rearm", "rest"}
    /\ retry' = (retry \/ stage = "rearm")
    /\ stage' = "idle"
    /\ UNCHANGED <<repo, batch, reply, table, session, online, signedIn, awake, server, history, budget>>

\* The next operation is read again and sent, or skipped if it is gone.
TakeNext ==
    /\ stage = "next" /\ batch # <<>>
    /\ IF Queued(Head(batch))
       THEN stage' = "wait" /\ reply' = "sent" /\ UNCHANGED batch
       ELSE batch' = Tail(batch) /\ UNCHANGED <<stage, reply>>
    /\ UNCHANGED <<repo, table, timers, online, signedIn, awake, server, history, budget>>

Current == Head(batch)

\* The server takes the request: it applies it, replays an earlier answer, is
\* still busy with an earlier attempt, rejects it for good, answers 409 with
\* its current row, or fails.
Serve ==
    /\ stage = "wait" /\ reply = "sent"
    /\ \/ /\ ~Applied(Current) /\ Current \notin late
          /\ applied' = Append(applied, Current) /\ reply' = "ok" /\ UNCHANGED trouble
       \/ /\ Applied(Current)
          /\ reply' = "ok" /\ UNCHANGED <<applied, trouble>>
       \/ /\ Current \in late
          /\ reply' = "transient" /\ UNCHANGED <<applied, trouble>>
       \/ /\ ~Applied(Current) /\ Current \notin late
          /\ reply' \in {"permanent", "conflict"} /\ UNCHANGED <<applied, trouble>>
       \/ /\ reply' = "transient" /\ Spend /\ UNCHANGED applied
    /\ UNCHANGED <<stage, repo, batch, late, table, timers, online, signedIn, awake, history, retries>>

\* A request nobody waits for ends at the server.
ServeLate(op) ==
    /\ op \in late
    /\ late' = late \ {op}
    /\ applied' = IF Applied(op) THEN applied ELSE Append(applied, op)
    /\ UNCHANGED <<table, coordinator, timers, online, signedIn, awake, history, budget>>

\* markOutboxAttempt: stamp the backoff, count only what the server answered.
MarkAttempt(op, counts) ==
    /\ attempts' = IF counts /\ Queued(op) /\ attempts[op] < MaxAttempts
                   THEN [attempts EXCEPT ![op] = @ + 1] ELSE attempts
    /\ recent' = IF Queued(op) THEN recent \cup {op} ELSE recent
    /\ UNCHANGED <<queue, gone>>

\* The handler's own clean-up after an answer of the server: delete the row.
Succeed ==
    /\ stage = "wait" /\ reply = "ok"
    /\ Delete({Current})
    /\ stage' = "next" /\ reply' = "none" /\ batch' = Tail(batch)
    /\ UNCHANGED <<gone, repo, timers, online, signedIn, awake, server, history, budget>>

\* transient: count the attempt and stop the pass.
StopTransient ==
    /\ stage = "wait" /\ reply = "transient"
    /\ MarkAttempt(Current, TRUE)
    /\ reply' = "none"
    /\ EndPass
    /\ failed' = failed \cup {Current}
    /\ UNCHANGED <<timers, online, signedIn, awake, server, folding, written, budget>>

\* No answer arrives.  A timeout counts as an attempt, a lost connection does
\* not; either way the server may be running the request.
NoAnswer ==
    /\ stage = "wait" /\ reply = "sent"
    /\ Spend \/ (~online /\ UNCHANGED trouble)
    /\ \E counts \in BOOLEAN : MarkAttempt(Current, counts)
    /\ \/ online /\ ~Applied(Current) /\ late' = late \cup {Current}
       \/ late' = late
    /\ reply' = "none"
    /\ EndPass
    /\ failed' = failed \cup {Current}
    /\ UNCHANGED <<timers, online, signedIn, awake, applied, folding, written, retries>>

\* permanent: dead-letter the operation and go on with the batch.
DeadLetter ==
    /\ stage = "wait" /\ reply = "permanent"
    /\ attempts' = IF Queued(Current) THEN [attempts EXCEPT ![Current] = MaxAttempts]
                   ELSE attempts
    /\ recent' = IF Queued(Current) THEN recent \cup {Current} ELSE recent
    /\ failed' = failed \cup {Current}
    /\ stage' = "next" /\ reply' = "none" /\ batch' = Tail(batch)
    /\ UNCHANGED <<queue, gone, repo, timers, online, signedIn, awake, server, folding, written, budget>>

\* Mutant of RecordConflict: the row is dropped and nothing is recorded.
DropConflict ==
    /\ stage = "wait" /\ reply = "conflict"
    /\ Delete({Current})
    /\ stage' = "next" /\ reply' = "none" /\ batch' = Tail(batch)
    /\ UNCHANGED <<gone, repo, timers, online, signedIn, awake, server, history, budget>>

\* conflict: keep both versions for the user and drop the operation.
RecordConflict ==
    /\ stage = "wait" /\ reply = "conflict"
    /\ gone' = [gone EXCEPT ![Current] = "conflict"]
    /\ Delete({Current})
    /\ stage' = "next" /\ reply' = "none" /\ batch' = Tail(batch)
    /\ UNCHANGED <<repo, timers, online, signedIn, awake, server, history, budget>>

\* Five seconds pass since the last attempt.
BackoffElapses(op) ==
    /\ op \in recent
    /\ recent' = recent \ {op}
    /\ UNCHANGED <<queue, attempts, gone, coordinator, timers, online, signedIn, awake, server,
                   history, budget>>

-----------------------------------------------------------------------------
\* retryFailed / retryOp: re-arm dead-lettered operations and force a drain.
Retry(ops) ==
    /\ ops # {} /\ \A op \in ops : DeadLettered(op)
    /\ retries < Retries /\ retries' = retries + 1
    /\ attempts' = [op \in Ops |-> IF op \in ops THEN 0 ELSE attempts[op]]
    /\ recent' = recent \ ops
    /\ Drain(TRUE)
    /\ UNCHANGED <<queue, gone, timers, online, signedIn, awake, server, history, trouble>>

RetryFailed == Retry({op \in Ops : DeadLettered(op)})
RetryOp(op) == Retry({op})

\* discardFailedOp: the user gives up on a dead-lettered operation.
Discard(op) ==
    /\ DeadLettered(op)
    /\ Delete({op})
    /\ gone' = [gone EXCEPT ![op] = "discarded"]
    /\ UNCHANGED <<coordinator, timers, online, signedIn, awake, server, history, budget>>

\* "Keep mine" queues the user's edit again, as a new operation on the version
\* that the server sent; it is for edits that do not fold.
KeepMine(op, o) ==
    /\ gone[op] = "conflict" /\ {op, o} \cap folding = {}
    /\ o \notin written /\ EntityOf[o] = EntityOf[op]
    /\ queue' = Append(queue, o)
    /\ written' = written \cup {o}
    /\ UNCHANGED <<gone, attempts, recent, coordinator, timers, online, signedIn, awake,
                   server, folding, failed, budget>>

\* A conflict is closed: at once by "Use theirs", and by "Keep mine" in another
\* statement than the one that queued the edit, which notes a local write.
Resolve(op) ==
    /\ gone[op] = "conflict"
    /\ gone' = [gone EXCEPT ![op] = "resolved"]
    /\ session' \in {session, TRUE}
    /\ UNCHANGED <<queue, attempts, recent, coordinator, retry, online, signedIn, awake,
                   server, history, budget>>

\* Connectivity is lost, or comes back and is announced.
GoOffline ==
    /\ online /\ Spend
    /\ online' = FALSE
    /\ UNCHANGED <<table, coordinator, timers, signedIn, awake, server, history, retries>>

GoOnline ==
    /\ ~online
    /\ online' = TRUE
    /\ Drain(FALSE)
    /\ UNCHANGED <<table, timers, signedIn, awake, server, history, budget>>

\* The session ends; signing in again drains what waited.
SignOut ==
    /\ signedIn /\ Spend
    /\ signedIn' = FALSE
    /\ UNCHANGED <<table, coordinator, timers, online, awake, server, history, retries>>

SignIn ==
    /\ ~signedIn
    /\ signedIn' = TRUE
    /\ IF stage = "idle" THEN stage' = "probe" /\ repo' = 1 /\ UNCHANGED <<batch, reply>>
       ELSE UNCHANGED coordinator
    /\ UNCHANGED <<table, timers, online, awake, server, history, budget>>

\* The app leaves the foreground and flushes; when it is back, it drains.
Pause ==
    /\ awake /\ Spend
    /\ awake' = FALSE
    /\ session' = (session /\ ~signedIn)
    /\ Drain(FALSE)
    /\ UNCHANGED <<table, retry, online, signedIn, server, history, retries>>

Resume ==
    /\ ~awake
    /\ awake' = TRUE
    /\ Drain(FALSE)
    /\ UNCHANGED <<table, timers, online, signedIn, server, history, budget>>

\* The app is killed and started again: only the table survives.  A request
\* in flight may still be running.  start() drains if the network is there.
Restart ==
    /\ Spend
    /\ late' = IF stage = "wait" /\ reply = "sent" /\ ~Applied(Current)
               THEN late \cup {Current} ELSE late
    /\ stage' = IF online /\ signedIn THEN "probe" ELSE "idle"
    /\ repo' = 1 /\ batch' = <<>> /\ reply' = "none"
    /\ session' = FALSE /\ retry' = FALSE /\ awake' = TRUE
    /\ UNCHANGED <<table, online, signedIn, applied, history, retries>>

\* The drain goes on by itself: each of these belongs to a stage of its own.
DrainStep == Probe \/ FetchBatch \/ BatchDone \/ CountLeft \/ EndDrain \/ TakeNext \/ Serve
             \/ Succeed \/ StopTransient \/ DeadLetter \/ RecordConflict

\* What the phone and the server do by themselves.
Machine == \/ FlushSession \/ RetryTimer \/ Poll \/ DrainStep
           \/ \E op \in Ops : ServeLate(op) \/ BackoffElapses(op)
           \/ GoOnline \/ SignIn \/ Resume

Environment == \/ \E op \in Ops : Write(op) \/ RetryOp(op) \/ Discard(op) \/ Resolve(op)
               \/ \E op, o \in Ops : KeepMine(op, o)
               \/ RetryFailed \/ NoAnswer \/ GoOffline \/ SignOut \/ Pause \/ Restart

OutboxNext == Machine \/ Environment

OutboxSpec == OutboxInit /\ [][OutboxNext]_outboxVars

\* The phone goes on: sessions flush, the poll polls, a drain takes its next step.
\* Backoffs elapse, outages end, the user signs in and opens the app again.  The
\* retry timer and the requests that nobody waits for need no fairness: the poll and
\* the limit on attempts make up for them.
Recovery == GoOnline \/ SignIn \/ Resume
Fairness == /\ WF_outboxVars(FlushSession \/ Poll \/ DrainStep)
            /\ WF_outboxVars(Recovery)
            /\ WF_outboxVars(\E op \in Ops : BackoffElapses(op))

FairSpec == OutboxSpec /\ Fairness

-----------------------------------------------------------------------------
(* Properties *)

\* What the user wrote is never lost: it is still queued, the server applied
\* it, the user discarded it, or has it as a conflict to review or reviewed it; or
\* all this holds of a later edit of the same row that it was folded into.
Accounted(op) == Queued(op) \/ Applied(op) \/ gone[op] \in {"conflict", "resolved", "discarded"}
NoLostWrite ==
    \A op \in written :
       \/ Accounted(op)
       \/ /\ gone[op] = "folded"
          /\ \E o \in (written \cap folding) \ {op} : EntityOf[o] = EntityOf[op] /\ Accounted(o)

\* The drain order: "per-entity ordering must hold" (outbox_drainer.dart:52-55).
\* As long as an earlier operation on a row is pending, so that it will be sent
\* without the user's help, the server applies no later one on the same row.  The
\* code does not keep it: an operation in backoff is left out of the next batch,
\* the later one is not (app_database.dart:989-993).  CleanOrder is what it keeps.
EntityOrder ==
    [][\A a, b \in Ops :
         (EntityOf[a] = EntityOf[b] /\ Before(queue, a, b) /\ Pending(a) /\ ~Applied(a))
            => ~ (Applied(b)' /\ ~Applied(b))]_outboxVars

\* The order does hold behind an operation of which no attempt ever failed,
\* across drains, batches, restarts and writes made while a drain runs.
CleanOrder ==
    [][\A a, b \in Ops :
         (EntityOf[a] = EntityOf[b] /\ Before(queue, a, b) /\ a \notin failed /\ ~Applied(a))
            => ~ (Applied(b)' /\ ~Applied(b))]_outboxVars

\* No pending operation waits forever, whatever timers were dropped on the way: it
\* is applied, dead-lettered, turned into a conflict or folded.  This is what a
\* queue that drains by itself would do; the code does not, because the status poll
\* is silent while anything waits for the user (outbox_provider.dart:142-165,203).
DrainsAlone == \A op \in Ops : Pending(op) ~> ~Pending(op)

\* A pending operation waits for ever only behind a conflict or a failed operation
\* that the user does not review: if there is none again and again, every trigger
\* that a drain dropped, or that came when it had counted, is made up for.
Drains == \A op \in Ops : []<>~Pending(op) \/ <>[]Unreviewed

\* What the local queue promises the user at any moment, whatever was
\* interrupted: it is well formed, and no write has disappeared from it
\* (OutboxDrainer.drain, AppDatabase.enqueueOutbox).
Safety == OutboxTypeOK /\ NoLostWrite
=============================================================================
