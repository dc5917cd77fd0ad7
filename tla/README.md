# Formal models of mitlist

mitlist is a shared-household application: lists, expenses, chores, recipes and
a pinboard, used by several people on several devices, offline as well as
online. A Flutter client (`frontend/`) keeps a local database and a queue of
unsent writes; a Go server (`backend/`) over PostgreSQL applies them, publishes
events to the other devices and runs scheduled jobs; a Home Assistant
integration (`home_assistant/`) reads the same API.

This directory holds TLA+ models of the parts of that system where order,
concurrency and failure decide whether it is right, the TLC configurations that
check them on small instances, and proofs of the most important results for
instances of every size. Paths below are relative to the repository.

| module | models | run | proofs |
|---|---|---|---|
| `Idempotency` | the server's replay protection of mutating requests | `idempotency` | `WritePathProofs` |
| `Outbox` | the client's durable write queue and its drain | `outbox` | `WritePathProofs` |
| `Membership` | who is in a household, with which role, and the free limit | `membership` | `AccessProofs` |
| `LedgerMath`, `LedgerCases` | splitting, rescaling, balances, reimbursements | `ledger_cases` | `MoneyProofs` |
| `Ledger` | one expense and its splits under concurrent edits | `ledger` | `MoneyProofs` |
| `SettlementProtocol`, `Settlement` | recording, answering and removing a payment | `settlement_safety` | `MoneyProofs` |
| `ChoreRotation` | whose turn it is, under concurrent answers and a changing household | `chores` | `ChoreRotationProofs` |
| `EventStream` | the live event stream with its durable log and its cursors | `event_stream` | `EventStreamProofs` |
| `Sessions` | an account, its refresh tokens and everything that revokes them | `sessions` | `AccessProofs` |
| `Attachments` | quota, upload, finalisation, deletion and clean-up of files | `attachments` | `AttachmentsProofs` |
| `ListItemSync` | one list item between the server and a device that edits offline | `list_sync` | `ListsProofs` |
| `ListItems`, `Digest`, `Reminder` | the rows of a list, the digest of additions, the list's reminder | `lists` | `ListsProofs` |

`Orders` has the operators on sequences that `Outbox` and `ChoreRotation` share,
and `OrderLemmas` what is proved about them and about induction and folds, for all
proofs. `MC*.tla` hold the instances TLC works on. `PROJECT.json` is the index: the
components, the runs, the source lines each definition stands for, mutations of
the models that break each property, hazards and theorems.

To repeat the checks:

    tlc -config Idempotency.cfg MCIdempotency
    tlapm WritePathProofs.tla

## 1. Inventory

### 1.1 The write path

**Request idempotency** (`backend/internal/middleware/idempotency.go`, table
`request_idempotency`). *State*: one row per (user, key) with the hash of the
request, `processing` or `completed`, the stored response and two time stamps.
*Operations*: purge expired rows and claim a key in one statement; run the
handler; store the response, or delete the row after a 5xx; replay a stored
response; refuse another request under the same key, or one that is still
running. *Hard*: attempts of one key run in parallel on any server process; the
process may die between the handler's commit and the finalising statement; a
claim can be taken over after five minutes while its handler still runs; the
finalising statements name the key but not the claim. *Right when*: at most one
attempt is inside at a time, no failure is replayed, a replayed answer belongs
to the same request, and nothing changes data once an answer is stored.

**Client write outbox** (`frontend/lib/services/outbox_coordinator.dart`,
`repositories/outbox_drainer.dart`, the `outbox_ops` table of
`storage/app_database.dart`). *State*: the queue of operations with attempt
counts and time stamps, an idle timer, a retry timer, one drain at a time with
the batch it has read. *Operations*: queue a write, folding an earlier edit of
the same row; drain repository by repository, batch by batch; classify the
answer as success, transient, permanent or conflict; back off five seconds;
dead-letter after the last attempt; retry, discard; decide a conflict; restart, pause
the app and come back, sign out, sign in. A status poll of the app nudges a queue
that nothing drains.
*Hard*: the user writes while a drain waits for an answer; a trigger that
arrives during a drain is dropped, and the poll is silent while something waits for
the user; a request the client gave up on may still be
running at the server. *Right when*: no write is lost, writes of one row arrive
in order, and no write stays pending for ever.

**Connectivity probe** (`connectivity_service.dart`). *State*: the last
verdict, a probe cache and hysteresis. *Operations*: probe, announce. It decides
whether a drain starts and triggers one when the network is back.

**Conflict detection** (`list_repository.dart` and the server's `updated_at`
checks). *State*: the device's copy of an item, with the version it carries; the
base version of each queued edit; unresolved conflicts; the refreshes under way.
*Operations*: edit, check everything, reorder; compare and answer 409; record
both versions; accept the server's or keep one's own; refresh after an event.
*Hard*: a version has a resolution of seconds, is compared in one statement and
written in another, and is not always the server's: the local patch carries the
device's clock and the answer to an edit the `updated_at` from before it. Two
refreshes may overtake each other. *Right when*: no change is overwritten that
its author had not seen, no needless warning is given, and a device at rest
shows what the server has.

### 1.2 The household

**Households and membership** (`services/group_service.go`,
`repositories/group_repo.go`). *State*: the group, one membership row per member
(role, `left_at`), the invite code. *Operations*: create, invite, join, leave,
remove, change a role, delete. *Hard*: two admins who leave or remove each other
at the same time; authorisation that is checked in one statement and used in
another. The code locks the group's row and repeats its checks under the lock.
*Right when*: a household has an admin as long as it exists, and powers are used
only by people who have them when they are used.

**Premium gate** (`services/billing_service.go`). *State*: which household a
subscription covers. *Operations*: count the active members, look for a
subscription among them, admit. *Hard*: three statements without a lock.
*Right when*: an unpaid household stays close to its free limit.

**Accounts, sign-in, guests** (`user_service.go`, `guest_service.go`,
`user_repo.go`). *State*: one row per account (password, verified, active,
guest, deleted) and its codes. *Operations*: sign in, edit the profile, change
or reset the password, convert a guest, verify, delete, lock and retire idle
guests. *Hard*: a profile edit writes back every column that it read; a guest is
converted by three transactions. *Right when*: a deleted account stays deleted.

**Sessions and tokens** (`services/jwt/jwt.go`, `repositories/auth_repo.go`).
*State*: refresh sessions in families. *Operations*: issue, rotate, log out,
revoke a family when a spent token comes back, revoke all. *Hard*: at READ
COMMITTED a revocation waits for the rows it found but does not see those stored
meanwhile; a lost answer to a rotation looks like theft. *Right when*: a token
is spent once, and what was ended or opened with an old password opens nothing.

### 1.3 Money

**Shared expenses and balances** (`services/finance_service.go`,
`repositories/finance_repo.go`). *State*: expenses with an amount and splits.
*Operations*: create with one of four split modes, update with rescaling, edit
single splits, delete, compute balances, suggest reimbursements. *Hard*: integer
arithmetic that must not lose a unit; an update reads, lists and writes in three
statements. *Right when*: the splits of an expense add up to its amount, and
with them the balances of the household to zero.

**Settlements** (same files). *State*: one row with a status. *Operations*:
record, confirm, decline, cancel, delete. *Hard*: two devices answer at once; what
allows a deletion, the row's status or the caller's role, is read before it.
*Right when*: a settlement is decided once, by the other side, for good.

**Recurring expenses** (`jobs/recurring_expense.go`): each due date is to be
booked once, by a comparison of `next_due` inside the transaction; see section 5.

### 1.4 Chores

**Chores and rotation** (`services/chore_service.go`,
`repositories/chore_repo.go`, `jobs/chore_scheduler.go`). *State*: assignments,
at most one of them pending; the rotation, an order of members and an index.
*Operations*: complete, skip, reschedule, reassign, undo, rotate by hand, the
daily job that gives out a turn, the rebuild of the order when the household
changes. *Hard*: everything but two transactions runs statement by statement;
the order and the index are written together but read long before. *Right when*:
turns follow the order, nobody is passed over, a finished turn stays finished,
and the index points into the order.

### 1.5 Lists, files and events

**Event stream** (`internal/sse/`, `handlers/sse.go`). *State*: the rows of
`sse_events` and the floor below which they are gone; per instance a listening
connection and a hub of channels of 64; per subscriber the id of its last frame.
*Operations*: draw an id, insert, fan out; relay a notification; subscribe,
check the cursor, replay, stream; prune; recheck the membership every fourth
tick. *Hard*: ids are drawn before they become visible; an event reaches a hub
by two routes; a full channel loses it; the listener may be away. *Right when*:
no frame comes twice, the cursor skips nothing without a cause that can be
named, and a cursor whose events are gone is refused.

**Attachments and storage** (`attachment_service.go`, `attachment_repo.go`,
`storage/local.go`). *State*: a row per file, two counters of the household, the
object. *Operations*: reserve, sign an upload, receive it, finalise with
recompression, delete, sweep; the rows also go with the household. *Hard*: the
object store takes part in no transaction; two finalisations, a deletion and a
sweep meet on one object. *Right when*: the counters are the sums over the rows,
the quota holds, every ready row has its object, and every object that has no
row is there for a cause that can be named.

**Lists and items** (`list_service.go`, `list_repo.go`). *State*: the rows of a
list with quantity, check mark and claim. *Operations*: create, add and remove
amounts, batches, edit, delete, clear, complete many, claim. *Hard*: most read
in one statement and write the whole row in another. *Right when*: what is
deleted stays deleted, what is added shows, and a batch keeps one open row among
those it reads.

**Notifications and background jobs** (`notification_repo.go`,
`jobs/list_notification_digest.go`, `jobs/list_reminder.go`). *State*: a row of
collected additions, a reminder, their claims and leases, inbox rows with a
dedupe key. *Operations*: add, flush, claim, announce, delete if unchanged; set,
claim, write, push, mark. *Hard*: every instance runs the job every minute, and
may stop anywhere; the row changes while it is claimed. *Right when*: everything
is announced, once, and a due reminder is sent.

The rest is not modelled, for the reasons in section 7: recipes, meal plans,
groceries, the pinwall, billing, integration credentials, home widgets, the
request pipeline, screens and caches, the sites and the grocery pipeline.

### 1.6 How the parts interact

- The outbox sends each operation under a fixed key; the idempotency middleware
  makes a repeated attempt harmless. `Outbox` therefore models the server as
  applying an operation once, answering a repetition as before, and answering
  "try again" while an earlier attempt is still running. `Idempotency` shows
  under which conditions that is what the server does.
- Joining and leaving call `RebuildMemberOrdersForGroup`; `ChoreRotation` has
  the rebuild as three steps that follow a membership change. Joining and
  inviting pass the premium gate, which is part of `Membership`.
- Confirmed settlements enter the balances of `LedgerMath`; `Settlement` says
  how they become confirmed.
- Every change is published to the event stream. `ListItemSync` takes an event
  as a refresh that is due; `EventStream` says when one may be missed. The mobile
  client opens its stream without a cursor and refreshes when it connects, so
  the cursor matters to the Home Assistant coordinator.
- The daily chore job is part of `ChoreRotation`, the guest clean-up of
  `Sessions`, the upload clean-up of `Attachments`.
- What a member adds to a list goes into `ListItems` and, by name, into `Digest`.

## 2. Plan

The order was: what the data's integrity rests on first. `Idempotency`, on which
every retried write rests; `Outbox`, its client; `Membership`, on which every
authorisation rests; the money, arithmetic before concurrency; `ChoreRotation`;
then `EventStream`, `Sessions`, `Attachments`, `ListItemSync`, and the lists with
their digests and reminders. These are written. Left:

1. `Membership` composed with `ChoreRotation` by way of the rebuild, so that
   membership changes go through the lock.
2. `Outbox`: temporary ids inside queued payloads, the rewriting of a payload
   under an unchanged key (`app_database.dart:1349`), and the hand-over from the
   widgets.
3. `RecurringExpenses`, once its transaction can commit (section 5).

Every safety property of the runs has its theorem (section 6). Theorems worth
proving next are those of the compositions above.

## 3. The modules

Common to the server's modules: a request runs in a goroutine (`proc`,
`attempt`) with a program counter, one SQL statement or transaction per action,
and any interleaving in between, which covers any number of server processes.
`Abort` or `Crash` is a cancelled request context or a dead server; PostgreSQL
rolls an unfinished transaction back. PostgreSQL runs at READ COMMITTED: a
statement sees what is committed when it starts and waits for row locks.

### Idempotency

`row[k]` is the table's row for a (user, key) pair; `attempt[a]` an HTTP
attempt; `effects[k]` the attempts whose handler changed data. Time is the age
of a row: fresh, stale (five minutes) or expired (seven days).

| action | code (`idempotency.go`) |
|---|---|
| `Claim`, `ClaimError` | purge and claim: `INSERT .. ON CONFLICT DO UPDATE` where the row is expired or a stale `processing` |
| `Handle` | `c.Next()`: the handler commits or not, and answers 2xx, 4xx or 5xx |
| `Complete`, `Release`, `CompleteError` | store the response; delete the row after a 5xx; the statement fails |
| `Replay`, `ReplayError` | read the row: mismatch, in progress, or the stored response |
| `Crash`, `Age` | the process dies; time passes |

The set of faults is chosen once, at the start of a behaviour, so that a property
can say under which faults it holds: nothing goes wrong (`faults = {}`), no
handler is slow (`Prompt`), or anything goes.

### Outbox

`queue`, `attempts` and `recent` are the columns of `outbox_ops` that matter
(order, `attempt_count`, whether `last_attempt_at` is within the backoff);
`stage`, `repo`, `batch`, `reply` the drain in progress; `session` and `retry`
the two timers; `online`, `signedIn` and `awake` (in the foreground) the phone;
`applied` and `late` the server. Dart runs one thing at a time,
so an action is what runs between two awaits.

| action | code |
|---|---|
| `Write` | `enqueueOutbox` in the repositories, with the folding of `list_repository.dart:1086`, and `_onWrite` |
| `FlushSession`, `RetryTimer`, `Poll`, `GoOnline`, `SignIn`, `Pause`, `Resume` | the triggers of `drain()`; `Poll` is the loop of `outboxStateProvider`, whose status is "online" only if nothing is `Unreviewed` |
| `Probe`, `FetchBatch`, `TakeNext`, `BatchDone`, `CountLeft`, `EndDrain` | `drain()` and `drainOutboxBatch` up to each await |
| `Serve`, `ServeLate`, `NoAnswer` | the server answers; ends a request nobody waits for; no answer arrives |
| `Succeed`, `StopTransient`, `DeadLetter`, `RecordConflict` | the drainer's switch on the outcome |
| `Retry*`, `Discard`, `KeepMine`, `Resolve` | the user reviews failed operations and conflicts |
| `Restart`, `SignOut`, `GoOffline` | the device |

`gone`, `written` and `failed` are history: why an operation left the queue,
which were ever queued, and of which some attempt failed.

### Membership

`group`, `member`, `account`, `pinned` and `invite` are rows; `lock` is the row
lock on the group. `LockGroup`, `Authorize`, `CheckTarget` and `Write` are the
transaction of `LeaveGroup`, `RemoveMember` and `UpdateMemberRole`. `Count`,
`Cover`, `CreateMembership` and `CreateInvite` are the gate and what follows it.
Inserting a membership or an invite, and deleting the group, wait for the lock
because of the foreign key; reactivating a membership does not. A `world` fixes who has an
account, who may subscribe and who may delete the account.

### LedgerMath, LedgerCases, Ledger

`LedgerMath` has `buildSplits`, `rescaleSplits`, `calculateBalances` and
`suggestReimbursements` as operators over integers; loops are folds or sequences
of rounds. `LedgerCases` poses a problem in one step and solves it in the next,
so that TLC visits every input within the bounds. `Ledger` is one expense: an
`UpdateExpense` reads, perhaps lists, and writes, in three steps (`Editors` are its
requests, `edit` what each holds); single splits are created, edited and deleted
meanwhile; the amounts come from `LedgerMath`.

### SettlementProtocol, Settlement

`SettlementProtocol` says what a settlement promises: pending, decided at most
once, removed at most once. `Settlement` is the code: `Read`, `Authorize` and
then `UpdateStatus` or `Delete` as separate statements, while memberships end
and begin (`Leave`, `Rejoin`) and roles change (`Promote`, `Demote`) under the rule
that the last admin stays. `demoted` remembers the deletions whose caller has lost
the role since it was checked. The refinement maps each row to its status. Deleting
the household deletes its settlements with it and is not modelled here.

### ChoreRotation

`rows` are the assignments in the order they were made, `state` the order and
the index. Every request and the daily job are a sequence of statements;
`Commit` (`CompleteAssignmentAndAdvance`) and `Insert` (`ScheduleChore`) are the
two transactions. A unique index on pending assignments decides the races: a
statement that would violate it changes nothing. `Join` and `Leave` change the
household and go on with the rebuild: `ListMembers`, `ReadRotation`,
`SyncMemberOrder`. A member who is the last one cannot leave. A `world` fixes the
people, the operations that happen and how many assignments are made, and whether
one request ends before the next begins (`serial`).

### EventStream

`event[e]` is how far the publisher of id `e` is; `rows` and `floor` the log;
`notify`, `listener`, `seen`, `users` an instance's notifications, its `Watch`
goroutine, the ids its hub has fanned out and its connection counts; `conn` the
stream as the handler holds it, with what it wrote; `cursor` the client's. A frame
is an id or, for an event whose publisher got an error instead of an id, its
`Bare` form. Such an event is `doubtful` until it commits (`unanswered`) or is
rolled back (`failed`). `covered` and `excused`
are history: what a client received or need not receive, and what it was cut off
from and by which step.

| action | code |
|---|---|
| `Append_Draw`, `Append_Commit`, `Append_RollsBack`, `Append_Prune` | `postgres_store.go` `Append`, from `nextval` to the pruning |
| `Publish_FanOut`, `Append_Fails`, `Watch_Relay` | `hub.go` `Publish` after an append that answered, and after one that reported an error; the relay of `SetStore`; all `deliver` |
| `Watch_Drops`, `Watch_Listens`, `Watch_Returns` | `postgres_store.go` `Watch`: the connection fails, is acquired again, or is not |
| `Events_Subscribe`, `ListAfter_Check`, `ListAfter_Load` | `sse.go` `Events` up to the replay |
| `Events_WriteReplay`, `Events_WriteLive`, `Events_Tick` | its loop |
| `Disconnect`, `GoHalfOpen`, `Events_Return`, `Restart`, `LeaveHousehold` | its end, and what happens around it |

### Sessions

`user` is the account's row, `sess` the refresh sessions with their families and,
for the properties, the password each was opened with; `work[w]` what request `w`
has read or locked. A revocation is two steps, `Sweep_Scan` and `Sweep_Commit`
or `Rotate_Lock` and `Rotate_RevokeFamily`, because its statement sees no row
stored after it began.

| action | code |
|---|---|
| `Login`, `GenerateTokenPair` | `user_service.go` `Login`; `jwt.go` `GenerateTokenPair` |
| `ValidateRefreshToken`, `ReactivateGuestForRefresh`, `Rotate_*` | the refresh handler's three calls; `Rotate` is one transaction with a row lock |
| `Logout_Validate`, `Logout_Revoke` | `auth.go` `Logout` |
| `ChangePassword`, `ConfirmPasswordReset`, `DeleteMe`, then `Sweep_*` | the check, then the transaction that revokes everything (`auth_repo.go`) |
| `SoftDelete` | the second transaction of a deletion (`user_repo.go`) |
| `UpdateMe`, `Update`; `ConvertGuest*`; `VerifyEmail` | read, and the write of the whole row |
| `GuestCleanup_Lock`, `GuestCleanup_Retire` | `jobs/guest_cleanup.go` |

### Attachments

`row`, `used`, `reserved` and `household` are in PostgreSQL, `obj` in the object
store; `url` is a signed upload that may still arrive; `sweep` the clean-up job.
History: `slipped` and `stranded` are the objects without a row, written late or
left by the household; `halved` and `reput` name how a ready row can differ from
its object.

| action | code |
|---|---|
| `CreateUploadIntent`, `_Key`, `_Undo` | reserve; set the key and sign; the compensation |
| `servePut`, `UrlExpires`, `ReservationExpires` | `local.go`, and the times of five, ten and twenty minutes, in that order |
| `FinalizeUpload`, `_Head`, `recompressImage`, `_Upload`, `FinalizeUpload_Charge` | read the row, measure, shrink, rewrite, charge |
| `DeleteAttachment`, `_Object`, `_Row` | read the row, delete the object, delete the row |
| `ListCleanupCandidates`, `Cleanup_Mark`, `_Object`, `_Row` | `CleanupExpiredUploads` |
| `DeleteHousehold` | `group_repo.go` `DeleteGroup`: the rows cascade (migration 000009), objects and URLs stay |
| `Abort` | a call fails or the process ends |

### ListItemSync

`row` is the server's, `cache` the device's copy and where its version comes
from: a list, an answer or the device's own clock. A field's value is the number
of the edit that set it. `other` is one request of another device, `fetch` the
lists fetched and not yet applied. Two variables are history: `behind`, for a
reason that `QuietDevicesAgree` names the copy may be old; `repeated`, an edit was
applied a second time because its answer was lost.

| action | code |
|---|---|
| `updateItemOfflineFirst`, `setAllCheckedOfflineFirst`, `reorderItemsOfflineFirst` | the same in `list_repository.dart` |
| `Send`, `syncUpdateItem`, `AnswerLost`, `recordConflict` | `outbox_drainer.dart` and `_syncUpdateItem` |
| `resolveConflictAcceptServer`, `resolveConflictKeepLocal` | the same |
| `runItemsRefresh`, `OpenScreen`, `reconcileListItems`, `RefreshFails` | `_runItemsRefresh`, `refreshListDetail`, `_reconcileListItems` |
| `UpdateItem_Read`, `UpdateItem_Write`, `Other_*` | `list.go` `UpdateItem`: compare, then write |
| `ReorderItems` | `BatchUpdateItemPositions`, which also stamps `updated_at` |

### ListItems, Digest, Reminder

`ListItems` follows one request of the kind that reads and later writes (`job`:
`AddItemAmount`, a batch of one or two amounts, `RemoveItemAmount`, `UpdateItem`)
through everything others may do meanwhile, each a statement: `CreateItem`,
`DeleteItem`, `ClearItems`, `OtherWrite`, `BulkCompleteItems`, `ClaimItem`,
`UnclaimItem`, `Leave`. `OtherWrite` writes any quantity and check mark, which is
what a request may write that has read the row at any time before. A batch lists
the first 200 rows of the whole list; since the rows of other names are not
modelled, any of this name may be behind them (`Listings`).

`Digest` is one row of `list_notification_batches`: `QueueListItemNotification`
and `FlushListNotificationBatches` on the members' side;
`ClaimDueListNotificationBatches`, `DispatchToGroup` and
`DeleteClaimedListNotificationBatch` in the job, each a statement. `Reminder` is
the reminder of one list: `SetListReminder`, `SetListArchived`; `ListDueReminders`
(the claim), `CreateNotificationsBatchIdempotent`, `DeliverPush`,
`MarkReminderSent`. In both, `Fails` ends a run anywhere and `LeaseEnds` frees its
claim. The three share no state: `MCLists` puts them into one run, where a
behaviour shows one of them.

## 4. The runs

| run | states | what it shows |
|---|---|---|
| `idempotency` | 0.43 M | Mutual exclusion and faithful replays with prompt handlers, whatever crashes; no failure is ever replayed, not even with slow handlers; one effect and one answer when nothing fails |
| `outbox` | 0.61 M | No write is lost; nothing overtakes an operation of which no attempt failed; a pending operation waits for ever only behind something the user does not review |
| `membership` | 1.2 M | An admin remains; promotions and removals are made by people who still may; an unpaid household overshoots by one with two requests in flight |
| `ledger_cases` | 0.15 M | All four algorithms, for every input within the bounds |
| `ledger` | 1.4 M | A rescaling restores the sum whatever happened meanwhile; only a stale plain update breaks it |
| `settlement_safety` | 0.23 M | The code implements the protocol; answers stand; only the counterparty decides; a decided one is removed by an admin but for two named races |
| `chores` | 1.1 M | Turns in order, fairness under growth and under shrinking, finished turns stay finished, one way to a broken index |
| `event_stream` | 1.3 M | No event twice but one whose append reported an error although it committed, none stranded, counters and membership right; the cursor skips an event for four named causes only; an expired cursor is refused even when the floor was not raised |
| `sessions` | 1.5 M | A refresh token is spent once; ended families and old passwords open nothing but for the named races; a deleted account stays deleted |
| `attachments` | 2.1 M | Counters, quota, rows and objects agree whatever stops half-way; what was reserved can be finalised |
| `list_sync` | 4.0 M | A change is overwritten unseen, a warning given needlessly and a device left out of date only for causes the properties name |
| `lists` | 0.21 M | Deleted rows stay deleted, claims belong to members, added amounts show; additions and reminders are announced, in the end and once |

Where a run has one property `Safety`, `ListsSafety` or `FairRotation`, it is the
conjunction of the type invariant and the invariants that its module states before
it, each with a comment of its own.

**Bounds.** They are chosen so that every disjunct of every next-state relation
happens and every race has its two sides.

- *Idempotency*: three attempts (one that holds the claim, one that takes it
  over, one that replays), two keys and two requests (a key reused).
- *Outbox*: two operations on one row, of the first of two repositories, as lists
  are, so that a drain goes on after their pass; two attempts, two faults (a pause
  of the app is one, since it drops the idle timer), one manual retry, both
  operations folding or neither. Order and loss are properties of pairs.
- *Membership*: a free limit of two and two requests at a time. Four people
  nobody of whom pays fill the household and overflow it; three are enough where
  one may subscribe, and two where that one may also close the account.
- *LedgerCases*: three people, amounts to 6, weights to 3, and 4 in place of
  10000 basis points: every remainder and every tie of the rounding occurs.
- *Ledger*: two updates, three splits of which one is created later, amounts to
  3 and splits between -2 and 2.
- *Settlement*: three members with any first admins, one settlement (settlements
  share no state), two requests at a time.
- *ChoreRotation*: five worlds. `Steady`, `Growing` and `Shrinking` have three
  people and five assignments, more than one round; `Turning` and `Moving` have
  two people, three assignments and every operation, or the moving household,
  with crashes. Assignments end at the bound: a request that would go beyond it waits.
- *EventStream*: two instances, because local fan-out and relay differ; one old
  event, behind which a cursor may stand, and two new ones, which can overtake each
  other; a channel of one and a page of one, so that both overflow; a recheck at
  every second tick; one failure of any kind, an outage of the listener being one
  however long it lasts, and so an append that reports an error, whatever becomes of
  its row; leaving the household is no failure, but a viewer leaves before the
  second new event is drawn, which then is not (`MaxAway`): how long its
  stream goes on depends on ticks and lookups only. One subscriber: subscribers share
  nothing but the count that is per user.
- *Sessions*: two requests at a time, each of any kind; three sessions, a first
  one, its replacement and one more; two passwords. Calls fail without a bound.
- *Attachments*: two files and two requests besides the sweep; bodies of one or
  three bytes, so that recompression can shrink one to two different sizes and one
  rewrite can undercut another's; a quota of three, which two
  files can exceed together; a sweep that looks at one row at a time. `Int4Max`
  is above the quota, as it is for quotas below three gigabytes (section 5).
- *ListItemSync*: two fields, because an edit must keep the one it does not
  name; three edits or reorderings in all, so that an edit can follow another of
  the same device while one of another device comes between; two seconds, so that
  versions are equal or differ.
- *Lists*: two rows of one name, quantities to two, two members; three additions,
  so that a claimed row is cleared and added to again; two times of a reminder;
  two instances, two failures.

**Deadlock** is not checked where a model may rest: all attempts answered, the
queue empty, the household deleted, the bound on assignments, events, sessions,
uploads, edits or additions reached. In `Settlement` members come and go for
ever, and it is checked.

**Symmetry** is used for interchangeable attempts, keys, requests, processes and
people the configuration does not tell apart, in runs without liveness only.

**Fairness** is assumed by two runs. `outbox` assumes it for what the phone and the
server do by themselves: while a session's timer is armed, a drain has a next step
or the status poll's own conditions hold, one of these happens; five seconds pass; an
outage ends, somebody signs in again and opens the app again (`Recovery`). Nothing is
assumed of the retry timer and of requests nobody waits for, of the user's writes,
retries, discards and decisions, or of faults. These are bounded by `Trouble`: with
endless outages or endless "try again" answers nothing would have to be sent.
`Drains` is therefore about triggers: one that is dropped, because a drain is running
or nobody is signed in, leaves an operation waiting for ever only if from some point
on a conflict or a failed operation always waits for the user, which silences the
poll. That exception is needed (`DrainsAlone`, section 5).

`lists` assumes that time passes (a row becomes due, a lease ends), that the
minutely job of some instance claims what is due (`jobs/runner.go` registers it
with a schedule on every instance), and that a run which has claimed goes on
until it is done or fails. Nothing is assumed of the members. Failures are
bounded, since a run that always fails announces nothing. `EventuallyTold` and
`DueIsSent` therefore say that a claim left behind by a run that failed does not
keep the row from the next one.

**Mutations.** `PROJECT.json` gives, for each property, a plausible bug (a dropped
`FOR UPDATE`, a missing last-admin check, a claim that ignores the five minutes, a
claim that never lapses, an index kept instead of a person) under which that run
reports the property violated. The mutated operators stand in the modules in
front of the ones they replace, marked "Mutant of" or "Mutant:", and no
specification uses them.

## 5. Known limits of the code

What the code does otherwise than its own comments say, or than one might
expect. The properties of the runs are stated around these: they name each cause
as an exception, or say what is kept instead. Some modules also state the
property that is not kept, with a comment that says so; no run checks those.

**Against a comment of the code.**

1. *Edits of one row can arrive out of order* (`EntityOrder`; `app_database.dart:990`).
   `outbox_drainer.dart:55-58` stops a pass because "per-entity ordering must
   hold". The operation that failed is then in backoff for five seconds and left
   out of the next batch, but a pass that starts earlier (the status poll looks
   every three seconds) sends the later operation on the same row, and the
   earlier one overwrites it afterwards. `CleanOrder` shows that this needs a
   failed attempt.
2. *A household can be left with no usable admin* (`UsableAdmin`;
   `user_service.go:491`). `group_service.go:534-535`: "the last admin is still
   protected so the group never ends up without one". Deleting the account does
   not look at memberships; the row stays, and nobody can sign in as it.
   `AdminKept` shows that the row itself is safe.
3. *A stale update restores an old amount over new splits* (`SplitsMatch`;
   `finance_service.go:273`). Lines 281-282 call the sum of the splits "the
   invariant all balance math relies on". `OnlyStaleUpdatesBreak` shows that
   this is the only way `UpdateExpense` breaks it, as long as any split is left.
4. *A confirmed settlement can be deleted by somebody who is no admin*
   (`OnlyAdminsRemoveDecided`; `finance_service.go:594`). Lines 578-579 reserve
   that for admins. The status and the role are read in earlier statements than
   the `DELETE`, so its recorder removes it who had read it as pending, and so
   does an admin who was demoted, or left and came back as a member, in between.
   `DecidedRemovalsAreKnown` shows that there is no third way.
5. *The person due next can be passed over* (`DueStaysDue`;
   `chore_service.go:1033`). Line 919: "the person due next stays due next".
   In [a, b] it is a's turn and b is due; a leaves, c joins. With one member left
   the rebuild cannot tell whose turn is pending and moves the index past b.
6. *A profile edit undoes what happened meanwhile* (`AccountStands`;
   `user_repo.go:212`: "using SELECT FOR UPDATE to prevent races"). The lock is
   taken in the same transaction as the write, but what is written was read
   before it: an old password comes back, a converted guest is a guest again.
   Only a deletion is safe (`DeletedIsFinal`).
7. *The listener of an instance can end for good* (`Watch_Returns`;
   `postgres_store.go:177-185`). Lines 167-168: "automatically re-established
   after a connection failure". If the connection cannot be acquired, or LISTEN
   fails, the goroutine returns; other instances' events then reach this one's
   streams only by reconnecting.
8. *A replay does not close every gap* (`OnlyKnownGaps`). `sse.go:110-112`
   "guarantees that no mutation falls between the replay and live stream", and
   `postgres_store.go:23-26` calls replay the correctness mechanism. A cursor
   passes an event for good when a larger id was seen first (ids are drawn before
   they commit), when the channel of 64 was full, when it came from another
   instance while the listener was away, or when a replay ended at its page of
   1000.
9. *A false conflict on two edits in a row* (`FalseAlarmsAreKnown`;
   `list.go:495`). `list.go:447-451` is written to avoid "a false conflict on
   every edit". The answer carries the `updated_at` that was read before the
   write, so the device's next edit, unless a refresh came in between, is based
   on a version older than the row by its own edit. A lost answer has the same
   effect: the edit is sent again, compared and applied again, and the row has a
   version that the device did not see.
10. *A rescheduled reminder can be swallowed* (`SentWasDelivered`;
    `list_reminder.go:318`). `list_repo.go:166-168`: "so a rescheduled reminder
    fires again". Marking a reminder as sent compares no time: a run that was
    delivering the old one marks the new one.
11. *Appended items can share a position* (`list_repo.go:235-238`, "so concurrent
    appends don't all collapse onto the same position"). At READ COMMITTED two
    such statements do not see each other's row. Positions are not modelled.
12. *The first digest comes after 45 seconds* (`notification_repo.go:469`:
    "ten minutes"). The insert leaves `deliver_after` to the default of migration
    000051; only later additions postpone it by ten minutes. `BecomesDue` has no
    durations.
13. *A batch opens a second row on a long list* (`BatchKeepsOneOpen`;
    `list_service.go:546`). Lines 554-556: "An open row wins over a checked one
    with the same name". The list is read with limit 0, which
    `list_repo.go:348-351` makes 200: on a longer list the batch does not see an
    open row behind these, and reopens a checked one, or adds another, without any
    concurrency.
14. *Deleting a household leaves its files* (`OrphansAreKnown`, `stranded`;
    `group_repo.go:165-175`). `PRIVACY.md:70`: "Deleting a household deletes its
    content." The attachment rows cascade (migration 000009), the objects stay,
    and the sweep looks for rows, so nothing finds them again.
15. *An event can reach one stream twice* (`NoDuplicateFrames`;
    `hub.go:248-252`). Lines 261-263: without the guard on ids "that process would
    deliver its own event twice". If the INSERT commits and its answer is lost,
    `Publish` fans the event out without an id, which no guard knows, and the relay
    brings it with its id. `NoDuplicateFrames` shows that nothing else writes an
    event twice.
16. *The queue can stop draining by itself* (`DrainsAlone`;
    `outbox_provider.dart:203`). Lines 194-201 make the status poll the "Fallback for
    a drain that died without re-arming itself", since nothing else will pick the
    operations up before the next write, resume or connectivity flip. It nudges only
    with the status "online", which it is not while one conflict or one failed
    operation is left. Two operations have failed for good; one is retried when a
    drain has counted that nothing is pending, but has not returned; the forced
    drain returns at once, no timer is armed, and the poll is silent because of
    the other. `Drains` shows that this needs something the user does not review.

**Always failing.**

17. *Finalising an upload under a quota of three gigabytes or more*
    (`attachment_repo.go:192`). A parameter compared with a bare literal is an
    `int4` to PostgreSQL and cannot be encoded. `attachment_repo.go:55-57`
    explains this and casts in `Reserve`; `FinalizeReservation` has no cast.
    `Consumes` has the bound, `Int4Max`; with a larger quota nothing is ever
    finalised and `ReservedUploadsFit` fails at the first upload.
18. *Booking a recurring expense* (`recurring_expense.go:269-273`): the UPDATE
    sets `updated_at`, a column that no migration gives `recurring_expenses`; the
    transaction rolls back every time.

**By design or by omission.** A crash between the handler's commit and the
finalising statement lets a retry run the handler again after five minutes. Joins
that race exceed the free limit. Rescaling can make the split that absorbs the
rounding negative. A completion writes back the order it read, so a rebuild in
between is undone until the next one; an undo that fails half way is not
repaired. Creating a household is two statements. A payload rewritten under an
unchanged key (`app_database.dart:1349`) is refused if its first form had arrived.
An amount is added to the quantity that was read, also when that row was checked,
and an addition to a row that was cleared meanwhile reports success and shows
nowhere (`AddsAreShown`). Additions that a claimed digest was cleared of are
announced by nobody if the claiming run fails (`Forfeited`). A session stored
while a revocation is under way survives it, as does one whose sign-in had checked
the old password (`excused` in `Sessions`). An upload repeated after it was
measured may be larger than what is charged, and so may the rewrite of a slower
finalisation of the same upload, since each charges what it wrote itself
(`attachment_service.go:252-272`); an upload that arrives while its row is
being deleted leaves an object (`slipped`). Every job is wrapped in
`SkipIfStillRunning(nil)` outside of `Recover` (`runner.go:43`): the logger that a
skipped run would use is nil.

## 6. The proofs

The proofs hold for every value of the constants that satisfies the named
assumptions of the modules: any number of people, requests, keys and
settlements, any free limit. They assume what the models assume, above all which
statements are atomic.

**WritePathProofs.** *The server's end* (`Idempotency`). `TypeCorrect` and
`FailuresAreNotReplayed` hold for every set of faults. The second needs only that
what is stored was a final answer when it was stored and that an attempt that is
over changes no more (`AnswerInv`): a slow handler may lose its claim, but a failure
is never stored. The other results assume `Prompt`: no handler outlives the five
minutes of its claim. The inductive invariant `LockInv` has the argument of a lock:
`Exclusive`, at most one attempt per key between its claim and its finalisation;
`Owned`, that attempt owns the row, which is fresh, processing and for its request;
`Stored`, a completed row holds the answer of an attempt that is over and was made
with that key for that request; `Settled`, an answer once given, and the one it was
replayed from, no longer change. `Exclusive` alone is not inductive: only `Owned`
shows that a second claim finds no row it may take. `ClaimsExclude`,
`ReplaysAreFaithful` and `CompletedIsFinal` follow. `OnePerKey` assumes `faults =
{}`, because a crash behind the handler's commit does run it twice (section 5):
without faults an attempt that changed data goes on to store its answer (`OnceInv`),
and from then on every other attempt of the key is answered from that row.

*The client's end* (`Outbox`). `NothingIsLost` and `OrderIsClean` rest on one
invariant of four parts. `Sending`: what each stage of a drain has in its hands;
only a request that waits has an answer to come. `Known`: batch, server and late
requests hold only what the user wrote, and what was given up on or became a
conflict is no longer queued, and comes back only as a new operation ("Keep mine").
`Failures`: an operation in backoff, or with a counted attempt, had an attempt that
failed. `InOrder`: of an operation no attempt of which failed, no later operation on
its row is ahead, neither in the batch nor at the server. `CleanOrder` alone is not
inductive: a batch that was read in the right order is sent long after the queue has
changed, and only `InOrder` says that what was ahead in the batch is still ahead, or
was sent. A batch is in order because reading it filters the queue, and a filter
keeps the order (`OnlyKeeps` of `OrderLemmas`). `RowAssumption` is needed: one
repository drains all operations on a row, as each does the kinds of row it writes
(`getOutboxBatchByTypes` is called with its own types). With two of them a later
batch could overtake an earlier one.

**AccessProofs.** *The members of a household* (`Membership`). `IInv` adds to the
types that only the holder of the lock is past `LockGroup` (`Exclusive`), that what
a locked request has checked still holds (`Checked`), and how a household begins
(`Founding`). `Checked` is why the checks may precede the write: every step that
takes a role, ends a membership or deletes the household needs the lock.
`AnAdminRemains`, `PromotersAreAdmins` and `RemoversAreMembers` follow.
`OvershootIsBounded` counts: members plus joins that saw room never exceed the limit
minus one plus the number of requests, because a join that is let in counted fewer
members than the limit and each other request adds at most one.

*The sessions of an account* (`Sessions`). `DeletionIsFinal` needs `Buried`: a
request that will write back the account it read holds one that is not deleted, and
its statement is refused once the account is; a revocation holds the row lock, and
of a deleted account it holds the tombstone, which it writes back unchanged.
`SessionsAreSafe` needs `SessionInv`. One part of it is the row lock: of two
requests at one token, one holds it, and while it does nobody else spends or revokes
that row, so a family keeps one live session. The other part follows a revocation
between its scan and its commit: a session it did not see was stored meanwhile and
is among the `excused`, and a sign-in that has checked an old password leaves a
session that is excused too. What neither covers has the current password.

**MoneyProofs.** *The arithmetic* (`LedgerMath`, `LedgerCases`). Its sums are
folds over sequences, and all that is proved of them goes through one lemma:
`TotalPrefixes` gives a sequence the sums of its beginnings, and `TotalIs` says
that any sequence with such sums has the last of them as its total. From that
follow what appending or replacing an element does to a total, and
that the sum of a function is the total of its values in whatever order they
are listed (`SumIsTotal`). `ExactSplits`: `distributeByWeight` rounds every share
but the last down, so the last one, which is what the others left, is never
below its own share and takes less than a unit from each of them.
`SharesKept`: each split is rounded to within half a unit, and the largest takes
the difference, at most half a unit per participant. `HouseholdsSettle` has the
loop of `suggestReimbursements` as an invariant (`Good`): the working slice lists
the open balances, creditors first, without anybody twice (`Lists`), and the
payments so far explain what is left of the balances (`Explains`). A round
settles one of its two ends for good (`Open` shrinks), so as many rounds as there
are people are enough; when the loop ends on balances that add up to nothing,
nothing is left. `CasesInv` ties an answer to its problem. `CasesAssumption` asks
only that the bounds are natural numbers.

*One expense under edits* (`Ledger`). `LedgerInv` is the types (`LedgerTyped`) and
`EditsAddUp`: the rows that an update is about to write add up to the amount it
will write with them, whatever was done to the expense since it listed the splits.
The transaction replaces every split by those rows, so `RescaleIsExact` needs
nothing of the splits it deletes. `StaleUpdatesOnly` follows from it: the plain
update is the only write of an amount without its splits. That a listing may come
in any order is the reason for `SumIsTotal`.

*Settlements* (`Settlement`). `Implementation`: every step of the code maps to a step of
the protocol or to none, because the `UPDATE` repeats `status = 'pending'` in its
WHERE clause. `AnswersAreFinal`: who was told of a decision was told for good.
`CounterpartyDecides` and `RemovalsAreKnown` need `SidesInv`: the row a request
has read names the same two sides as the row that is there when it writes, and
they differ; and whoever is about to remove it is an admin, has ceased to be one
since the check, or is its recorder and read it as pending.

**ListsProofs.** *Rows, digest and reminder.* The three parts share no state, so
each invariant is proved for its own steps and left alone by the others'
(`MCLists`). `RowsInv`: the request that is followed knows of every change to the
row it read, and a batch that is about to reopen a checked row was shown no open one
that has not changed since. From it `RowsStayKept` follows step by step.
`DigestInv`: `updated_at` names the contents of the digest's row (`Stamped`); an
addition whose lease never ran out is announced by the one run that holds it or
waits for one (`Single`); one that is not announced is in the row, with a run that
carries it, or was cleared away by name (`Accounted`). `ReminderInv` says the same
of a time whose lease never ran out: one run serves it, once, and writes everybody's
row before it pushes. `ListsAreSafe` is the conjunction of the three modules'
invariants.

*An item on several devices* (`ListItemSync`). `SyncInv` has a part for each reason
the properties name. `Timely`: no version that came from the server is later than
the row's. `Distinct`: each edit is in one place, the queue, a conflict or another
device's request. `Versions`: as long as nothing was applied twice and no reordering
stamped the row, equal contents have equal versions, so that a refusal means that
somebody else wrote. `Quiet`: a difference between device and server has an edit, a
conflict, a refresh or a named cause still to come. The proof needed a cause that
the run is too small to show: an edit that is applied a second time because its
answer was lost makes a new version of the same contents, and the device's next edit
is refused for it. `repeated` remembers that it happened, and `FalseAlarmsAreKnown`
names it.

**AttachmentsProofs.** `IInv` has the types, the books (`Books`: each quota counts
what its rows hold), what a request may be doing (`WorkOK`, `SweepOK`), and for
each file what its row, its object and the requests at it know of each other
(`FileOK`). `CountersMatchRows` alone is not inductive: that a release gives back
what was charged needs to know which request still owns the row. The sums are
sums over a set; that changing one member changes the sum by the difference is
proved by induction over finite sets (`AllSubsets`). `FilesAreSafe` needs no
assumption on sizes; `ReservationsFit` needs a limit of at most `Int4Max`
(section 5, 17). The proof found a cause that the run was too small to show: of
two overlapping finalisations of one upload, the later may write a larger file
than the one that was charged. `reput` remembers that, `StoredIsCharged` names
it, and the run now has sizes that show it.

**OrderLemmas.** What the proofs know about sequences. The library's induction
theorems take an operator as a parameter, which the provers cannot instantiate;
`AllNat` and `AllSubsets` say the same of a set, and are derived from the least
element of a set of numbers (`LeastNat`). With them a fold over a finite set is
the one function that takes any element last (`FoldsAgree`, `FoldedValue`), a
fold over a sequence goes through its positions (`FoldSegment`), and so a filter
keeps what it should in the order it was in (`OnlyKeeps`). On that rest the lemmas
on orders without repetitions: appending, joining, filtering, taking a
beginning.

**ChoreRotationProofs.** Three invariants, for any number of people, of assignments
and of requests at a time. `Sound` says what a process may be doing and what it
holds: an assignment it speaks of exists, and a rotation it will write lists people
once and has its index inside. From it follow the types and `IndexInOrder`: the
daily job alone writes an index without the order it was computed for. `LastPending`
gives `FinishedTurnsStay`: without undo only the last assignment is pending, and the
unique index refuses every older one. `Steadily` gives `TurnsInOrder`: while nobody
joins or leaves, the one due follows whoever has the last assignment, and a request
either knows that or is too late. The third, for requests that come one after the
other, is `View`: what the request at work knows, over `Fairly`, a statement about
the assignments, the order and whoever is due, `w`. Its heart is `Serves(o, w, a,
b)`, that going round the order `o` from `w` one comes to `a` before `b`. Whoever
has had a turn waits for all that have not had one since (`Waits`), and between two
turns, or between the last one and now, only people were passed over who were not
there yet (`Skips`); with these, that nobody has two turns without the others
(`Even`) is kept by a turn (`FairTurn`), by its undo (`FairUndo`) and by a rebuild
(`FairRebuild`). `Even` alone is not inductive: it does not say who may be next.
Lemmas about `NextOrder` and `NextIndex` (`Rebuilding`) show that a rebuild keeps
everybody who stays in place, leaves the same person due or the first one still
there after that person, and puts newcomers last. `FairTurns` is stated for
`Undisturbed` worlds: no reassignments, because whoever takes over another's turn
has one more; no requests that stop half-way, because a rebuild that does not happen
leaves a person due who is gone; and where people leave, nobody joins and nothing is
undone, because the undo may give the turn to somebody who is no longer there, and
whoever comes back has lost the place.

**EventStreamProofs.** Four layers. `Counts` has the types, the connection counts
and the age of a stream whose viewer has left, whatever the log holds. (The age of a
stream is at most its ticks and one recheck period per failed lookup, `Within`.)
`Log`: ids are drawn in order; what was pruned lies below everything that is still
to come; what is still to reach a hub is in the log, and what a hub has fanned out
is committed. `ExpiredAreTold` rests on it: behind a cursor from which something was
pruned there is a gap in the rows that the check sees. `Client` says for one client
that nothing at or below its cursor, below an event of its replay or before one in
its channel is unaccounted for, and that what its hub has fanned out or will never
see has left a trace: received, excused, in the replay, on the page that is still to
be loaded, or in the channel. None of its parts is inductive without the others: a
frame moves the cursor, what the channel holds comes from the hub, and what the hub
skips must be on the page. `Copies` says that a bare frame stands for an event that
was given up, is in the channel or written at most once, because an event is given
up once and from then on comes by its id only; what was given up and yet committed
is unanswered, which is the exception `NoDuplicateFrames` makes. The proof also
sharpened `OnlyKnownGaps`: an event that overtakes others excuses only those with
smaller ids that are still on their first way to the hub, and an absent listener
excuses only the events of other instances. `StreamAssumption` asks for at least one
instance.

**Only model-checked.**

- `EventuallyTold` and `DueIsSent` (`lists`) and `Drains` (`outbox`) are
  liveness under fairness, outside the prover's reach. `EventuallyTold` speaks of
  a list that is not deleted while additions to it are queued, and `DueIsSent` of
  failures that end: a member whose only device fails every time keeps a reminder
  unsent.

## 7. What the models leave out

- **Pending membership claims**: nothing in the code creates them any more.
- **Payload rewriting in the outbox**: temporary ids, and the folding of a patch
  into a queued create. The folding of edits is modelled as it is for lists.
- **The order of the repositories** in a drain as a dependency: a create that
  others refer to is in an earlier one.
- **Timers as durations**: a timer may fire at any time, so a retry can come
  before the backoff of five seconds is over. The first limit of section 5 does
  not rest on this: the status poll and a change of screen are not tied to those
  five seconds either. In `Attachments` the order of the times is kept.
- **Isolation below statements**: a statement is atomic, as it is for the rows it
  locks; where a transaction is one step its reads take row locks. `Sessions` is
  finer, because there the difference matters.
- **Widths**: amounts stay far below 2^63; the product `total * weight` is not
  bounded by the handlers and could overflow for absurd shares.
- **Other rotation policies** (random, who did least, nobody) and chores that
  are archived or deleted.
- **Discarded edits of items**: `ListItemSync` has no edit that fails for good and
  that the user then discards (`outbox_coordinator.dart:227-248`). The device then
  fetches the list once, best effort, and shows the edit until a refresh succeeds.
- **Event payloads, presence and the address limit** of the event stream; the
  mobile client's stream, which has no cursor.
- **Signatures and expiry** of tokens, sign-in through Apple and Google, counters
  of failed code attempts.
- **Links** of files to items, posts and expenses, and the S3 store.
- **Preferences, quiet hours, device tokens** and the push transports. The
  activity digest and the reminders of chores and posts run the statements of
  `Digest` and `Reminder` with other keys, and are not modelled again.

**Not modelled, by component.**

| component | why |
|---|---|
| Recurring expenses | the transaction always rolls back (section 5) |
| Recipes and scraping, meal plans, pinwall | single-row edits and parsing; no invariant over several rows or actors |
| Groceries and canonical names | matching and ranking, a heuristic without a specification |
| Billing checkout, webhooks, receipts | upserts of the state a provider reports; the result is an input of `Membership` |
| Integration credentials, Home Assistant | a read-mostly client; its cursor is in `EventStream` |
| Home widgets | the hand-over to the outbox is in the plan |
| Request pipeline | answers without changing the state the models speak of |
| Client caches and screens | presentation; what is written through is in `Outbox`, one cached item in `ListItemSync` |
| Grocery intelligence, landing and feedback sites | offline data generation; static sites |
