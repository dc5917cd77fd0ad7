----------------------------- MODULE Attachments -----------------------------
(***************************************************************************)
(* The files of one household: a reservation against its quota, the        *)
(* client's upload to the object store, finalisation with recompression,   *)
(* deletion, and the sweep of what was abandoned                           *)
(* (services/attachment_service.go, repositories/attachment_repo.go,       *)
(* services/storage/local.go, cmd/api/main.go).                            *)
(*                                                                         *)
(* Each repository method is one transaction that locks the attachment's   *)
(* row, so it is one step.  The object store takes no part in any          *)
(* transaction: between two calls of a request anything may happen.  That  *)
(* includes the end of the household (repositories/group_repo.go), whose   *)
(* rows go with it and whose objects and URLs do not.                      *)
(***************************************************************************)
EXTENDS Integers, FiniteSets, FiniteSetsExt

CONSTANTS
    Workers,      \* requests in flight
    MaxUploads,   \* bound: attachments ever reserved
    Declared,     \* bytes a client may declare
    Limit,        \* storageLimitBytes; 0 is no limit
    Int4Max,      \* the largest value of a Postgres int4
    SweepLimit,   \* rows one sweep looks at
    MaxFaults     \* bound: calls that fail

ASSUME AttachmentsAssumption ==
    /\ MaxUploads \in Nat \ {0}
    /\ IsFiniteSet(Declared) /\ Declared \subseteq Nat \ {0} /\ Declared # {}
    /\ Limit \in Nat /\ Int4Max \in Nat
    /\ SweepLimit \in Nat \ {0} /\ MaxFaults \in Nat

VARIABLES
    row,        \* attachments, numbered in the order of their creation
    used,       \* groups.storage_used_bytes
    reserved,   \* groups.storage_reserved_bytes
    obj,        \* the object store: bytes stored under each row's key, or 0
    url,        \* the length a signed PUT URL binds while a body may arrive, or 0
    work,       \* worker -> the request it runs
    sweep,      \* the cleanup job
    faults,     \* failures so far
    slipped,    \* history: objects written to a row that was on its way out
    halved,     \* history: deletions that stopped after the object
    reput,      \* history: uploads that outgrew what was measured of them
    household,  \* the groups row is there
    stranded    \* history: rows with an object that went with the household

rowVars == <<row, used, reserved>>
history == <<slipped, halved, reput>>
home == <<household, stranded>>
vars == <<row, used, reserved, obj, url, work, sweep, faults,
          slipped, halved, reput, household, stranded>>

Ids == 1..MaxUploads
Sizes == 0..Max(Declared)
NoId == 0

Row == [st : {"none", "pending", "ready", "failed", "gone"}, size : Sizes,
        keyed : BOOLEAN, expired : BOOLEAN]
Job == [pc : {"idle", "key", "undo", "undoDelete", "head", "compress",
              "rewrite", "charge", "delObject", "delRow"},
        id : Ids \cup {NoId}, size : Sizes, out : Sizes]

TypeOK ==
    /\ row \in [Ids -> Row]
    /\ used \in Nat /\ reserved \in Nat
    /\ obj \in [Ids -> Sizes]
    /\ url \in [Ids -> Sizes]
    /\ work \in [Workers -> Job]
    /\ sweep \in [pc : {"idle", "mark", "object", "row"}, todo : SUBSET Ids]
    /\ faults \in 0..MaxFaults
    /\ slipped \subseteq Ids /\ halved \subseteq Ids /\ reput \subseteq Ids
    /\ household \in BOOLEAN /\ stranded \subseteq Ids

Idle == [pc |-> "idle", id |-> NoId, size |-> 0, out |-> 0]
Absent == [st |-> "none", size |-> 0, keyed |-> FALSE, expired |-> FALSE]
Gone == [Absent EXCEPT !.st = "gone"]

Init ==
    /\ row = [a \in Ids |-> Absent]
    /\ used = 0 /\ reserved = 0
    /\ obj = [a \in Ids |-> 0] /\ url = obj
    /\ work = [w \in Workers |-> Idle]
    /\ sweep = [pc |-> "idle", todo |-> {}]
    /\ faults = 0
    /\ slipped = {} /\ halved = {} /\ reput = {}
    /\ household = TRUE /\ stranded = {}

---------------------------------------------------------------------------
(* The transactions of the repository.                                     *)

In(st) == {a \in Ids : row[a].st = st}
Bytes(S) == MapThenSumSet(LAMBDA a : row[a].size, S)
Less(a, b) == IF a > b THEN a - b ELSE 0      \* GREATEST(0, a - b)

\* A reservation of n bytes stays within the quota.
Fits(n) == Limit = 0 \/ used + reserved + n <= Limit

\* Reserve: the bytes, and a row whose key is a placeholder until it has an
\* id.  (group_id, object_key) is unique, so one placeholder excludes another.
Reserved(a, n) ==
    /\ Fits(n)
    /\ \A b \in Ids : row[b].st \in {"none", "gone"} \/ row[b].keyed
    /\ row' = [row EXCEPT ![a] = [st |-> "pending", size |-> n, keyed |-> FALSE,
                                  expired |-> FALSE]]
    /\ reserved' = reserved + n
    /\ UNCHANGED used

\* MarkFailed gives the reservation back, once.
MarkedFailed(a) ==
    IF row[a].st = "pending"
    THEN /\ row' = [row EXCEPT ![a].st = "failed"]
         /\ reserved' = Less(reserved, row[a].size)
         /\ UNCHANGED used
    ELSE UNCHANGED rowVars

\* History of a row that has gone is of no use to any property.
Forgotten(a) == halved' = halved \ {a} /\ reput' = reput \ {a} /\ UNCHANGED slipped

\* Delete releases what the row still holds.
Deleted(a) ==
    /\ row' = [row EXCEPT ![a] = Gone]
    /\ used' = IF row[a].st = "ready" THEN Less(used, row[a].size) ELSE used
    /\ reserved' = IF row[a].st = "pending" THEN Less(reserved, row[a].size) ELSE reserved

\* Mutant: the reservation counts against the bytes that replace it.
ConsumesTwice(a, n) == Limit = 0 \/ used + reserved + n <= Limit

\* What FinalizeReservation asks of the quota; the limit has to be encoded,
\* which fails when it exceeds the int4 the statement infers for it.
Consumes(a, n) ==
    /\ Limit <= Int4Max
    /\ Limit = 0 \/ Less(used + reserved + n, row[a].size) <= Limit

Consumed(a, n) ==
    /\ row' = [row EXCEPT ![a].st = "ready", ![a].size = n]
    /\ reserved' = Less(reserved, row[a].size)
    /\ used' = used + n

---------------------------------------------------------------------------
(* Requests.                                                               *)

At(w, job) == work' = [work EXCEPT ![w] = job]
Goto(w, pc) == work' = [work EXCEPT ![w].pc = pc]
Finish(w) == At(w, Idle)
Doing(w, pc) == work[w].pc = pc

\* Someone has deleted, or is about to delete, the object of a.
Departing(a) ==
    \/ \E w \in Workers : work[w].id = a /\ Doing(w, "delRow")
    \/ sweep.pc = "row" /\ a = Min(sweep.todo)
    \/ row[a].st \in {"failed", "gone"}

\* An object of n bytes is written under the key of a.
Written(a, n) ==
    /\ obj' = [obj EXCEPT ![a] = n]
    /\ slipped' = IF Departing(a) THEN slipped \cup {a} ELSE slipped

\* Fewer than n bytes of a were measured, by one of the requests ws that has
\* yet to charge them or by one that has.
Measured(ws, a, n) ==
    \/ row[a].st = "ready" /\ row[a].size < n
    \/ \E w \in ws : /\ work[w].id = a /\ work[w].size < n
                     /\ work[w].pc \in {"compress", "rewrite", "charge"}
Outgrows(ws, a, n) == reput' = IF Measured(ws, a, n) THEN reput \cup {a} ELSE reput

CreateUploadIntent(w, n) ==
    /\ Doing(w, "idle")
    /\ household /\ In("none") # {}
    /\ LET a == Min(In("none")) IN
       Reserved(a, n) /\ At(w, [Idle EXCEPT !.pc = "key", !.id = a, !.size = n])
    /\ UNCHANGED <<obj, url, sweep, faults, history>>

\* UpdateObjectKey and the signed URL, or the compensation that follows when
\* either cannot be had, or the row is no longer there.
CreateUploadIntent_Key(w) ==
    LET job == work[w] IN
    /\ Doing(w, "key")
    /\ \/ /\ row[job.id].st = "gone"
          /\ Goto(w, "undo")
          /\ UNCHANGED <<row, url, faults>>
       \/ /\ row[job.id].st # "gone"
          /\ row' = [row EXCEPT ![job.id].keyed = TRUE]
          /\ url' = [url EXCEPT ![job.id] = job.size]
          /\ Finish(w)
          /\ UNCHANGED faults
       \/ /\ row[job.id].st # "gone" /\ faults < MaxFaults
          /\ faults' = faults + 1
          /\ \E k \in BOOLEAN : row' = [row EXCEPT ![job.id].keyed = k]
          /\ Goto(w, "undo")
          /\ UNCHANGED url
    /\ UNCHANGED <<used, reserved, obj, sweep, history>>

CreateUploadIntent_Undo(w) ==
    /\ \/ Doing(w, "undo") /\ MarkedFailed(work[w].id) /\ Goto(w, "undoDelete")
       \/ Doing(w, "undoDelete") /\ Deleted(work[w].id) /\ Finish(w)
    /\ UNCHANGED <<obj, url, sweep, faults, history>>

\* A complete body, of the declared length, is renamed over the object; the
\* client may send it again while the URL is good.
servePut(a) ==
    /\ url[a] # 0
    /\ Written(a, url[a])
    /\ Outgrows(Workers, a, url[a])
    /\ UNCHANGED <<rowVars, url, work, sweep, faults, halved>>

\* No upload starts after five minutes, and none takes longer than ten.
UrlExpires(a) ==
    /\ url[a] # 0
    /\ url' = [url EXCEPT ![a] = 0]
    /\ UNCHANGED <<rowVars, obj, work, sweep, faults, history>>

\* The reservation lasts twenty.
ReservationExpires(a) ==
    /\ row[a].st = "pending" /\ ~row[a].expired
    /\ url[a] = 0
    /\ \A w \in Workers : work[w].id = a => work[w].pc \notin {"key", "undo"}
    /\ row' = [row EXCEPT ![a].expired = TRUE]
    /\ UNCHANGED <<used, reserved, obj, url, work, sweep, faults, history>>

FinalizeUpload(w, a) ==
    /\ Doing(w, "idle")
    /\ row[a].st = "pending"
    /\ At(w, [Idle EXCEPT !.pc = "head", !.id = a])
    /\ UNCHANGED <<rowVars, obj, url, sweep, faults, history>>

\* HeadObjectSize; without an object there is nothing to finalize.
FinalizeUpload_Head(w) ==
    LET n == obj[work[w].id] IN
    /\ Doing(w, "head")
    /\ IF n = 0 THEN Finish(w)
       ELSE At(w, [work[w] EXCEPT !.pc = "compress", !.size = n])
    /\ UNCHANGED <<rowVars, obj, url, sweep, faults, history>>

\* The object is downloaded again; an image that gets smaller is rewritten.
recompressImage(w) ==
    LET n == obj[work[w].id] IN
    /\ Doing(w, "compress")
    /\ \/ Goto(w, "charge")
       \/ \E m \in Sizes \ {0} :
             m < n /\ At(w, [work[w] EXCEPT !.pc = "rewrite", !.out = m])
    /\ UNCHANGED <<rowVars, obj, url, sweep, faults, history>>

\* A rewrite that fails leaves the original and its size.  One that succeeds
\* may replace what another request made still smaller.
recompressImage_Upload(w) ==
    LET job == work[w] IN
    /\ Doing(w, "rewrite")
    /\ \/ /\ Written(job.id, job.out)
          /\ Outgrows(Workers \ {w}, job.id, job.out)
          /\ At(w, [job EXCEPT !.pc = "charge", !.size = job.out, !.out = 0])
          /\ UNCHANGED faults
       \/ /\ faults < MaxFaults
          /\ faults' = faults + 1
          /\ At(w, [job EXCEPT !.pc = "charge", !.out = 0])
          /\ UNCHANGED <<obj, slipped, reput>>
    /\ UNCHANGED <<rowVars, url, sweep, halved>>

\* FinalizeReservation, unless the row has gone or is no longer pending.  What
\* follows a refusal is left out: ReservedUploadsFit says that there is none.
FinalizeUpload_Charge(w) ==
    LET job == work[w] IN
    /\ Doing(w, "charge")
    /\ IF row[job.id].st = "pending" /\ Consumes(job.id, job.size)
       THEN Consumed(job.id, job.size)
       ELSE UNCHANGED rowVars
    /\ Finish(w)
    /\ UNCHANGED <<obj, url, sweep, faults, history>>

\* The row is read, whatever its state; its object goes first.
DeleteAttachment(w, a) ==
    /\ Doing(w, "idle")
    /\ row[a].st \in {"pending", "ready", "failed"}
    /\ At(w, [Idle EXCEPT !.id = a, !.pc = IF row[a].keyed THEN "delObject" ELSE "delRow"])
    /\ UNCHANGED <<rowVars, obj, url, sweep, faults, history>>

DeleteAttachment_Object(w) ==
    /\ Doing(w, "delObject")
    /\ obj' = [obj EXCEPT ![work[w].id] = 0]
    /\ Goto(w, "delRow")
    /\ UNCHANGED <<rowVars, url, sweep, faults, history>>

\* Links from items, posts and expenses cascade with the row.
DeleteAttachment_Row(w) ==
    LET a == work[w].id IN
    /\ Doing(w, "delRow")
    /\ IF row[a].st = "gone" THEN UNCHANGED rowVars ELSE Deleted(a)
    /\ Finish(w)
    /\ Forgotten(a)
    /\ UNCHANGED <<obj, url, sweep, faults>>

\* A call fails, the client goes away or the process stops: the request ends
\* where it is, and its compensation runs in the same dead context.
Abort(w) ==
    /\ ~Doing(w, "idle")
    /\ faults < MaxFaults
    /\ faults' = faults + 1
    /\ halved' = IF Doing(w, "delRow") THEN (halved \cup {work[w].id}) \ In("gone") ELSE halved
    /\ Finish(w)
    /\ UNCHANGED <<rowVars, obj, url, sweep, slipped, reput>>

---------------------------------------------------------------------------
(* CleanupExpiredUploads, every fifteen minutes.                           *)

Candidates == In("failed") \cup {a \in In("pending") : row[a].expired}
First(n, S) == {a \in S : Cardinality({b \in S : b < a}) < n}

\* The sweep goes on with its next candidate.
Sweeping(pc, todo) ==
    sweep' = [pc |-> IF todo = {} THEN "idle" ELSE pc, todo |-> todo]

ListCleanupCandidates ==
    /\ sweep.pc = "idle" /\ Candidates # {}
    /\ Sweeping("mark", First(SweepLimit, Candidates))
    /\ UNCHANGED <<rowVars, obj, url, work, faults, history>>

\* A pending row is marked first, so no request can finalize it any more; one
\* that was finalized or deleted since the listing is skipped.
Cleanup_Mark ==
    LET a == Min(sweep.todo) IN
    /\ sweep.pc = "mark"
    /\ IF row[a].st \in {"ready", "gone"}
       THEN Sweeping("mark", sweep.todo \ {a}) /\ UNCHANGED rowVars
       ELSE /\ MarkedFailed(a)
            /\ Sweeping(IF row[a].keyed THEN "object" ELSE "row", sweep.todo)
    /\ UNCHANGED <<obj, url, work, faults, history>>

\* Mutant: the row goes although its object could not be deleted.
Cleanup_ObjectShrugs ==
    LET a == Min(sweep.todo) IN
    /\ sweep.pc = "object"
    /\ Sweeping("row", sweep.todo)
    /\ \/ obj' = [obj EXCEPT ![a] = 0] /\ UNCHANGED faults
       \/ /\ faults < MaxFaults
          /\ faults' = faults + 1
          /\ UNCHANGED obj
    /\ UNCHANGED <<rowVars, url, work, history>>

\* A row whose object could not be deleted is kept for the next sweep.
Cleanup_Object ==
    LET a == Min(sweep.todo) IN
    /\ sweep.pc = "object"
    /\ \/ obj' = [obj EXCEPT ![a] = 0] /\ Sweeping("row", sweep.todo) /\ UNCHANGED faults
       \/ /\ faults < MaxFaults
          /\ faults' = faults + 1
          /\ Sweeping("mark", sweep.todo \ {a})
          /\ UNCHANGED obj
    /\ UNCHANGED <<rowVars, url, work, history>>

Cleanup_Row ==
    LET a == Min(sweep.todo) IN
    /\ sweep.pc = "row"
    /\ IF row[a].st = "gone" THEN UNCHANGED rowVars ELSE Deleted(a)
    /\ Sweeping("mark", sweep.todo \ {a})
    /\ Forgotten(a)
    /\ UNCHANGED <<obj, url, work, faults>>

---------------------------------------------------------------------------
\* DeleteGroup: the rows cascade with the household and its counters.  What is
\* stored stays, requests and the sweep go on with the rows they know, and a
\* signed URL stays good.
DeleteHousehold ==
    /\ household /\ household' = FALSE
    /\ row' = [a \in Ids |-> IF row[a].st = "none" THEN row[a] ELSE Gone]
    /\ used' = 0 /\ reserved' = 0
    /\ stranded' = stranded \cup {a \in Ids : row[a].st # "gone" /\ obj[a] # 0}
    /\ halved' = {} /\ reput' = {}
    /\ UNCHANGED <<obj, url, work, sweep, faults, slipped>>

---------------------------------------------------------------------------
Continue(w) ==
    \/ CreateUploadIntent_Key(w) \/ CreateUploadIntent_Undo(w)
    \/ FinalizeUpload_Head(w) \/ recompressImage(w) \/ recompressImage_Upload(w)
    \/ FinalizeUpload_Charge(w) \/ DeleteAttachment_Object(w) \/ DeleteAttachment_Row(w)

Sweep == ListCleanupCandidates \/ Cleanup_Mark \/ Cleanup_Object \/ Cleanup_Row

Served ==
    \/ \E w \in Workers : Continue(w) \/ Abort(w)
    \/ \E w \in Workers, n \in Declared : CreateUploadIntent(w, n)
    \/ \E w \in Workers, a \in Ids :
          FinalizeUpload(w, a) \/ DeleteAttachment(w, a)
    \/ \E a \in Ids :
          \/ servePut(a) \/ UrlExpires(a) \/ ReservationExpires(a)
    \/ Sweep

Next == (Served /\ UNCHANGED home) \/ DeleteHousehold

Spec == Init /\ [][Next]_vars

---------------------------------------------------------------------------
(* Properties.                                                             *)

\* The counters of the household are the sums over its rows, however often a
\* row is failed, finalized or deleted, and by whom.
CountersMatchRows ==
    /\ used = Bytes(In("ready"))
    /\ reserved = Bytes(In("pending"))

\* Concurrent intents never exceed the quota together, and finalizing keeps it.
WithinQuota == Limit # 0 => used + reserved <= Limit

\* A ready attachment can be downloaded, but while it is being deleted or
\* after a deletion that stopped half-way.
ReadyHasObject ==
    \A a \in In("ready") :
        \/ obj[a] # 0
        \/ a \in halved
        \/ \E w \in Workers : work[w].id = a /\ Doing(w, "delRow")

\* An object whose row is gone was written when the row was on its way out, or
\* its row went with the household: no order of sweeps, deletions and failures
\* leaves another one behind.
OrphansAreKnown == \A a \in In("gone") : obj[a] # 0 => a \in slipped \cup stranded

\* A household pays for at least the bytes that are stored, unless more than
\* was measured arrived later: the client sent the body again, or another
\* request finalized the same upload and made it less small.
StoredIsCharged == \A a \in In("ready") : obj[a] <= row[a].size \/ a \in reput

\* Every upload that was reserved can be finalized: no quota refuses it then.
ReservedUploadsFit ==
    [][\A w \in Workers :
          Doing(w, "charge") /\ row[work[w].id].st = "pending" /\ work'[w] = Idle
          /\ faults' = faults
          => row'[work[w].id].st = "ready"]_vars

\* Rows, counters and objects agree at any moment, whatever stopped half-way:
\* quota kept, bytes paid for, objects where rows say they are and nowhere
\* else but for two named causes (AttachmentRepository, AttachmentService,
\* GroupRepository).
Safety ==
    /\ TypeOK /\ CountersMatchRows /\ WithinQuota
    /\ ReadyHasObject /\ OrphansAreKnown /\ StoredIsCharged
=============================================================================
