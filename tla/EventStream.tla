---------------------------- MODULE EventStream ----------------------------
(***************************************************************************)
(* The live event stream of one household: the durable log behind it       *)
(* (internal/sse/postgres_store.go), the hub of every API instance         *)
(* (internal/sse/hub.go), the stream handler                               *)
(* (internal/api/handlers/sse.go) and a subscriber that keeps the id of    *)
(* the last frame it received as its reconnect cursor, as the Home         *)
(* Assistant coordinator does.                                             *)
(*                                                                         *)
(* A publisher draws an id, commits the row and only then fans it out to   *)
(* the channels of its own instance; the row's commit also notifies every  *)
(* instance that is listening, which fans it out to its own channels.  So  *)
(* one event reaches a hub by two routes, in no fixed order, and two       *)
(* events reach it in an order that need not be the order of their ids.    *)
(* A publisher that gets an error instead of an id fans the event out       *)
(* without one, although its row may be there, or may yet be.               *)
(***************************************************************************)
EXTENDS Integers, Sequences, FiniteSets, SequencesExt, FiniteSetsExt

CONSTANTS
    Instances,      \* API processes sharing the database
    Clients,        \* subscribers, each of a different user
    MaxEvents,      \* bound: ids ever drawn
    History,        \* events published before the model starts
    ChannelCap,     \* capacity of a subscriber's channel (64 in the code)
    ReplayLimit,    \* rows one replay returns (1000 in the code)
    MaxUser,        \* streams of one user an instance accepts (8)
    RecheckEvery,   \* keep-alive ticks between membership checks (4)
    MaxAway,        \* bound: ids drawn by the time a viewer leaves, and afterwards
    MaxFaults       \* bound: failed inserts, prunings, listener failures,
                    \* restarts, half-open streams, failed lookups

ASSUME StreamAssumption ==
    /\ Instances # {}
    /\ MaxEvents \in Nat /\ History \in 0..MaxEvents
    /\ ChannelCap \in Nat \ {0} /\ ReplayLimit \in Nat \ {0}
    /\ MaxUser \in Nat \ {0} /\ RecheckEvery \in Nat \ {0}
    /\ MaxAway \in Nat /\ MaxFaults \in Nat

VARIABLES
    event,     \* id -> how far its publisher is, and on which instance
    rows,      \* ids in sse_events
    floor,     \* sse_event_retention.floor_id
    notify,    \* instance -> ids notified to its listener, not yet relayed
    listener,  \* instance -> state of its Watch goroutine
    seen,      \* instance -> ids its hub has fanned out
    conn,      \* client -> its stream, as the handler holds it
    users,     \* instance -> client -> streams the hub counts for the user
    zombies,   \* instance -> client -> counted streams whose client is gone
    member,    \* clients that are members of the household
    cursor,    \* client -> id it will send as Last-Event-ID, 0 for none
    covered,   \* history: events a client received or need not receive
    excused,   \* history: events a client was cut off from, by a named cause
    faults     \* faults spent so far

vars == <<event, rows, floor, notify, listener, seen, conn, users, zombies,
          member, cursor, covered, excused, faults>>

storeVars  == <<event, rows, floor>>
hubVars    == <<notify, listener, seen, users, zombies>>
clientVars == <<cursor, covered>>

Ids == 1..MaxEvents

\* An event travels as its id or, when its publisher has none for it, bare.
Bare(e) == -e
Frame == Ids \cup {Bare(e) : e \in Ids}

NoStream == [phase |-> "off", at |-> CHOOSE i \in Instances : TRUE,
             chan |-> <<>>, replay |-> {}, sent |-> {}, wrote |-> <<>>,
             bare |-> <<>>, ticks |-> 0, missed |-> 0, stale |-> 0]

\* An event whose publisher has finished; its instance no longer matters.
Done(st) == [st |-> st, at |-> NoStream.at]

Committed == {e \in Ids : event[e].st \in {"stored", "published", "unanswered"}}
Born == {e \in Ids : event[e].st # "unborn"}

\* Clients whose channel is registered with the hub of instance i.
RegisteredAt(i) == {c \in Clients : conn[c].phase # "off" /\ conn[c].at = i}

\* An INSERT whose publisher got an error is in doubt until it commits, which
\* leaves the event unanswered, or is rolled back.
EventType == [st : {"unborn", "inserting", "stored", "published", "doubtful",
                    "unanswered", "failed"},
              at : Instances]
StreamType == [phase : {"off", "registered", "checked", "streaming"},
               at : Instances, chan : Seq(Frame),
               replay : SUBSET Ids, sent : SUBSET Ids, wrote : Seq(Ids),
               bare : Seq(Ids),
               ticks : 0..RecheckEvery - 1, missed : Nat, stale : Nat]

TypeOK ==
    /\ event \in [Ids -> EventType]
    /\ rows \subseteq Committed
    /\ floor \in 0..MaxEvents
    /\ notify \in [Instances -> Seq(Ids)]
    /\ listener \in [Instances -> {"up", "down", "dead"}]
    /\ seen \in [Instances -> SUBSET Ids]
    /\ conn \in [Clients -> StreamType]
    /\ \A c \in Clients : Len(conn[c].chan) <= ChannelCap
    /\ users \in [Instances -> [Clients -> 0..MaxUser]]
    /\ zombies \in [Instances -> [Clients -> 0..MaxUser]]
    /\ member \subseteq Clients
    /\ cursor \in [Clients -> 0..MaxEvents]
    /\ covered \in [Clients -> SUBSET Ids]
    /\ excused \in [Clients -> SUBSET Ids]
    /\ faults \in 0..MaxFaults

(* The first History events are old; a client comes with the cursor of one *)
(* of them, or with none.                                                  *)
Init ==
    /\ event = [e \in Ids |-> Done(IF e <= History THEN "published" ELSE "unborn")]
    /\ rows = 1..History
    /\ floor = 0
    /\ notify = [i \in Instances |-> <<>>]
    /\ listener = [i \in Instances |-> "up"]
    /\ seen = [i \in Instances |-> {}]
    /\ conn = [c \in Clients |-> NoStream]
    /\ users = [i \in Instances |-> [c \in Clients |-> 0]]
    /\ zombies = [i \in Instances |-> [c \in Clients |-> 0]]
    /\ member = Clients
    /\ cursor \in [Clients -> 0..History]
    /\ covered = [c \in Clients |-> 1..cursor[c]]
    /\ excused = [c \in Clients |-> {}]
    /\ faults = 0

---------------------------------------------------------------------------
(* Fan-out.                                                                *)

\* Mutant: only streams past their replay get live events.
OfferedAfterReplay(i, e) ==
    [c \in Clients |->
        IF c \in RegisteredAt(i) /\ conn[c].phase = "streaming"
           /\ Len(conn[c].chan) < ChannelCap
        THEN [conn[c] EXCEPT !.chan = Append(@, e)] ELSE conn[c]]

\* The non-blocking sends of one event: a full channel loses it.
Offered(i, e) ==
    [c \in Clients |->
        IF c \in RegisteredAt(i) /\ Len(conn[c].chan) < ChannelCap
        THEN [conn[c] EXCEPT !.chan = Append(@, e)] ELSE conn[c]]

\* Events that will still reach the hub of i: those its own publishers are
\* about to fan out, and those by either route.
Local(i) == {f \in Ids : event[f].st = "stored" /\ event[f].at = i}
Coming(i) ==
    {f \in Ids : \/ event[f].st \in {"inserting", "doubtful"}
                 \/ f \in Local(i) \/ Contains(notify[i], f)}

\* What the fan-out of e at i takes from a client: e itself when its channel
\* is full, else the smaller ids it overtakes on their first way to this hub.
\* A bare one takes the event with its id, if no notification will bring that.
CutOff(i, e) ==
    [c \in Clients |->
        excused[c] \cup
        IF c \notin RegisteredAt(i) THEN {}
        ELSE IF e \notin Ids THEN (Local(i) \cap {Bare(e)}) \ (seen[i] \cup ToSet(notify[i]))
        ELSE IF Len(conn[c].chan) >= ChannelCap THEN {e}
        ELSE {f \in Coming(i) \ seen[i] : f < e}]

deliver(i, e) ==
    IF e \in seen[i]
    THEN UNCHANGED <<seen, conn, excused>>
    ELSE /\ seen' = IF e \in Ids THEN [seen EXCEPT ![i] = @ \cup {e}] ELSE seen
         /\ conn' = Offered(i, e)
         /\ excused' = CutOff(i, e)

---------------------------------------------------------------------------
(* Publishing.  The id comes from the sequence when the INSERT starts, the *)
(* row becomes visible when it commits.                                    *)

Append_Draw(i) ==
    /\ Born # Ids
    /\ member = Clients \/ Cardinality(Born) < MaxAway
    /\ event' = [event EXCEPT ![Min(Ids \ Born)] = [st |-> "inserting", at |-> i]]
    /\ UNCHANGED <<rows, floor, hubVars, conn, member, clientVars, excused, faults>>

\* The commit fires the trigger's pg_notify at every instance that listens; a
\* client of one that does not is cut off from the event, unless its own
\* instance waits for the answer.
Append_Commit(e) ==
    /\ event[e].st \in {"inserting", "doubtful"}
    /\ event' = [event EXCEPT ![e].st = IF @ = "inserting" THEN "stored" ELSE "unanswered"]
    /\ rows' = rows \cup {e}
    /\ notify' = [i \in Instances |->
                    IF listener[i] = "up" THEN Append(notify[i], e) ELSE notify[i]]
    /\ excused' = [c \in Clients |->
                     IF /\ conn[c].phase # "off" /\ listener[conn[c].at] # "up"
                        /\ event[e].st = "doubtful" \/ conn[c].at # event[e].at
                     THEN excused[c] \cup {e} ELSE excused[c]]
    /\ UNCHANGED <<floor, listener, seen, users, zombies, conn, member,
                   clientVars, faults>>

\* The publisher gets an error: the INSERT is refused or runs on without it, or
\* its answer is lost.  Local subscribers get the event all the same, bare.
Append_Fails(e) ==
    /\ event[e].st \in {"inserting", "stored"}
    /\ faults < MaxFaults
    /\ faults' = faults + 1
    /\ event' = [event EXCEPT ![e] =
                    Done(IF event[e].st = "stored" THEN "unanswered" ELSE "doubtful")]
    /\ deliver(event[e].at, Bare(e))
    /\ UNCHANGED <<rows, floor, notify, listener, users, zombies, member,
                   clientVars>>

\* An INSERT that nobody waits for is rolled back: there is no row, and nothing
\* can replay the event.
Append_RollsBack(e) ==
    /\ event[e].st = "doubtful"
    /\ event' = [event EXCEPT ![e] = Done("failed")]
    /\ UNCHANGED <<rows, floor, hubVars, conn, member, clientVars, excused, faults>>

Publish_FanOut(e) ==
    /\ event[e].st = "stored"
    /\ event' = [event EXCEPT ![e] = Done("published")]
    /\ deliver(event[e].at, e)
    /\ UNCHANGED <<rows, floor, notify, listener, users, zombies, member,
                   clientVars, faults>>

\* Every 256th append deletes rows past their retention and then raises the
\* floor, a second statement whose failure is ignored.  Rows that old (30
\* days) are long published and relayed.
Append_Prune(k) ==
    /\ k \in rows /\ \E r \in rows : k < r
    /\ \A e \in 1..k : /\ event[e].st \notin {"inserting", "doubtful", "stored"}
                       /\ \A i \in Instances : ~Contains(notify[i], e)
    /\ faults < MaxFaults
    /\ faults' = faults + 1
    /\ rows' = {e \in rows : e > k}
    /\ floor' \in {floor, k} /\ floor' >= floor
    /\ UNCHANGED <<event, hubVars, conn, member, clientVars, excused>>

---------------------------------------------------------------------------
(* The listener of an instance.                                            *)

\* Watch reads the row of the next notification and the hub fans it out; a
\* row that is gone is skipped.
Watch_Relay(i) ==
    /\ notify[i] # <<>>
    /\ notify' = [notify EXCEPT ![i] = Tail(@)]
    /\ IF Head(notify[i]) \in rows THEN deliver(i, Head(notify[i]))
       ELSE UNCHANGED <<seen, conn, excused>>
    /\ UNCHANGED <<storeVars, listener, users, zombies, member, clientVars, faults>>

\* The listening connection fails: of what was notified, the part already
\* read into Watch's channel survives, the rest is lost.
Watch_Drops(i) ==
    /\ listener[i] = "up"
    /\ faults < MaxFaults
    /\ faults' = faults + 1
    /\ listener' = [listener EXCEPT ![i] = "down"]
    /\ \E k \in 0..Len(notify[i]) :
          /\ notify' = [notify EXCEPT ![i] = SubSeq(@, 1, k)]
          /\ excused' = [c \in Clients |->
                excused[c] \cup IF c \in RegisteredAt(i)
                                THEN ToSet(SubSeq(notify[i], k + 1, Len(notify[i])))
                                     \ (seen[i] \cup Local(i))
                                ELSE {}]
    /\ UNCHANGED <<storeVars, seen, users, zombies, conn, member, clientVars>>

\* After a second Watch acquires a connection and listens again...
Watch_Listens(i) ==
    /\ listener[i] = "down"
    /\ listener' = [listener EXCEPT ![i] = "up"]
    /\ UNCHANGED <<storeVars, notify, seen, users, zombies, conn, member,
                   clientVars, excused, faults>>

\* ... unless the outage lasts and that attempt fails too: the goroutine
\* returns for good.
Watch_Returns(i) ==
    /\ listener[i] = "down"
    /\ listener' = [listener EXCEPT ![i] = "dead"]
    /\ UNCHANGED <<storeVars, notify, seen, users, zombies, conn, member,
                   clientVars, excused, faults>>

\* The process restarts: its channels, counters and memory go, nobody waits for
\* its inserts any more, and it listens again only when Watch gets to it.
Restart(i) ==
    /\ faults < MaxFaults
    /\ faults' = faults + 1
    /\ event' = [e \in Ids |->
                   IF event[e].at # i THEN event[e]
                   ELSE CASE event[e].st = "inserting" -> Done("doubtful")
                          [] event[e].st = "stored" -> Done("published")
                          [] OTHER -> event[e]]
    /\ notify' = [notify EXCEPT ![i] = <<>>]
    /\ listener' = [listener EXCEPT ![i] = "down"]
    /\ seen' = [seen EXCEPT ![i] = {}]
    /\ users' = [users EXCEPT ![i] = [c \in Clients |-> 0]]
    /\ zombies' = [zombies EXCEPT ![i] = [c \in Clients |-> 0]]
    /\ conn' = [c \in Clients |-> IF c \in RegisteredAt(i) THEN NoStream ELSE conn[c]]
    /\ UNCHANGED <<rows, floor, member, clientVars, excused>>

---------------------------------------------------------------------------
(* The stream handler.                                                     *)

Unsubscribed(i, c) == [users EXCEPT ![i][c] = @ - 1]

\* Membership is checked, a channel registered under the connection limit,
\* and only then is anything read from the log.  A stream opened without a
\* cursor owes its client what commits from now on.
Events_Subscribe(c, i) ==
    /\ conn[c].phase = "off"
    /\ c \in member
    /\ users[i][c] < MaxUser
    /\ users' = [users EXCEPT ![i][c] = @ + 1]
    /\ conn' = [conn EXCEPT ![c] = [NoStream EXCEPT !.phase = "registered", !.at = i]]
    /\ covered' = IF cursor[c] = 0 THEN [covered EXCEPT ![c] = @ \cup Committed]
                                   ELSE covered
    /\ UNCHANGED <<storeVars, notify, listener, seen, zombies, member, cursor,
                   excused, faults>>

\* Mutant: only the floor is looked at.
ExpiredByFloor(after) == after > 0 /\ after < floor

Expired(after) ==
    after > 0 /\ (after < floor \/ (rows # {} /\ after + 1 < Min(rows)))

\* Mutant: an expired cursor jumps to the newest row.
ListAfter_CheckSkips(c) ==
    /\ conn[c].phase = "registered"
    /\ IF Expired(cursor[c])
       THEN /\ users' = Unsubscribed(conn[c].at, c)
            /\ conn' = [conn EXCEPT ![c] = NoStream]
            /\ cursor' = [cursor EXCEPT ![c] = Max(rows)]
       ELSE /\ conn' = [conn EXCEPT ![c].phase = "checked"]
            /\ UNCHANGED <<users, cursor>>
    /\ UNCHANGED <<storeVars, notify, listener, seen, zombies, member, covered,
                   excused, faults>>

\* The cursor is checked against the retained log.  An expired one ends the
\* request, and the client forgets it.
ListAfter_Check(c) ==
    /\ conn[c].phase = "registered"
    /\ IF Expired(cursor[c])
       THEN /\ users' = Unsubscribed(conn[c].at, c)
            /\ conn' = [conn EXCEPT ![c] = NoStream]
            /\ cursor' = [cursor EXCEPT ![c] = 0]
       ELSE /\ conn' = [conn EXCEPT ![c].phase = "checked"]
            /\ UNCHANGED <<users, cursor>>
    /\ UNCHANGED <<storeVars, notify, listener, seen, zombies, member, covered,
                   excused, faults>>

\* The rows after a cursor, the oldest first, at most a page of them.
PageAfter(after) ==
    {e \in rows : e > after /\ Cardinality({f \in rows : after < f /\ f < e}) < ReplayLimit}

\* A separate statement reads the rows.  The client is cut off from what was
\* pruned since the check, from what exceeds the page and from smaller ids
\* still uncommitted.
ListAfter_Load(c) ==
    LET page == IF cursor[c] = 0 THEN {} ELSE PageAfter(cursor[c])
    IN  /\ conn[c].phase = "checked"
        /\ conn' = [conn EXCEPT ![c].phase = "streaming",
                                ![c].replay = page, ![c].sent = page]
        /\ excused' = [excused EXCEPT ![c] = @ \cup
              IF cursor[c] = 0 THEN {}
              ELSE ({e \in Committed : e > cursor[c]} \ page)
                   \cup {e \in Born \ Committed : \E f \in page : e < f}]
        /\ UNCHANGED <<storeVars, hubVars, member, clientVars, faults>>

\* The client takes a frame with an id, which becomes the cursor.
Received(c, e) ==
    /\ cursor' = [cursor EXCEPT ![c] = e]
    /\ covered' = [covered EXCEPT ![c] = @ \cup {e}]

\* The rows are written in the order of their ids.
Events_WriteReplay(c) ==
    /\ conn[c].phase = "streaming"
    /\ conn[c].replay # {}
    /\ LET e == Min(conn[c].replay) IN
         /\ conn' = [conn EXCEPT ![c].replay = @ \ {e}, ![c].wrote = Append(@, e)]
         /\ Received(c, e)
    /\ UNCHANGED <<storeVars, hubVars, member, excused, faults>>

\* An event that was already written with its id is skipped.
Events_WriteLive(c) ==
    /\ conn[c].phase = "streaming"
    /\ conn[c].replay = {}
    /\ conn[c].chan # <<>>
    /\ LET e == Head(conn[c].chan) IN
         \/ /\ e \in conn[c].sent
            /\ conn' = [conn EXCEPT ![c].chan = Tail(@)]
            /\ UNCHANGED clientVars
         \/ /\ e \notin Ids
            /\ conn' = [conn EXCEPT ![c].chan = Tail(@),
                                    ![c].bare = Append(@, Bare(e))]
            /\ UNCHANGED clientVars
         \/ /\ e \in Ids \ conn[c].sent
            /\ conn' = [conn EXCEPT ![c].chan = Tail(@),
                                    ![c].sent = @ \cup {e},
                                    ![c].wrote = Append(@, e)]
            /\ Received(c, e)
    /\ UNCHANGED <<storeVars, hubVars, member, excused, faults>>

\* A keep-alive tick of a stream whose viewer has left the household (a
\* member's ticks change nothing); every RecheckEvery-th one looks the
\* membership up, which ends the stream unless the lookup fails.
Events_Tick(c) ==
    LET due == conn[c].ticks + 1 = RecheckEvery
    IN  /\ conn[c].phase = "streaming"
        /\ conn[c].replay = {}
        /\ c \notin member
        /\ IF due
           THEN \/ /\ conn' = [conn EXCEPT ![c] = NoStream]
                   /\ users' = Unsubscribed(conn[c].at, c)
                   /\ UNCHANGED faults
                \/ /\ faults < MaxFaults
                   /\ faults' = faults + 1
                   /\ conn' = [conn EXCEPT ![c].ticks = 0, ![c].missed = @ + 1,
                                           ![c].stale = @ + 1]
                   /\ UNCHANGED users
           ELSE /\ conn' = [conn EXCEPT ![c].ticks = @ + 1, ![c].stale = @ + 1]
                /\ UNCHANGED <<users, faults>>
        /\ UNCHANGED <<storeVars, notify, listener, seen, zombies, member,
                       clientVars, excused>>

\* The client closes the connection: the request's context ends, and the
\* handler's defer takes the channel out of the hub.
Disconnect(c) ==
    /\ conn[c].phase # "off"
    /\ conn' = [conn EXCEPT ![c] = NoStream]
    /\ users' = Unsubscribed(conn[c].at, c)
    /\ UNCHANGED <<storeVars, notify, listener, seen, zombies, member, clientVars,
                   excused, faults>>

\* The client vanishes without closing: its channel stays counted.
GoHalfOpen(c) ==
    /\ conn[c].phase = "streaming"
    /\ faults < MaxFaults
    /\ faults' = faults + 1
    /\ zombies' = [zombies EXCEPT ![conn[c].at][c] = @ + 1]
    /\ conn' = [conn EXCEPT ![c] = NoStream]
    /\ UNCHANGED <<storeVars, notify, listener, seen, users, member, clientVars,
                   excused>>

\* The write to a dead connection fails, and the handler's defer runs.
Events_Return(i, c) ==
    /\ zombies[i][c] > 0
    /\ zombies' = [zombies EXCEPT ![i][c] = @ - 1]
    /\ users' = Unsubscribed(i, c)
    /\ UNCHANGED <<storeVars, notify, listener, seen, conn, member, clientVars,
                   excused, faults>>

\* The membership ends, at any point of the open stream's recheck period.
LeaveHousehold(c) ==
    /\ c \in member
    /\ Cardinality(Born) <= MaxAway
    /\ member' = member \ {c}
    /\ \E t \in 0..RecheckEvery - 1 :
          conn' = IF conn[c].phase = "streaming" THEN [conn EXCEPT ![c].ticks = t]
                                                 ELSE conn
    /\ UNCHANGED <<storeVars, hubVars, clientVars, excused, faults>>

Next ==
    \/ \E i \in Instances : \/ Append_Draw(i) \/ Watch_Relay(i) \/ Watch_Drops(i)
                            \/ Watch_Listens(i) \/ Watch_Returns(i) \/ Restart(i)
    \/ \E e \in Ids : \/ Append_Commit(e) \/ Append_Fails(e) \/ Append_RollsBack(e)
                      \/ Publish_FanOut(e) \/ Append_Prune(e)
    \/ \E c \in Clients : \/ ListAfter_Check(c) \/ ListAfter_Load(c)
                          \/ Events_WriteReplay(c) \/ Events_WriteLive(c)
                          \/ Events_Tick(c) \/ Disconnect(c) \/ GoHalfOpen(c)
                          \/ LeaveHousehold(c)
    \/ \E c \in Clients, i \in Instances :
          Events_Subscribe(c, i) \/ Events_Return(i, c)

Spec == Init /\ [][Next]_vars

---------------------------------------------------------------------------
(* Properties.                                                             *)

\* The cursor is trustworthy but for four named causes: whatever committed at
\* or below it was received (or needs no receiving) unless the event was
\* overtaken by a larger id, met a full channel, was another instance's (or one
\* whose publisher got an error) and was committed or notified while this one's
\* listener was away, or fell out
\* of a replay (beyond its page, or pruned between the check of the cursor and
\* the read).
OnlyKnownGaps ==
    \A c \in Clients : \A e \in Committed :
        e <= cursor[c] => e \in covered[c] \cup excused[c]

\* One stream never writes an event twice, although replay, local fan-out and
\* relay may each bring it to the channel; but an event that committed while its
\* publisher got an error may come once bare and once with its id.
NoDuplicateFrames ==
    \A c \in Clients :
        /\ IsInjective(conn[c].wrote) /\ IsInjective(conn[c].bare)
        /\ \A e \in ToSet(conn[c].wrote) \cap ToSet(conn[c].bare) :
              event[e].st = "unanswered"

\* The connection limit counts exactly the channels still registered: those
\* of live streams and those whose handler has not yet noticed.
CountersMatch ==
    \A i \in Instances, c \in Clients :
        users[i][c] = zombies[i][c] + (IF c \in RegisteredAt(i) THEN 1 ELSE 0)

\* A stream outlives its viewer's membership by less than one recheck period,
\* plus one for every lookup that failed.
StaleStreamsEnd ==
    \A c \in Clients : conn[c].stale < RecheckEvery * (1 + conn[c].missed)

\* A cursor passes the check only when every event committed after it is
\* still in the log, whether or not the floor was raised.
ExpiredCursorsAreTold ==
    [][\A c \in Clients :
          conn[c].phase = "registered" /\ conn'[c].phase = "checked" /\ cursor[c] > 0
          => {e \in Committed : e > cursor[c]} \subseteq rows]_vars

\* No open stream waits for an event that is not coming: what committed and
\* neither reached the client nor was cut off by a named cause is still on
\* its way, from the publisher, the listener, the channel or the replay.
NothingStranded ==
    \A c \in Clients : \A e \in Committed :
        conn[c].phase = "streaming" =>
            \/ e \in covered[c] \cup excused[c]
            \/ e \in Coming(conn[c].at)
            \/ e \in conn[c].replay \/ Contains(conn[c].chan, e)

\* What a stream promises besides its cursor, at any moment and through every
\* failure of the relay: no event twice, none stranded, no viewer who is no
\* member for long, no connection counted that is gone (Hub, Events).
Safety ==
    TypeOK /\ NoDuplicateFrames /\ CountersMatch /\ StaleStreamsEnd /\ NothingStranded
=============================================================================
