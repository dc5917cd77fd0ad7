-------------------------- MODULE EventStreamProofs --------------------------
(***************************************************************************)
(* Theorems about EventStream, for any number of API processes, clients    *)
(* and events, any capacities and any number of faults: frames, counters   *)
(* and membership are right, a cursor passes an event for a named cause    *)
(* only, and a cursor whose events are gone is refused.                    *)
(***************************************************************************)
EXTENDS EventStream, SequenceTheorems, OrderLemmas

\* Events that are, or may yet be, in the log.
Real == {f \in Born : event[f].st # "failed"}

\* An event whose publisher or whose INSERT has not finished.
Open == {"inserting", "doubtful", "stored"}

\* Ids are drawn in order; what was pruned lies below everything that is still
\* to come; whatever is still to reach a hub is in the log.
Log ==
    /\ \A e \in Born : \A f \in Ids : f < e => f \in Born
    /\ \A e \in Committed \ rows :
         /\ rows # {}
         /\ \A f \in Ids : f <= e => f \notin rows /\ event[f].st \notin Open
    /\ \A f \in Ids : event[f].st = "stored" => f \in rows
    /\ \A i \in Instances : \A n \in DOMAIN notify[i] : notify[i][n] \in rows
    /\ \A i \in Instances : seen[i] \subseteq Committed

\* What a client received or was cut off from.
Account(c) == covered[c] \cup excused[c]
\* What the page that is still to be loaded will bring, or leave out.
Due(c) == IF conn[c].phase \in {"registered", "checked"} /\ cursor[c] # 0
          THEN {f \in Committed : f > cursor[c]} ELSE {}
\* What is no longer waited for, or is in the replay.
Answered(c) == Account(c) \cup conn[c].replay \cup Due(c)

\* The replay is loaded once, no frame is written twice, and a written one was
\* received.
Frames(c) ==
    /\ conn[c].phase # "streaming" => conn[c].replay = {} /\ conn[c].wrote = <<>>
    /\ conn[c].replay \subseteq conn[c].sent
    /\ \A n \in DOMAIN conn[c].wrote : conn[c].wrote[n] \in conn[c].sent \ conn[c].replay
    /\ IsInjective(conn[c].wrote)
    /\ conn[c].phase = "streaming" => conn[c].sent \subseteq Account(c) \cup conn[c].replay

\* Nothing real below the cursor, below an event of the replay or before one in
\* the channel is still to come without an excuse.
Cursor(c) ==
    /\ cursor[c] \in Born \cup {0}
    /\ \A f \in Real : f <= cursor[c] => f \in Account(c)
Replay(c) ==
    \A e \in conn[c].replay :
        e \in Committed /\ \A f \in Real : f < e => f \in Account(c) \cup conn[c].replay
Channel(c) ==
    \A p \in DOMAIN conn[c].chan : conn[c].chan[p] \in Ids =>
        /\ conn[c].chan[p] \in Committed
        /\ \A f \in Real : f < conn[c].chan[p] =>
             f \in Answered(c) \/ \E q \in DOMAIN conn[c].chan : q < p /\ conn[c].chan[q] = f

\* What the hub has fanned out, or will never see, has left its trace.
Reached(c) ==
    conn[c].phase # "off" =>
        \A f \in Committed :
            f \in seen[conn[c].at] \/ f \notin Coming(conn[c].at) =>
                f \in Answered(c) \/ \E q \in DOMAIN conn[c].chan : conn[c].chan[q] = f

Client(c) == Frames(c) /\ Cursor(c) /\ Replay(c) /\ Channel(c) /\ Reached(c)

\* A stream whose viewer has left is at most as old as its ticks and its failed
\* lookups account for; a member's is not stale.
Within(s) == s.stale <= s.ticks + RecheckEvery * s.missed
Aged == \A c \in Clients : Within(conn[c]) /\ (c \in member => conn[c].stale = 0)

\* What the handler and the hub count is right whatever the log holds.
Counts == TypeOK /\ CountersMatch /\ Aged

-----------------------------------------------------------------------------
(* Bounds, tables and streams. *)

\* The bounds are numbers; a bare event is not an id, and stands for one.
LEMMA Bounds ==
  /\ MaxEvents \in Nat /\ History \in 0..MaxEvents /\ MaxFaults \in Nat
  /\ ChannelCap \in Nat /\ ChannelCap > 0
  /\ MaxUser \in Nat /\ MaxUser > 0
  /\ RecheckEvery \in Nat /\ RecheckEvery > 0
  /\ Ids \subseteq Nat /\ 0 \notin Ids /\ Ids \subseteq Frame
  /\ \A e \in Ids : Bare(e) \in Frame /\ Bare(e) \notin Ids /\ Bare(Bare(e)) = e
  /\ \A f \in Frame : f \notin Ids => Bare(f) \in Ids /\ Bare(Bare(f)) = f
  /\ \A e \in Ids : e > 0 /\ e \in 0..MaxEvents
BY StreamAssumption DEF Ids, Frame, Bare

\* A recheck period more for every failed lookup.
LEMMA Periods ==
  /\ RecheckEvery * 0 = 0
  /\ \A n \in Nat : /\ RecheckEvery * n \in Nat
                    /\ RecheckEvery * (n + 1) = RecheckEvery * n + RecheckEvery
BY Bounds

\* A stream that is not there, and the parts of one that is.
LEMMA Streams ==
  /\ NoStream \in StreamType /\ NoStream.phase = "off" /\ NoStream.at \in Instances
  /\ NoStream.chan = <<>> /\ NoStream.replay = {} /\ NoStream.sent = {}
  /\ NoStream.wrote = <<>> /\ NoStream.bare = <<>>
  /\ NoStream.ticks = 0 /\ NoStream.missed = 0 /\ NoStream.stale = 0
  /\ \A s \in StreamType :
       /\ s.phase \in {"off", "registered", "checked", "streaming"} /\ s.at \in Instances
       /\ s.chan \in Seq(Frame) /\ s.replay \subseteq Ids /\ s.sent \subseteq Ids
       /\ s.wrote \in Seq(Ids) /\ s.bare \in Seq(Ids)
       /\ s.ticks \in 0..RecheckEvery - 1 /\ s.ticks \in Nat
       /\ s.ticks + 1 <= RecheckEvery /\ s.missed \in Nat /\ s.stale \in Nat
<1>1. (CHOOSE i \in Instances : TRUE) \in Instances
  BY StreamAssumption
<1>2. 0 \in 0..RecheckEvery - 1 /\ \A t \in 0..RecheckEvery - 1 : t \in Nat /\ t + 1 <= RecheckEvery
  BY Bounds
<1>3. <<>> \in Seq(Ids) /\ <<>> \in Seq(Frame)
  BY EmptySeq
<1>4. NoStream \in StreamType
  BY <1>1, <1>2, <1>3 DEF NoStream, StreamType
<1> QED BY <1>1, <1>2, <1>4 DEF NoStream, StreamType

\* One stream changes, and the others do not.
LEMMA OneStream ==
  ASSUME TypeOK, NEW c \in Clients, NEW s \in StreamType, Len(s.chan) <= ChannelCap,
         conn' = [conn EXCEPT ![c] = s]
  PROVE  /\ conn' \in [Clients -> StreamType] /\ conn'[c] = s
         /\ \A d \in Clients : Len(conn'[d].chan) <= ChannelCap
         /\ \A d \in Clients \ {c} : conn'[d] = conn[d]
<1>1. conn \in [Clients -> StreamType] /\ \A d \in Clients : Len(conn[d].chan) <= ChannelCap
  BY DEF TypeOK
<1> QED BY <1>1

\* One entry of a table of counters changes, and the others do not.
LEMMA OneCounter ==
  ASSUME NEW T, NEW u \in [Instances -> [Clients -> T]], NEW i \in Instances, NEW c \in Clients,
         NEW n \in T, NEW v, v = [u EXCEPT ![i][c] = n]
  PROVE  /\ v \in [Instances -> [Clients -> T]] /\ v[i][c] = n
         /\ \A j \in Instances, d \in Clients : j # i \/ d # c => v[j][d] = u[j][d]
OBVIOUS

\* What TypeOK says of the pieces.
LEMMA TypeFacts ==
  ASSUME TypeOK
  PROVE  /\ conn \in [Clients -> StreamType]
         /\ \A c \in Clients : conn[c] \in StreamType /\ Len(conn[c].chan) <= ChannelCap
         /\ \A i \in Instances, c \in Clients :
              /\ users[i][c] \in 0..MaxUser /\ users[i][c] \in Nat
              /\ zombies[i][c] \in 0..MaxUser /\ zombies[i][c] \in Nat
         /\ faults \in Nat /\ faults \in 0..MaxFaults
         /\ \A c \in Clients : cursor[c] \in Nat /\ covered[c] \subseteq Ids /\ excused[c] \subseteq Ids
         /\ \A e \in Ids : event[e].at \in Instances
         /\ Committed \subseteq Ids /\ Born \subseteq Ids /\ rows \subseteq Ids
<1>1. 0..MaxUser \subseteq Nat /\ 0..MaxFaults \subseteq Nat /\ 0..MaxEvents \subseteq Nat
  BY Bounds
<1> QED BY <1>1 DEF TypeOK, EventType, Committed, Born

\* The numbers that only grow by one.
LEMMA FaultFacts ==
  ASSUME TypeOK, faults < MaxFaults, faults' = faults + 1
  PROVE  faults' \in 0..MaxFaults /\ faults' \in Nat /\ faults <= faults'
<1>1. faults \in Nat /\ MaxFaults \in Nat
  BY TypeFacts, Bounds
<1> QED BY <1>1

-----------------------------------------------------------------------------
(***************************************************************************)
(* Types, counters and ticks.                                              *)
(***************************************************************************)
\* An event joins a channel that has room.
LEMMA Pushed ==
  ASSUME NEW s \in StreamType, NEW e \in Frame, Len(s.chan) < ChannelCap,
         NEW t, t = [s EXCEPT !.chan = Append(@, e)]
  PROVE  /\ t \in StreamType /\ t.chan = Append(s.chan, e) /\ Len(t.chan) <= ChannelCap
         /\ t.phase = s.phase /\ t.at = s.at /\ t.replay = s.replay /\ t.sent = s.sent
         /\ t.wrote = s.wrote /\ t.bare = s.bare
         /\ t.ticks = s.ticks /\ t.missed = s.missed /\ t.stale = s.stale
<1>1. s.chan \in Seq(Frame)
  BY Streams
<1>2. Append(s.chan, e) \in Seq(Frame) /\ Len(Append(s.chan, e)) = Len(s.chan) + 1
  BY <1>1, AppendProperties
<1>3. Len(s.chan) \in Nat
  BY <1>1, LenProperties
<1>4. Len(s.chan) + 1 <= ChannelCap
  BY <1>3, Bounds
<1>5. t = [s EXCEPT !.chan = Append(s.chan, e)]
  OBVIOUS
<1>6. \A x \in Seq(Frame) : LET u == [s EXCEPT !.chan = x]
                                    IN  /\ u \in StreamType /\ u.chan = x
                                        /\ u.phase = s.phase /\ u.at = s.at /\ u.replay = s.replay
                                        /\ u.sent = s.sent /\ u.wrote = s.wrote /\ u.bare = s.bare /\ u.ticks = s.ticks
                                        /\ u.missed = s.missed /\ u.stale = s.stale
  BY DEF StreamType
<1>7. LET u == [s EXCEPT !.chan = Append(s.chan, e)]
      IN  /\ u \in StreamType /\ u.chan = Append(s.chan, e)
          /\ u.phase = s.phase /\ u.at = s.at /\ u.replay = s.replay
          /\ u.sent = s.sent /\ u.wrote = s.wrote /\ u.bare = s.bare
          /\ u.ticks = s.ticks /\ u.missed = s.missed /\ u.stale = s.stale
  BY <1>2, <1>6
<1> QED BY <1>2, <1>4, <1>5, <1>7

\* A fan-out changes channels only.
LEMMA Delivered ==
  ASSUME TypeOK, NEW i \in Instances, NEW e \in Frame, deliver(i, e)
  PROVE  /\ seen' \in [Instances -> SUBSET Ids]
         /\ conn' \in [Clients -> StreamType]
         /\ excused' \in [Clients -> SUBSET Ids]
         /\ \A c \in Clients :
              /\ Len(conn'[c].chan) <= ChannelCap
              /\ conn'[c].phase = conn[c].phase /\ conn'[c].at = conn[c].at
              /\ conn'[c].replay = conn[c].replay /\ conn'[c].sent = conn[c].sent
              /\ conn'[c].wrote = conn[c].wrote /\ conn'[c].bare = conn[c].bare /\ conn'[c].ticks = conn[c].ticks
              /\ conn'[c].missed = conn[c].missed /\ conn'[c].stale = conn[c].stale
<1>1. CASE UNCHANGED <<seen, conn, excused>>
  BY <1>1 DEF TypeOK
<1>2. CASE /\ seen' = IF e \notin Ids THEN seen ELSE [seen EXCEPT ![i] = @ \cup {e}]
           /\ conn' = Offered(i, e)
           /\ excused' = CutOff(i, e)
  <2>1. seen' \in [Instances -> SUBSET Ids]
    BY <1>2, Bounds DEF TypeOK
  <2>2. ASSUME NEW c \in Clients
        PROVE  /\ conn'[c] \in StreamType /\ Len(conn'[c].chan) <= ChannelCap
               /\ conn'[c].phase = conn[c].phase /\ conn'[c].at = conn[c].at
               /\ conn'[c].replay = conn[c].replay /\ conn'[c].sent = conn[c].sent
               /\ conn'[c].wrote = conn[c].wrote /\ conn'[c].bare = conn[c].bare /\ conn'[c].ticks = conn[c].ticks
               /\ conn'[c].missed = conn[c].missed /\ conn'[c].stale = conn[c].stale
    <3>1. conn[c] \in StreamType /\ Len(conn[c].chan) <= ChannelCap
      BY TypeFacts
    <3>2. CASE conn'[c] = conn[c]
      BY <3>1, <3>2
    <3>3. CASE Len(conn[c].chan) < ChannelCap /\ conn'[c] = [conn[c] EXCEPT !.chan = Append(@, e)]
      BY <3>1, <3>3, Pushed
    <3> QED BY <1>2, <3>2, <3>3 DEF Offered
  <2>3. conn' \in [Clients -> StreamType]
    BY <1>2, <2>2 DEF Offered
  <2>4. \A c \in Clients : excused'[c] \subseteq Ids
    BY <1>2, TypeFacts DEF CutOff, Coming, Local
  <2>5. excused' \in [Clients -> SUBSET Ids]
    BY <1>2, <2>4 DEF CutOff
  <2> QED BY <2>1, <2>2, <2>3, <2>5
<1> QED BY <1>1, <1>2 DEF deliver

\* A step that opens, closes and ages no stream.
LEMMA CountsKept ==
  ASSUME Counts, TypeOK', UNCHANGED <<users, zombies, member>>,
         \A c \in Clients : /\ conn'[c].phase = conn[c].phase /\ conn'[c].at = conn[c].at
                            /\ conn'[c].ticks = conn[c].ticks /\ conn'[c].missed = conn[c].missed
                            /\ conn'[c].stale = conn[c].stale
  PROVE  Counts'
<1>1. TypeOK /\ CountersMatch /\ Aged
  BY DEF Counts
<1>2. CountersMatch'
  BY <1>1 DEF CountersMatch, RegisteredAt
<1>3. Aged'
  BY <1>1 DEF Aged, Within
<1> QED BY <1>2, <1>3 DEF Counts

\* A stream that is not there is not stale.
LEMMA OffIsWithin == Within(NoStream) /\ NoStream.stale = 0
BY Streams, Periods DEF Within

\* A stream ends, and its count goes, or stays with a zombie.
LEMMA CountsEnd ==
  ASSUME Counts, TypeOK', NEW c \in Clients, conn[c].phase # "off",
         conn' = [conn EXCEPT ![c] = NoStream], UNCHANGED member,
         LET i == conn[c].at IN
           \/ users' = [users EXCEPT ![i][c] = users[i][c] - 1] /\ zombies' = zombies
           \/ users' = users /\ zombies' = [zombies EXCEPT ![i][c] = zombies[i][c] + 1]
  PROVE  Counts'
<1> DEFINE i == conn[c].at
<1>1. TypeOK /\ CountersMatch /\ Aged
  BY DEF Counts
<1>2. i \in Instances
  BY <1>1, TypeFacts, Streams
<1>3. conn'[c] = NoStream /\ NoStream.phase = "off" /\ \A d \in Clients \ {c} : conn'[d] = conn[d]
  BY <1>1, Streams DEF TypeOK
<1>4. /\ \A j \in Instances, d \in Clients :
           j # i \/ d # c => users'[j][d] = users[j][d] /\ zombies'[j][d] = zombies[j][d]
      /\ \/ users'[i][c] = users[i][c] - 1 /\ zombies'[i][c] = zombies[i][c]
         \/ users'[i][c] = users[i][c] /\ zombies'[i][c] = zombies[i][c] + 1
  <2>1. users \in [Instances -> [Clients -> 0..MaxUser]]
        /\ zombies \in [Instances -> [Clients -> 0..MaxUser]]
    BY <1>1 DEF TypeOK
  <2>2. CASE users' = [users EXCEPT ![i][c] = users[i][c] - 1] /\ zombies' = zombies
    BY <1>2, <2>1, <2>2
  <2>3. CASE users' = users /\ zombies' = [zombies EXCEPT ![i][c] = zombies[i][c] + 1]
    BY <1>2, <2>1, <2>3
  <2> QED BY <2>2, <2>3
<1>5. CountersMatch'
  <2> SUFFICES ASSUME NEW j \in Instances, NEW d \in Clients
               PROVE  users'[j][d] = zombies'[j][d]
                        + (IF conn'[d].phase # "off" /\ conn'[d].at = j THEN 1 ELSE 0)
    BY DEF CountersMatch, RegisteredAt
  <2>1. users[j][d] = zombies[j][d] + (IF conn[d].phase # "off" /\ conn[d].at = j THEN 1 ELSE 0)
        /\ users[j][d] \in Nat /\ zombies[j][d] \in Nat
    BY <1>1, TypeFacts DEF CountersMatch, RegisteredAt
  <2>2. CASE j = i /\ d = c
    BY <1>3, <1>4, <2>1, <2>2
  <2>3. CASE d # c
    BY <1>3, <1>4, <2>1, <2>3
  <2>4. CASE d = c /\ j # i
    BY <1>3, <1>4, <2>1, <2>4
  <2> QED BY <2>2, <2>3, <2>4
<1>6. Aged'
  BY <1>1, <1>3, OffIsWithin DEF Aged
<1> QED BY <1>5, <1>6 DEF Counts

\* An event changes its state and keeps its type; what was committed stays so.
LEMMA EventMoves ==
  ASSUME TypeOK, NEW e \in Ids, NEW s \in EventType, event' = [event EXCEPT ![e] = s]
  PROVE  /\ event' \in [Ids -> EventType] /\ event'[e] = s
         /\ \A f \in Ids \ {e} : event'[f] = event[f]
         /\ s.st \in {"stored", "published", "unanswered"} => Committed' = Committed \cup {e}
         /\ s.st \notin {"stored", "published", "unanswered"} => Committed' = Committed \ {e}
         /\ s.st # "unborn" => Born' = Born \cup {e}
<1>1. event \in [Ids -> EventType]
  BY DEF TypeOK
<1>2. event' \in [Ids -> EventType] /\ event'[e] = s /\ \A f \in Ids \ {e} : event'[f] = event[f]
  BY <1>1
<1> QED BY <1>2 DEF Committed, Born

\* The states a publisher leaves an event in.
LEMMA EventStates ==
  /\ \A i \in Instances : [st |-> "inserting", at |-> i] \in EventType
  /\ \A st \in {"unborn", "published", "doubtful", "unanswered", "failed"} :
       Done(st) \in EventType /\ Done(st).st = st
  /\ \A s \in EventType, st \in {"stored", "unanswered"} :
       LET t == [s EXCEPT !.st = st] IN t \in EventType /\ t.st = st /\ t.at = s.at
BY Streams DEF EventType, Done

\* How the publishing steps move their event.  A commit answers its publisher,
\* or comes too late for that...
LEMMA CommitMoves ==
  ASSUME TypeOK, NEW e \in Ids, Append_Commit(e)
  PROVE  /\ event' \in [Ids -> EventType] /\ Committed' = Committed \cup {e} /\ Born' = Born
         /\ e \notin Committed
         /\ \A f \in Ids \ {e} : event'[f] = event[f]
         /\ \/ event[e].st = "inserting" /\ event'[e].st = "stored" /\ event'[e].at = event[e].at
            \/ event[e].st = "doubtful" /\ event'[e].st = "unanswered"
<1> DEFINE st == IF event[e].st = "inserting" THEN "stored" ELSE "unanswered"
           s == [event[e] EXCEPT !.st = st]
<1>1. event[e] \in EventType /\ event[e].st \in {"inserting", "doubtful"}
  BY DEF Append_Commit, TypeOK
<1>2. st \in {"stored", "unanswered"} /\ event' = [event EXCEPT ![e] = s]
  BY DEF Append_Commit, TypeOK
<1>3. s \in EventType /\ s.st = st /\ s.at = event[e].at
  <2> HIDE DEF st
  <2> QED BY <1>1, <1>2, EventStates
<1> HIDE DEF s
<1>4. /\ event' \in [Ids -> EventType] /\ event'[e] = s /\ \A f \in Ids \ {e} : event'[f] = event[f]
      /\ Committed' = Committed \cup {e} /\ Born' = Born \cup {e}
  BY <1>2, <1>3, EventMoves
<1>5. e \in Born /\ e \notin Committed
  BY <1>1 DEF Born, Committed
<1> QED BY <1>1, <1>3, <1>4, <1>5

\* ... an error leaves the event in doubt or unanswered...
LEMMA FailMoves ==
  ASSUME TypeOK, NEW e \in Ids, Append_Fails(e)
  PROVE  /\ event' \in [Ids -> EventType] /\ Committed' = Committed /\ Born' = Born
         /\ \A f \in Ids \ {e} : event'[f] = event[f]
         /\ \/ event[e].st = "inserting" /\ event'[e].st = "doubtful"
            \/ event[e].st = "stored" /\ event'[e].st = "unanswered"
         /\ event[e].at \in Instances /\ deliver(event[e].at, Bare(e)) /\ Bare(e) \in Frame
<1> DEFINE st == IF event[e].st = "stored" THEN "unanswered" ELSE "doubtful"
           s == Done(st)
<1>1. event[e].st \in {"inserting", "stored"} /\ event' = [event EXCEPT ![e] = s]
  BY DEF Append_Fails
<1>2. st \in {"doubtful", "unanswered"}
  OBVIOUS
<1>3. s \in EventType /\ s.st = st
  <2> HIDE DEF st
  <2> QED BY <1>2, EventStates
<1> HIDE DEF s
<1>4. event' \in [Ids -> EventType] /\ event'[e] = s /\ \A f \in Ids \ {e} : event'[f] = event[f]
  BY <1>1, <1>3, EventMoves
<1>5. /\ \/ event[e].st = "inserting" /\ event'[e].st = "doubtful"
         \/ event[e].st = "stored" /\ event'[e].st = "unanswered"
  BY <1>1, <1>3, <1>4
<1>6. Committed' = Committed /\ Born' = Born
  BY <1>4, <1>5 DEF Committed, Born
<1>7. event[e].at \in Instances /\ deliver(event[e].at, Bare(e)) /\ Bare(e) \in Frame
  BY TypeFacts, Bounds DEF Append_Fails
<1> QED BY <1>4, <1>5, <1>6, <1>7

\* ... a rollback ends it, and so does its fan-out.
LEMMA EndMoves ==
  ASSUME TypeOK, NEW e \in Ids, Append_RollsBack(e) \/ Publish_FanOut(e)
  PROVE  /\ event' \in [Ids -> EventType] /\ Committed' = Committed /\ Born' = Born
         /\ \A f \in Ids \ {e} : event'[f] = event[f]
         /\ \/ Append_RollsBack(e) /\ event[e].st = "doubtful" /\ event'[e].st = "failed"
            \/ Publish_FanOut(e) /\ event[e].st = "stored" /\ event'[e].st = "published"
<1>1. ASSUME NEW st \in {"failed", "published"}, event' = [event EXCEPT ![e] = Done(st)]
      PROVE  event' \in [Ids -> EventType] /\ event'[e].st = st /\ \A f \in Ids \ {e} : event'[f] = event[f]
  <2>1. Done(st) \in EventType /\ Done(st).st = st
    BY EventStates
  <2> QED BY <1>1, <2>1, EventMoves
<1>2. CASE Append_RollsBack(e)
  BY <1>1, <1>2 DEF Append_RollsBack, Committed, Born
<1>3. CASE Publish_FanOut(e)
  BY <1>1, <1>3 DEF Publish_FanOut, Committed, Born
<1> QED BY <1>2, <1>3

\* A step of a publisher or of the database.
Publishing ==
    \/ \E i \in Instances : Append_Draw(i)
    \/ \E e \in Ids : \/ Append_Commit(e) \/ Append_Fails(e) \/ Append_RollsBack(e)
                      \/ Publish_FanOut(e) \/ Append_Prune(e)

\* Publishing keeps types and counts.
LEMMA PublishCounts ==
  ASSUME Counts, Publishing
  PROVE  Counts'
<1>0. TypeOK
  BY DEF Counts
<1>1. ASSUME NEW i \in Instances, Append_Draw(i) PROVE Counts'
  <2>1. Min(Ids \ Born) \in Ids
    BY <1>1, Bounds, LeastNat DEF Append_Draw, Born
  <2> DEFINE s == [st |-> "inserting", at |-> i]
  <2>2. event' = [event EXCEPT ![Min(Ids \ Born)] = s]
    BY <1>1 DEF Append_Draw
  <2>3. event' \in [Ids -> EventType] /\ Committed' = Committed \ {Min(Ids \ Born)}
    <3>1. s \in EventType /\ s.st \notin {"stored", "published", "unanswered"}
      BY EventStates
    <3> HIDE DEF s
    <3> QED BY <1>0, <2>1, <2>2, <3>1, EventMoves
  <2>4. Min(Ids \ Born) \notin Committed
    <3>1. Min(Ids \ Born) \in Ids \ Born
      BY <1>1, Bounds, LeastNat DEF Append_Draw, Born
    <3> QED BY <3>1 DEF Born, Committed
  <2>5. TypeOK'
    BY <1>0, <1>1, <2>3, <2>4 DEF Append_Draw, TypeOK, hubVars, clientVars
  <2> QED BY <1>1, <2>5, CountsKept DEF Append_Draw, hubVars
<1>2. ASSUME NEW e \in Ids, Append_Commit(e) PROVE Counts'
  <2>2. event' \in [Ids -> EventType] /\ Committed' = Committed \cup {e}
    BY <1>0, <1>2, CommitMoves
  <2>3. rows' \subseteq Committed'
    BY <1>0, <1>2, <2>2 DEF Append_Commit, TypeOK
  <2>4. notify' \in [Instances -> Seq(Ids)]
    <3>1. \A i \in Instances : Append(notify[i], e) \in Seq(Ids)
      BY <1>0, AppendProperties DEF TypeOK
    <3> QED BY <1>0, <1>2, <3>1 DEF Append_Commit, TypeOK
  <2>5. excused' \in [Clients -> SUBSET Ids]
    BY <1>0, <1>2 DEF Append_Commit, TypeOK
  <2>6. TypeOK'
    BY <1>0, <1>2, <2>2, <2>3, <2>4, <2>5 DEF Append_Commit, TypeOK, clientVars
  <2> QED BY <1>2, <2>6, CountsKept DEF Append_Commit
<1>3. ASSUME NEW e \in Ids, Append_Fails(e) PROVE Counts'
  <2>1. event' \in [Ids -> EventType] /\ Committed' = Committed
    BY <1>0, <1>3, FailMoves
  <2>3. deliver(event[e].at, Bare(e)) /\ event[e].at \in Instances /\ Bare(e) \in Frame
    BY <1>0, <1>3, FailMoves
  <2>4. faults' \in 0..MaxFaults /\ faults' = faults + 1
    BY <1>0, <1>3, FaultFacts DEF Append_Fails
  <2>5. TypeOK'
    <3>1. /\ seen' \in [Instances -> SUBSET Ids] /\ conn' \in [Clients -> StreamType]
          /\ excused' \in [Clients -> SUBSET Ids] /\ \A c \in Clients : Len(conn'[c].chan) <= ChannelCap
      BY <1>0, <2>3, Delivered
    <3> QED BY <1>0, <1>3, <2>1, <2>4, <3>1 DEF Append_Fails, TypeOK, clientVars
  <2>6. \A c \in Clients : /\ conn'[c].phase = conn[c].phase /\ conn'[c].at = conn[c].at
                           /\ conn'[c].ticks = conn[c].ticks /\ conn'[c].missed = conn[c].missed
                           /\ conn'[c].stale = conn[c].stale
    BY <1>0, <2>3, Delivered
  <2> QED BY <1>3, <2>5, <2>6, CountsKept DEF Append_Fails
<1>4. ASSUME NEW e \in Ids, Publish_FanOut(e) PROVE Counts'
  <2>1. event' \in [Ids -> EventType] /\ Committed' = Committed
    BY <1>0, <1>4, EndMoves
  <2>2. deliver(event[e].at, e) /\ event[e].at \in Instances /\ e \in Frame
    BY <1>0, <1>4, TypeFacts, Bounds DEF Publish_FanOut
  <2>3. TypeOK'
    <3>1. /\ seen' \in [Instances -> SUBSET Ids] /\ conn' \in [Clients -> StreamType]
          /\ excused' \in [Clients -> SUBSET Ids] /\ \A c \in Clients : Len(conn'[c].chan) <= ChannelCap
      BY <1>0, <2>2, Delivered
    <3> QED BY <1>0, <1>4, <2>1, <3>1 DEF Publish_FanOut, TypeOK, clientVars
  <2>4. \A c \in Clients : /\ conn'[c].phase = conn[c].phase /\ conn'[c].at = conn[c].at
                           /\ conn'[c].ticks = conn[c].ticks /\ conn'[c].missed = conn[c].missed
                           /\ conn'[c].stale = conn[c].stale
    BY <1>0, <2>2, Delivered
  <2> QED BY <1>4, <2>3, <2>4, CountsKept DEF Publish_FanOut
<1>5. ASSUME NEW e \in Ids, Append_Prune(e) PROVE Counts'
  <2>1. faults' \in 0..MaxFaults /\ faults' = faults + 1
    BY <1>0, <1>5, FaultFacts DEF Append_Prune
  <2>2. rows' \subseteq Committed' /\ floor' \in 0..MaxEvents
    BY <1>0, <1>5, Bounds DEF Append_Prune, TypeOK, Committed
  <2>3. TypeOK'
    BY <1>0, <1>5, <2>1, <2>2 DEF Append_Prune, TypeOK, hubVars, clientVars
  <2> QED BY <1>5, <2>3, CountsKept DEF Append_Prune, hubVars
<1>6. ASSUME NEW e \in Ids, Append_RollsBack(e) PROVE Counts'
  <2>1. event' \in [Ids -> EventType] /\ Committed' = Committed
    BY <1>0, <1>6, EndMoves
  <2>2. TypeOK'
    BY <1>0, <1>6, <2>1 DEF Append_RollsBack, TypeOK, hubVars, clientVars
  <2> QED BY <1>6, <2>2, CountsKept DEF Append_RollsBack, hubVars
<1> QED BY <1>1, <1>2, <1>3, <1>4, <1>5, <1>6 DEF Publishing

\* So does the listener.
LEMMA WatchCounts ==
  ASSUME Counts, NEW i \in Instances,
         Watch_Relay(i) \/ Watch_Drops(i) \/ Watch_Listens(i) \/ Watch_Returns(i)
  PROVE  Counts'
<1>0. TypeOK /\ notify[i] \in Seq(Ids)
  BY DEF Counts, TypeOK
<1>1. CASE Watch_Relay(i)
  <2>1. notify[i] # <<>> /\ notify' = [notify EXCEPT ![i] = Tail(notify[i])]
    BY <1>1 DEF Watch_Relay
  <2>2. Head(notify[i]) \in Frame /\ Tail(notify[i]) \in Seq(Ids)
    BY <1>0, <2>1, HeadTailProperties, Bounds
  <2>3. notify' \in [Instances -> Seq(Ids)]
    BY <1>0, <2>1, <2>2 DEF TypeOK
  <2>4. deliver(i, Head(notify[i])) \/ UNCHANGED <<seen, conn, excused>>
    BY <1>1 DEF Watch_Relay
  <2>5. /\ seen' \in [Instances -> SUBSET Ids] /\ conn' \in [Clients -> StreamType]
        /\ excused' \in [Clients -> SUBSET Ids]
        /\ \A c \in Clients : /\ Len(conn'[c].chan) <= ChannelCap
                              /\ conn'[c].phase = conn[c].phase /\ conn'[c].at = conn[c].at
                              /\ conn'[c].ticks = conn[c].ticks /\ conn'[c].missed = conn[c].missed
                              /\ conn'[c].stale = conn[c].stale
    <3>1. CASE deliver(i, Head(notify[i]))
      BY <1>0, <2>2, <3>1, Delivered
    <3>2. CASE UNCHANGED <<seen, conn, excused>>
      BY <1>0, <3>2 DEF TypeOK
    <3> QED BY <2>4, <3>1, <3>2
  <2>6. TypeOK'
    BY <1>0, <1>1, <2>3, <2>5 DEF Watch_Relay, TypeOK, storeVars, clientVars, Committed
  <2> QED BY <1>1, <2>5, <2>6, CountsKept DEF Watch_Relay
<1>2. CASE Watch_Drops(i)
  <2>1. PICK k \in 0..Len(notify[i]) :
          /\ notify' = [notify EXCEPT ![i] = SubSeq(notify[i], 1, k)]
          /\ excused' = [c \in Clients |->
                excused[c] \cup IF c \in RegisteredAt(i)
                                THEN ToSet(SubSeq(notify[i], k + 1, Len(notify[i])))
                                     \ (seen[i] \cup Local(i))
                                ELSE {}]
    BY <1>2 DEF Watch_Drops
  <2>2. SubSeq(notify[i], 1, k) \in Seq(Ids) /\ SubSeq(notify[i], k + 1, Len(notify[i])) \in Seq(Ids)
    BY <1>0, LenProperties, SubSeqProperties
  <2>3. ToSet(SubSeq(notify[i], k + 1, Len(notify[i]))) \subseteq Ids
    <3> DEFINE rest == SubSeq(notify[i], k + 1, Len(notify[i]))
    <3>1. rest \in Seq(Ids)
      BY <2>2
    <3> HIDE DEF rest
    <3>2. \A n \in DOMAIN rest : rest[n] \in Ids
      BY <3>1, LenProperties, ElementOfSeq
    <3>3. ToSet(rest) \subseteq Ids
      BY <3>2 DEF ToSet
    <3> QED BY <3>3 DEF rest
  <2>4. notify' \in [Instances -> Seq(Ids)] /\ excused' \in [Clients -> SUBSET Ids]
    <3>1. notify' \in [Instances -> Seq(Ids)]
      BY <1>0, <2>1, <2>2 DEF TypeOK
    <3>2. \A c \in Clients : excused[c] \subseteq Ids
      BY <1>0, TypeFacts
    <3> QED BY <2>1, <2>3, <3>1, <3>2
  <2>5. listener' \in [Instances -> {"up", "down", "dead"}]
    BY <1>0, <1>2 DEF Watch_Drops, TypeOK
  <2>6. faults' \in 0..MaxFaults /\ faults' = faults + 1
    BY <1>0, <1>2, FaultFacts DEF Watch_Drops
  <2>7. TypeOK'
    BY <1>0, <1>2, <2>4, <2>5, <2>6 DEF Watch_Drops, TypeOK, storeVars, clientVars, Committed
  <2> QED BY <1>2, <2>7, CountsKept DEF Watch_Drops
<1>3. CASE Watch_Listens(i) \/ Watch_Returns(i)
  <2>1. listener' \in [Instances -> {"up", "down", "dead"}]
    BY <1>0, <1>3 DEF Watch_Listens, Watch_Returns, TypeOK
  <2>2. TypeOK'
    BY <1>0, <1>3, <2>1 DEF Watch_Listens, Watch_Returns, TypeOK, storeVars, clientVars, Committed
  <2> QED BY <1>3, <2>2, CountsKept DEF Watch_Listens, Watch_Returns
<1> QED BY <1>1, <1>2, <1>3

\* The handler of c changes its own stream only.
OnlyStream(c) ==
    /\ conn' \in [Clients -> StreamType]
    /\ \A d \in Clients : Len(conn'[d].chan) <= ChannelCap
    /\ \A d \in Clients \ {c} : conn'[d] = conn[d]

\* A stream that ends.
LEMMA OneOff ==
  ASSUME TypeOK, NEW c \in Clients, conn' = [conn EXCEPT ![c] = NoStream]
  PROVE  OnlyStream(c) /\ conn'[c] = NoStream
<1> DEFINE n == NoStream
<1>1. n \in StreamType /\ n.chan = <<>> /\ Len(<<>>) = 0 /\ 0 <= ChannelCap
  BY Streams, EmptySeq, Bounds
<1>2. conn' = [conn EXCEPT ![c] = n]
  OBVIOUS
<1> HIDE DEF n
<1>3. Len(n.chan) <= ChannelCap
  BY <1>1
<1>4. OnlyStream(c) /\ conn'[c] = n
  BY <1>1, <1>2, <1>3, OneStream DEF OnlyStream
<1> QED BY <1>4 DEF n

\* A cursor that moves.
LEMMA Moved ==
  ASSUME TypeOK, NEW c \in Clients
  PROVE  /\ [cursor EXCEPT ![c] = 0] \in [Clients -> 0..MaxEvents]
         /\ \A e \in Ids : /\ [cursor EXCEPT ![c] = e] \in [Clients -> 0..MaxEvents]
                           /\ [covered EXCEPT ![c] = covered[c] \cup {e}] \in [Clients -> SUBSET Ids]
<1>1. cursor \in [Clients -> 0..MaxEvents] /\ covered \in [Clients -> SUBSET Ids]
  BY DEF TypeOK
<1>2. 0 \in 0..MaxEvents /\ \A e \in Ids : e \in 0..MaxEvents
  BY Bounds
<1> QED BY <1>1, <1>2

\* What each step of the handler does to the stream.  The check lets it pass...
LEMMA CheckStep ==
  ASSUME TypeOK, NEW c \in Clients, ListAfter_Check(c), ~Expired(cursor[c])
  PROVE  LET s == conn[c]  t == conn'[c]
         IN  /\ OnlyStream(c)
             /\ s.phase = "registered" /\ t.phase = "checked" /\ t.at = s.at /\ t.chan = s.chan
             /\ t.replay = s.replay /\ t.sent = s.sent /\ t.wrote = s.wrote /\ t.bare = s.bare
             /\ t.ticks = s.ticks /\ t.missed = s.missed /\ t.stale = s.stale
<1> DEFINE s == conn[c]
           t == [s EXCEPT !.phase = "checked"]
<1>1. s \in StreamType /\ Len(s.chan) <= ChannelCap
  BY TypeFacts
<1>2. s.phase = "registered" /\ conn' = [conn EXCEPT ![c] = t]
  BY TypeFacts DEF ListAfter_Check
<1>3. /\ t \in StreamType /\ t.phase = "checked" /\ t.at = s.at /\ t.chan = s.chan
      /\ t.replay = s.replay /\ t.sent = s.sent /\ t.wrote = s.wrote /\ t.bare = s.bare
      /\ t.ticks = s.ticks /\ t.missed = s.missed /\ t.stale = s.stale
  <2>1. t = [s EXCEPT !.phase = "checked"]
    OBVIOUS
  <2> HIDE DEF s, t
  <2> QED BY <1>1, <2>1 DEF StreamType
<1> HIDE DEF t
<1>4. OnlyStream(c) /\ conn'[c] = t
  BY <1>1, <1>2, <1>3, OneStream DEF OnlyStream
<1> QED BY <1>2, <1>3, <1>4

\* The page replaces the empty replay, and what it leaves out is excused.
LEMMA LoadStep ==
  ASSUME TypeOK, NEW c \in Clients, ListAfter_Load(c)
  PROVE  LET s == conn[c]  t == conn'[c]
             page == IF cursor[c] = 0 THEN {} ELSE PageAfter(cursor[c])
         IN  /\ OnlyStream(c) /\ page \subseteq rows /\ page \subseteq Ids
             /\ s.phase = "checked" /\ t.phase = "streaming" /\ t.at = s.at /\ t.chan = s.chan
             /\ t.replay = page /\ t.sent = page /\ t.wrote = s.wrote /\ t.bare = s.bare
             /\ t.ticks = s.ticks /\ t.missed = s.missed /\ t.stale = s.stale
             /\ excused' = [excused EXCEPT ![c] = excused[c] \cup
                   IF cursor[c] = 0 THEN {}
                   ELSE ({e \in Committed : e > cursor[c]} \ page)
                        \cup {e \in Born \ Committed : \E f \in page : e < f}]
<1> DEFINE page == IF cursor[c] = 0 THEN {} ELSE PageAfter(cursor[c])
           s == conn[c]
           t == [s EXCEPT !.phase = "streaming", !.replay = page, !.sent = page]
<1>1. s \in StreamType /\ Len(s.chan) <= ChannelCap
  BY TypeFacts
<1>2. page \subseteq rows /\ page \subseteq Ids
  BY TypeFacts DEF PageAfter
<1>3. excused' = [excused EXCEPT ![c] = excused[c] \cup
                   IF cursor[c] = 0 THEN {}
                   ELSE ({e \in Committed : e > cursor[c]} \ page)
                        \cup {e \in Born \ Committed : \E f \in page : e < f}]
  BY DEF ListAfter_Load
<1>4. s.phase = "checked" /\ conn' = [conn EXCEPT ![c].phase = "streaming",
                                                  ![c].replay = page, ![c].sent = page]
  BY DEF ListAfter_Load
<1>5. \A x \in SUBSET Ids :
        [conn EXCEPT ![c].phase = "streaming", ![c].replay = x, ![c].sent = x]
        = [conn EXCEPT ![c] = [conn[c] EXCEPT !.phase = "streaming", !.replay = x, !.sent = x]]
  BY TypeFacts
<1>6. conn' = [conn EXCEPT ![c] = t]
  <2> HIDE DEF page
  <2> QED BY <1>2, <1>4, <1>5
<1>7. /\ t \in StreamType /\ t.phase = "streaming" /\ t.at = s.at /\ t.chan = s.chan
      /\ t.replay = page /\ t.sent = page /\ t.wrote = s.wrote /\ t.bare = s.bare
      /\ t.ticks = s.ticks /\ t.missed = s.missed /\ t.stale = s.stale
  <2>1. t = [s EXCEPT !.phase = "streaming", !.replay = page, !.sent = page]
    OBVIOUS
  <2> HIDE DEF page, s, t
  <2> QED BY <1>1, <1>2, <2>1 DEF StreamType
<1> HIDE DEF t, page
<1>8. OnlyStream(c) /\ conn'[c] = t
  BY <1>1, <1>6, <1>7, OneStream DEF OnlyStream
<1> QED BY <1>2, <1>3, <1>4, <1>7, <1>8 DEF page

\* The smallest row of the replay is written, and received.
LEMMA WriteReplayStep ==
  ASSUME TypeOK, NEW c \in Clients, Events_WriteReplay(c)
  PROVE  LET s == conn[c]  t == conn'[c]  e == Min(conn[c].replay)
         IN  /\ OnlyStream(c)
             /\ s.phase = "streaming" /\ t.phase = "streaming" /\ t.at = s.at /\ t.chan = s.chan
             /\ t.replay = s.replay \ {e} /\ t.sent = s.sent /\ t.wrote = Append(s.wrote, e) /\ t.bare = s.bare
             /\ t.ticks = s.ticks /\ t.missed = s.missed /\ t.stale = s.stale
             /\ e \in s.replay /\ e \in Ids /\ \A f \in s.replay : e <= f
             /\ cursor' = [cursor EXCEPT ![c] = e]
             /\ covered' = [covered EXCEPT ![c] = covered[c] \cup {e}]
<1> DEFINE s == conn[c]
           e == Min(s.replay)
           t == [s EXCEPT !.replay = s.replay \ {e}, !.wrote = Append(s.wrote, e)]
<1>1. s \in StreamType /\ Len(s.chan) <= ChannelCap /\ s.replay \subseteq Ids /\ s.wrote \in Seq(Ids)
  BY TypeFacts, Streams
<1>2. /\ s.phase = "streaming" /\ s.replay # {}
      /\ conn' = [conn EXCEPT ![c].replay = @ \ {e}, ![c].wrote = Append(@, e)]
      /\ Received(c, e)
  BY DEF Events_WriteReplay
<1>3. e \in s.replay /\ \A f \in s.replay : e <= f
  BY <1>1, <1>2, Bounds, LeastNat
<1> HIDE DEF e
<1>4. e \in Ids /\ Append(s.wrote, e) \in Seq(Ids)
  BY <1>1, <1>3, Bounds, AppendProperties
<1>5. conn' = [conn EXCEPT ![c] = t]
  BY <1>2, TypeFacts
<1>6. /\ t \in StreamType /\ t.phase = s.phase /\ t.at = s.at /\ t.chan = s.chan
      /\ t.replay = s.replay \ {e} /\ t.sent = s.sent /\ t.wrote = Append(s.wrote, e) /\ t.bare = s.bare
      /\ t.ticks = s.ticks /\ t.missed = s.missed /\ t.stale = s.stale
  <2>1. t = [s EXCEPT !.replay = s.replay \ {e}, !.wrote = Append(s.wrote, e)]
    OBVIOUS
  <2>2. s.replay \ {e} \in SUBSET Ids
    BY <1>1
  <2> HIDE DEF s, t
  <2> QED BY <1>1, <1>4, <2>1, <2>2 DEF StreamType
<1> HIDE DEF t
<1>7. OnlyStream(c) /\ conn'[c] = t
  BY <1>1, <1>5, <1>6, OneStream DEF OnlyStream
<1>8. cursor' = [cursor EXCEPT ![c] = e] /\ covered' = [covered EXCEPT ![c] = covered[c] \cup {e}]
  BY <1>2, <1>4 DEF Received
<1> QED BY <1>2, <1>3, <1>4, <1>6, <1>7, <1>8 DEF e

\* The first event of the channel is written, and received if it has an id,
\* unless it was sent.
LEMMA WriteLiveStep ==
  ASSUME TypeOK, NEW c \in Clients, Events_WriteLive(c)
  PROVE  LET s == conn[c]  t == conn'[c]  e == Head(conn[c].chan)
         IN  /\ OnlyStream(c)
             /\ s.phase = "streaming" /\ t.phase = "streaming" /\ t.at = s.at
             /\ s.chan # <<>> /\ e \in Frame /\ t.chan = Tail(s.chan)
             /\ s.replay = {} /\ t.replay = {}
             /\ t.ticks = s.ticks /\ t.missed = s.missed /\ t.stale = s.stale
             /\ t.bare = IF e \in Ids THEN s.bare ELSE Append(s.bare, Bare(e))
             /\ IF e \in s.sent \/ e \notin Ids
                THEN /\ t.sent = s.sent /\ t.wrote = s.wrote
                     /\ UNCHANGED <<cursor, covered>>
                ELSE /\ t.sent = s.sent \cup {e} /\ t.wrote = Append(s.wrote, e)
                     /\ cursor' = [cursor EXCEPT ![c] = e]
                     /\ covered' = [covered EXCEPT ![c] = covered[c] \cup {e}]
<1> DEFINE s == conn[c]
           e == Head(s.chan)
           u == [s EXCEPT !.chan = Tail(s.chan)]
           b == [s EXCEPT !.chan = Tail(s.chan), !.bare = Append(s.bare, Bare(e))]
           w == [s EXCEPT !.chan = Tail(s.chan), !.sent = s.sent \cup {e},
                          !.wrote = Append(s.wrote, e)]
<1>1. /\ s \in StreamType /\ Len(s.chan) <= ChannelCap
      /\ s.chan \in Seq(Frame) /\ s.sent \subseteq Ids
      /\ s.wrote \in Seq(Ids) /\ s.bare \in Seq(Ids)
  BY TypeFacts, Streams
<1>2. s.phase = "streaming" /\ s.replay = {} /\ s.chan # <<>>
  BY DEF Events_WriteLive
<1>3. /\ e \in Frame /\ Tail(s.chan) \in Seq(Frame)
      /\ Len(Tail(s.chan)) <= ChannelCap
  <2>1. e \in Frame /\ Tail(s.chan) \in Seq(Frame)
        /\ Len(Tail(s.chan)) = Len(s.chan) - 1
    BY <1>1, <1>2, HeadTailProperties
  <2>2. Len(s.chan) \in Nat /\ ChannelCap \in Nat
    BY <1>1, LenProperties, Bounds
  <2> QED BY <1>1, <2>1, <2>2
<1>4. CASE e \in s.sent
  <2>1. conn' = [conn EXCEPT ![c] = u] /\ UNCHANGED <<cursor, covered>> /\ e \in Ids
    <3>1. e \in Ids
      BY <1>1, <1>4
    <3>2. conn' = [conn EXCEPT ![c].chan = Tail(@)] /\ UNCHANGED clientVars
      BY <1>4, <3>1 DEF Events_WriteLive
    <3> QED BY <3>1, <3>2, TypeFacts DEF clientVars
  <2>2. /\ u \in StreamType /\ u.phase = s.phase /\ u.at = s.at /\ u.chan = Tail(s.chan)
        /\ u.replay = s.replay /\ u.sent = s.sent /\ u.wrote = s.wrote /\ u.bare = s.bare
        /\ u.ticks = s.ticks /\ u.missed = s.missed /\ u.stale = s.stale
    <3>1. u = [s EXCEPT !.chan = Tail(s.chan)]
      OBVIOUS
    <3> HIDE DEF e, s, u
    <3> QED BY <1>1, <1>3, <3>1 DEF StreamType
  <2> HIDE DEF u
  <2>3. OnlyStream(c) /\ conn'[c] = u
    BY <1>3, <2>1, <2>2, OneStream DEF OnlyStream
  <2> QED BY <1>2, <1>3, <1>4, <2>1, <2>2, <2>3
<1>5. CASE e \notin Ids
  <2>1. conn' = [conn EXCEPT ![c] = b] /\ UNCHANGED <<cursor, covered>>
    <3>1. e \notin s.sent
      BY <1>1, <1>5
    <3>2. /\ conn' = [conn EXCEPT ![c].chan = Tail(@), ![c].bare = Append(@, Bare(e))]
          /\ UNCHANGED clientVars
      BY <1>5, <3>1 DEF Events_WriteLive
    <3> HIDE DEF e
    <3> QED BY <3>2, TypeFacts DEF clientVars
  <2>2. Append(s.bare, Bare(e)) \in Seq(Ids)
    <3>1. Bare(e) \in Ids
      BY <1>3, <1>5, Bounds
    <3> QED BY <1>1, <3>1, AppendProperties
  <2>3. /\ b \in StreamType /\ b.phase = s.phase /\ b.at = s.at /\ b.chan = Tail(s.chan)
        /\ b.replay = s.replay /\ b.sent = s.sent /\ b.wrote = s.wrote
        /\ b.bare = Append(s.bare, Bare(e))
        /\ b.ticks = s.ticks /\ b.missed = s.missed /\ b.stale = s.stale
    <3> DEFINE x == Append(s.bare, Bare(e))
    <3>1. b = [s EXCEPT !.chan = Tail(s.chan), !.bare = x]
      OBVIOUS
    <3>2. x \in Seq(Ids)
      BY <2>2
    <3> HIDE DEF e, s, b, x
    <3>3. /\ b \in StreamType /\ b.phase = s.phase /\ b.at = s.at /\ b.chan = Tail(s.chan)
          /\ b.replay = s.replay /\ b.sent = s.sent /\ b.wrote = s.wrote /\ b.bare = x
          /\ b.ticks = s.ticks /\ b.missed = s.missed /\ b.stale = s.stale
      BY <1>1, <1>3, <3>1, <3>2 DEF StreamType
    <3> QED BY <3>3 DEF x
  <2> HIDE DEF b
  <2>4. OnlyStream(c) /\ conn'[c] = b
    BY <1>3, <2>1, <2>3, OneStream DEF OnlyStream
  <2> QED BY <1>2, <1>3, <1>5, <2>1, <2>3, <2>4
<1>6. CASE e \in Ids /\ e \notin s.sent
  <2>1. conn' = [conn EXCEPT ![c] = w] /\ Received(c, e)
    <3>1. /\ conn' = [conn EXCEPT ![c].chan = Tail(@), ![c].sent = @ \cup {e},
                                  ![c].wrote = Append(@, e)]
          /\ Received(c, e)
      BY <1>6 DEF Events_WriteLive
    <3> HIDE DEF e
    <3> QED BY <3>1, TypeFacts
  <2>2. s.sent \cup {e} \subseteq Ids /\ Append(s.wrote, e) \in Seq(Ids)
    BY <1>1, <1>6, AppendProperties
  <2>3. /\ w \in StreamType /\ w.phase = s.phase /\ w.at = s.at /\ w.chan = Tail(s.chan)
        /\ w.replay = s.replay /\ w.sent = s.sent \cup {e}
        /\ w.wrote = Append(s.wrote, e) /\ w.bare = s.bare
        /\ w.ticks = s.ticks /\ w.missed = s.missed /\ w.stale = s.stale
    <3> DEFINE x == s.sent \cup {e}
               y == Append(s.wrote, e)
    <3>1. w = [s EXCEPT !.chan = Tail(s.chan), !.sent = x, !.wrote = y]
      OBVIOUS
    <3> HIDE DEF e, s, w
    <3>2. x \in SUBSET Ids /\ y \in Seq(Ids)
      BY <2>2
    <3> HIDE DEF x, y
    <3>3. /\ w \in StreamType /\ w.phase = s.phase /\ w.at = s.at /\ w.chan = Tail(s.chan)
          /\ w.replay = s.replay /\ w.sent = x /\ w.wrote = y /\ w.bare = s.bare
          /\ w.ticks = s.ticks /\ w.missed = s.missed /\ w.stale = s.stale
      BY <1>1, <1>3, <3>1, <3>2 DEF StreamType
    <3> QED BY <3>3 DEF x, y
  <2> HIDE DEF w
  <2>4. OnlyStream(c) /\ conn'[c] = w
    BY <1>3, <2>1, <2>3, OneStream DEF OnlyStream
  <2>5. /\ cursor' = [cursor EXCEPT ![c] = e]
        /\ covered' = [covered EXCEPT ![c] = covered[c] \cup {e}]
    BY <2>1 DEF Received
  <2> QED BY <1>2, <1>3, <1>6, <2>3, <2>4, <2>5
<1> QED BY <1>4, <1>5, <1>6

\* A tick ends the stream, or ages it by one.
LEMMA TickStep ==
  ASSUME TypeOK, NEW c \in Clients, Events_Tick(c)
  PROVE  LET s == conn[c]  t == conn'[c]
         IN  \/ /\ conn' = [conn EXCEPT ![c] = NoStream]
                /\ users' = Unsubscribed(s.at, c) /\ faults' = faults
             \/ /\ OnlyStream(c)
                /\ s.phase = "streaming" /\ t.phase = "streaming" /\ t.at = s.at /\ t.chan = s.chan
                /\ t.replay = s.replay /\ t.sent = s.sent /\ t.wrote = s.wrote /\ t.bare = s.bare
                /\ t.stale = s.stale + 1
                /\ \/ t.ticks = s.ticks + 1 /\ t.missed = s.missed /\ faults' = faults
                   \/ /\ s.ticks + 1 = RecheckEvery /\ t.ticks = 0 /\ t.missed = s.missed + 1
                      /\ faults < MaxFaults /\ faults' = faults + 1
                /\ UNCHANGED users
<1> DEFINE s == conn[c]
           n == [s EXCEPT !.ticks = 0, !.missed = s.missed + 1, !.stale = s.stale + 1]
           t == [s EXCEPT !.ticks = s.ticks + 1, !.stale = s.stale + 1]
<1>1. /\ s \in StreamType /\ Len(s.chan) <= ChannelCap
      /\ s.ticks \in Nat /\ s.ticks + 1 <= RecheckEvery /\ s.missed \in Nat /\ s.stale \in Nat
  BY TypeFacts, Streams
<1>2. /\ 0 \in 0..RecheckEvery - 1 /\ s.missed + 1 \in Nat /\ s.stale + 1 \in Nat
      /\ s.ticks + 1 # RecheckEvery => s.ticks + 1 \in 0..RecheckEvery - 1
  <2> DEFINE k == s.ticks
  <2>1. k \in Nat /\ k + 1 <= RecheckEvery /\ s.missed + 1 \in Nat /\ s.stale + 1 \in Nat
    BY <1>1
  <2> HIDE DEF k
  <2>2. 0 \in 0..RecheckEvery - 1 /\ (k + 1 # RecheckEvery => k + 1 \in 0..RecheckEvery - 1)
    BY <2>1, Bounds
  <2> QED BY <2>1, <2>2 DEF k
<1>3. \/ /\ conn' = [conn EXCEPT ![c] = NoStream]
         /\ users' = Unsubscribed(s.at, c) /\ faults' = faults
      \/ /\ s.phase = "streaming" /\ UNCHANGED users
         /\ s.ticks + 1 # RecheckEvery /\ faults' = faults
         /\ conn' = [conn EXCEPT ![c].ticks = @ + 1, ![c].stale = @ + 1]
      \/ /\ s.phase = "streaming" /\ UNCHANGED users
         /\ s.ticks + 1 = RecheckEvery /\ faults < MaxFaults /\ faults' = faults + 1
         /\ conn' = [conn EXCEPT ![c].ticks = 0, ![c].missed = @ + 1, ![c].stale = @ + 1]
  BY DEF Events_Tick
<1>4. CASE /\ conn' = [conn EXCEPT ![c] = NoStream]
           /\ users' = Unsubscribed(s.at, c) /\ faults' = faults
  BY <1>4
<1>5. CASE /\ s.phase = "streaming" /\ UNCHANGED users
           /\ s.ticks + 1 # RecheckEvery /\ faults' = faults
           /\ conn' = [conn EXCEPT ![c].ticks = @ + 1, ![c].stale = @ + 1]
  <2>1. conn' = [conn EXCEPT ![c] = t]
    BY <1>5, TypeFacts
  <2>2. /\ t \in StreamType /\ t.phase = s.phase /\ t.at = s.at /\ t.chan = s.chan
        /\ t.replay = s.replay /\ t.sent = s.sent /\ t.wrote = s.wrote /\ t.bare = s.bare
        /\ t.ticks = s.ticks + 1 /\ t.missed = s.missed /\ t.stale = s.stale + 1
    <3> DEFINE x == s.ticks + 1
               y == s.stale + 1
    <3>1. t = [s EXCEPT !.ticks = x, !.stale = y] /\ x \in 0..RecheckEvery - 1 /\ y \in Nat
      BY <1>2, <1>5
    <3> HIDE DEF s, t, x, y
    <3>2. /\ t \in StreamType /\ t.phase = s.phase /\ t.at = s.at /\ t.chan = s.chan
          /\ t.replay = s.replay /\ t.sent = s.sent /\ t.wrote = s.wrote /\ t.bare = s.bare
          /\ t.ticks = x /\ t.missed = s.missed /\ t.stale = y
      BY <1>1, <3>1 DEF StreamType
    <3> QED BY <3>2 DEF x, y
  <2> HIDE DEF t
  <2>3. OnlyStream(c) /\ conn'[c] = t
    BY <1>1, <2>1, <2>2, OneStream DEF OnlyStream
  <2> QED BY <1>5, <2>2, <2>3
<1>6. CASE /\ s.phase = "streaming" /\ UNCHANGED users
           /\ s.ticks + 1 = RecheckEvery /\ faults < MaxFaults /\ faults' = faults + 1
           /\ conn' = [conn EXCEPT ![c].ticks = 0, ![c].missed = @ + 1, ![c].stale = @ + 1]
  <2>1. conn' = [conn EXCEPT ![c] = n]
    BY <1>6, TypeFacts
  <2>2. /\ n \in StreamType /\ n.phase = s.phase /\ n.at = s.at /\ n.chan = s.chan
        /\ n.replay = s.replay /\ n.sent = s.sent /\ n.wrote = s.wrote /\ n.bare = s.bare
        /\ n.ticks = 0 /\ n.missed = s.missed + 1 /\ n.stale = s.stale + 1
    <3> DEFINE x == s.missed + 1
               y == s.stale + 1
    <3>1. n = [s EXCEPT !.ticks = 0, !.missed = x, !.stale = y] /\ x \in Nat /\ y \in Nat
      BY <1>2
    <3> HIDE DEF s, n, x, y
    <3>2. /\ n \in StreamType /\ n.phase = s.phase /\ n.at = s.at /\ n.chan = s.chan
          /\ n.replay = s.replay /\ n.sent = s.sent /\ n.wrote = s.wrote /\ n.bare = s.bare
          /\ n.ticks = 0 /\ n.missed = x /\ n.stale = y
      BY <1>1, <1>2, <3>1 DEF StreamType
    <3> QED BY <3>2 DEF x, y
  <2> HIDE DEF n
  <2>3. OnlyStream(c) /\ conn'[c] = n
    BY <1>1, <2>1, <2>2, OneStream DEF OnlyStream
  <2> QED BY <1>6, <2>2, <2>3
<1> QED BY <1>3, <1>4, <1>5, <1>6

\* A membership that ends touches the ticks of the stream only.
LEMMA LeaveStep ==
  ASSUME TypeOK, NEW c \in Clients, LeaveHousehold(c)
  PROVE  LET s == conn[c]  t == conn'[c]
         IN  /\ OnlyStream(c)
             /\ t.phase = s.phase /\ t.at = s.at /\ t.chan = s.chan
             /\ t.replay = s.replay /\ t.sent = s.sent /\ t.wrote = s.wrote /\ t.bare = s.bare
             /\ t.missed = s.missed /\ t.stale = s.stale
<1> DEFINE s == conn[c]
<1>1. s \in StreamType /\ Len(s.chan) <= ChannelCap
  BY TypeFacts
<1>2. CASE conn' = conn
  BY <1>2, TypeFacts DEF OnlyStream
<1>3. CASE \E x \in 0..RecheckEvery - 1 : conn' = [conn EXCEPT ![c].ticks = x]
  <2>1. PICK x \in 0..RecheckEvery - 1 : conn' = [conn EXCEPT ![c].ticks = x]
    BY <1>3
  <2> DEFINE t == [s EXCEPT !.ticks = x]
  <2>2. conn' = [conn EXCEPT ![c] = t]
    BY <2>1, TypeFacts
  <2>3. /\ t \in StreamType /\ t.phase = s.phase /\ t.at = s.at /\ t.chan = s.chan
        /\ t.replay = s.replay /\ t.sent = s.sent /\ t.wrote = s.wrote /\ t.bare = s.bare
        /\ t.ticks = x /\ t.missed = s.missed /\ t.stale = s.stale
    <3>1. t = [s EXCEPT !.ticks = x]
      OBVIOUS
    <3> HIDE DEF s, t
    <3> QED BY <1>1, <3>1 DEF StreamType
  <2> HIDE DEF t
  <2>4. OnlyStream(c) /\ conn'[c] = t
    BY <1>1, <2>2, <2>3, OneStream DEF OnlyStream
  <2> QED BY <2>3, <2>4
<1> QED BY <1>2, <1>3 DEF LeaveHousehold

\* A stream opens with an empty channel, and is counted.
LEMMA SubscribeStep ==
  ASSUME TypeOK, NEW c \in Clients, NEW i \in Instances, Events_Subscribe(c, i)
  PROVE  LET s == conn[c]  t == conn'[c]
         IN  /\ OnlyStream(c)
             /\ s.phase = "off" /\ t.phase = "registered" /\ t.at = i /\ t.chan = <<>>
             /\ t.replay = {} /\ t.sent = {} /\ t.wrote = <<>> /\ t.bare = <<>>
             /\ t.ticks = 0 /\ t.missed = 0 /\ t.stale = 0
             /\ users[i][c] < MaxUser /\ users' = [users EXCEPT ![i][c] = users[i][c] + 1]
             /\ covered' = IF cursor[c] = 0
                           THEN [covered EXCEPT ![c] = covered[c] \cup Committed] ELSE covered
<1> DEFINE n == NoStream
           t == [n EXCEPT !.phase = "registered", !.at = i]
<1>1. conn[c].phase = "off" /\ conn' = [conn EXCEPT ![c] = t]
  BY DEF Events_Subscribe
<1>2. /\ t \in StreamType /\ t.phase = "registered" /\ t.at = i /\ t.chan = n.chan
      /\ t.replay = n.replay /\ t.sent = n.sent /\ t.wrote = n.wrote /\ t.bare = n.bare
      /\ t.ticks = n.ticks /\ t.missed = n.missed /\ t.stale = n.stale
  <2>1. t = [n EXCEPT !.phase = "registered", !.at = i] /\ n \in StreamType
    BY Streams
  <2> HIDE DEF n, t
  <2> QED BY <2>1 DEF StreamType
<1>3. Len(<<>>) <= ChannelCap
  BY EmptySeq, Bounds
<1> HIDE DEF t
<1>4. OnlyStream(c) /\ conn'[c] = t
  BY <1>1, <1>2, <1>3, OneStream, Streams DEF OnlyStream
<1> QED BY <1>1, <1>2, <1>4, Streams DEF Events_Subscribe

\* A step of the handler that neither opens nor closes its stream.
LEMMA CountsOne ==
  ASSUME Counts, TypeOK', NEW c \in Clients, OnlyStream(c), UNCHANGED <<users, zombies>>,
         member' \subseteq member,
         conn[c].phase # "off", conn'[c].phase # "off", conn'[c].at = conn[c].at,
         Within(conn'[c]), c \in member' => conn'[c].stale = 0
  PROVE  Counts'
<1>1. TypeOK /\ CountersMatch /\ Aged
  BY DEF Counts
<1>2. CountersMatch'
  BY <1>1 DEF CountersMatch, RegisteredAt, OnlyStream
<1>3. Aged'
  BY <1>1 DEF OnlyStream, Aged
<1> QED BY <1>2, <1>3 DEF Counts

\* A count that is taken or given back keeps its type.
LEMMA CountTypes ==
  ASSUME TypeOK, NEW i \in Instances, NEW c \in Clients
  PROVE  /\ users[i][c] < MaxUser =>
              [users EXCEPT ![i][c] = users[i][c] + 1] \in [Instances -> [Clients -> 0..MaxUser]]
         /\ users[i][c] > 0 =>
              [users EXCEPT ![i][c] = users[i][c] - 1] \in [Instances -> [Clients -> 0..MaxUser]]
         /\ zombies[i][c] < MaxUser =>
              [zombies EXCEPT ![i][c] = zombies[i][c] + 1] \in [Instances -> [Clients -> 0..MaxUser]]
         /\ zombies[i][c] > 0 =>
              [zombies EXCEPT ![i][c] = zombies[i][c] - 1] \in [Instances -> [Clients -> 0..MaxUser]]
<1>1. /\ users \in [Instances -> [Clients -> 0..MaxUser]]
      /\ zombies \in [Instances -> [Clients -> 0..MaxUser]] /\ MaxUser \in Nat
  BY Bounds DEF TypeOK
<1>2. \A n \in 0..MaxUser : /\ n < MaxUser => n + 1 \in 0..MaxUser
                            /\ n > 0 => n - 1 \in 0..MaxUser
  BY <1>1
<1>3. \A n \in 0..MaxUser : /\ [users EXCEPT ![i][c] = n] \in [Instances -> [Clients -> 0..MaxUser]]
                            /\ [zombies EXCEPT ![i][c] = n] \in [Instances -> [Clients -> 0..MaxUser]]
  BY <1>1
<1>4. users[i][c] \in 0..MaxUser /\ zombies[i][c] \in 0..MaxUser
  BY <1>1
<1> QED BY <1>2, <1>3, <1>4

\* A stream that is open is counted, and its zombies leave room for one more.
LEMMA OpenIsCounted ==
  ASSUME Counts, NEW c \in Clients, conn[c].phase # "off"
  PROVE  LET i == conn[c].at
         IN  i \in Instances /\ users[i][c] > 0 /\ zombies[i][c] < MaxUser
<1> DEFINE i == conn[c].at
<1>1. TypeOK /\ CountersMatch
  BY DEF Counts
<1>2. i \in Instances
  BY <1>1, TypeFacts, Streams
<1>3. users[i][c] = zombies[i][c] + 1
  BY <1>1, <1>2 DEF CountersMatch, RegisteredAt
<1>4. users[i][c] \in 0..MaxUser /\ zombies[i][c] \in Nat /\ MaxUser \in Nat
  BY <1>1, <1>2, TypeFacts, Bounds
<1> QED BY <1>2, <1>3, <1>4

\* The steps of an open stream keep types and counts.
LEMMA StreamCounts ==
  ASSUME Counts, NEW c \in Clients,
         \/ ListAfter_Check(c) \/ ListAfter_Load(c) \/ Events_WriteReplay(c) \/ Events_WriteLive(c)
         \/ Events_Tick(c) \/ Disconnect(c) \/ GoHalfOpen(c) \/ LeaveHousehold(c)
  PROVE  Counts'
<1>0. /\ TypeOK /\ conn[c] \in StreamType
      /\ Within(conn[c]) /\ (c \in member => conn[c].stale = 0)
  BY TypeFacts DEF Counts, Aged
<1>00. ASSUME conn'[c].ticks = conn[c].ticks, conn'[c].missed = conn[c].missed,
              conn'[c].stale = conn[c].stale, member' = member
       PROVE  Within(conn'[c]) /\ (c \in member' => conn'[c].stale = 0)
  BY <1>0, <1>00 DEF Within
<1>1. ASSUME conn[c].phase # "off", conn' = [conn EXCEPT ![c] = NoStream], cursor' \in [Clients -> 0..MaxEvents],
             users' = Unsubscribed(conn[c].at, c),
             UNCHANGED <<storeVars, notify, listener, seen, zombies, member, covered, excused, faults>>
      PROVE  Counts'
  <2>1. users' = [users EXCEPT ![conn[c].at][c] = users[conn[c].at][c] - 1]
    BY <1>0, <1>1 DEF Unsubscribed, TypeOK
  <2>2. users' \in [Instances -> [Clients -> 0..MaxUser]]
    BY <1>0, <1>1, <2>1, OpenIsCounted, CountTypes
  <2>3. OnlyStream(c)
    BY <1>0, <1>1, OneOff
  <2>4. TypeOK'
    BY <1>0, <1>1, <2>2, <2>3 DEF TypeOK, storeVars, OnlyStream, Committed
  <2> QED BY <1>1, <2>1, <2>4, CountsEnd
<1>2. CASE ListAfter_Check(c)
  <2>1. CASE Expired(cursor[c])
    <3>1. cursor' \in [Clients -> 0..MaxEvents]
      BY <1>0, <1>2, <2>1, Moved DEF ListAfter_Check
    <3> QED BY <1>1, <1>2, <2>1, <3>1 DEF ListAfter_Check
  <2>2. CASE ~Expired(cursor[c])
    <3>1. OnlyStream(c)
      BY <1>0, <1>2, <2>2, CheckStep
    <3>2. TypeOK'
      BY <1>0, <1>2, <2>2, <3>1 DEF ListAfter_Check, TypeOK, storeVars, OnlyStream, Committed
    <3>3. UNCHANGED <<users, zombies, member>>
      BY <1>2, <2>2 DEF ListAfter_Check
    <3>4. Within(conn'[c]) /\ (c \in member' => conn'[c].stale = 0)
      BY <1>0, <1>00, <1>2, <2>2, <3>3, CheckStep
    <3> QED BY <1>0, <1>2, <2>2, <3>1, <3>2, <3>3, <3>4, CheckStep, CountsOne
  <2> QED BY <2>1, <2>2
<1>3. CASE ListAfter_Load(c)
  <2>1. OnlyStream(c)
    BY <1>0, <1>3, LoadStep
  <2>2. excused' \in [Clients -> SUBSET Ids]
    <3>1. \A x \in SUBSET Ids : [excused EXCEPT ![c] = excused[c] \cup x] \in [Clients -> SUBSET Ids]
      BY <1>0 DEF TypeOK
    <3> DEFINE page == IF cursor[c] = 0 THEN {} ELSE PageAfter(cursor[c])
               x == IF cursor[c] = 0 THEN {}
                    ELSE ({e \in Committed : e > cursor[c]} \ page)
                         \cup {e \in Born \ Committed : \E f \in page : e < f}
    <3>2. x \subseteq Ids
      BY <1>0, TypeFacts
    <3>3. excused' = [excused EXCEPT ![c] = excused[c] \cup x]
      BY <1>0, <1>3, LoadStep
    <3> HIDE DEF x
    <3> QED BY <3>1, <3>2, <3>3
  <2>3. TypeOK'
    BY <1>0, <1>3, <2>1, <2>2 DEF ListAfter_Load, TypeOK, storeVars, hubVars, clientVars, OnlyStream, Committed
  <2>4. UNCHANGED <<users, zombies, member>>
    BY <1>3 DEF ListAfter_Load, hubVars
  <2>5. Within(conn'[c]) /\ (c \in member' => conn'[c].stale = 0)
    BY <1>0, <1>00, <1>3, <2>4, LoadStep
  <2> QED BY <1>0, <1>3, <2>1, <2>3, <2>4, <2>5, LoadStep, CountsOne
<1>4. CASE Events_WriteReplay(c)
  <2>1. OnlyStream(c)
    BY <1>0, <1>4, WriteReplayStep
  <2>2. cursor' \in [Clients -> 0..MaxEvents] /\ covered' \in [Clients -> SUBSET Ids]
    <3> DEFINE e == Min(conn[c].replay)
    <3>1. e \in Ids /\ cursor' = [cursor EXCEPT ![c] = e] /\ covered' = [covered EXCEPT ![c] = covered[c] \cup {e}]
      BY <1>0, <1>4, WriteReplayStep
    <3> HIDE DEF e
    <3> QED BY <1>0, <3>1, Moved DEF TypeOK
  <2>3. TypeOK'
    BY <1>0, <1>4, <2>1, <2>2 DEF Events_WriteReplay, TypeOK, storeVars, hubVars, OnlyStream, Committed
  <2>4. UNCHANGED <<users, zombies, member>>
    BY <1>4 DEF Events_WriteReplay, hubVars
  <2>5. Within(conn'[c]) /\ (c \in member' => conn'[c].stale = 0)
    BY <1>0, <1>00, <1>4, <2>4, WriteReplayStep
  <2> QED BY <1>0, <1>4, <2>1, <2>3, <2>4, <2>5, WriteReplayStep, CountsOne
<1>5. CASE Events_WriteLive(c)
  <2>1. OnlyStream(c)
    BY <1>0, <1>5, WriteLiveStep
  <2>2. cursor' \in [Clients -> 0..MaxEvents] /\ covered' \in [Clients -> SUBSET Ids]
    <3> DEFINE e == Head(conn[c].chan)
    <3>1. \/ UNCHANGED <<cursor, covered>>
          \/ /\ e \in Ids /\ cursor' = [cursor EXCEPT ![c] = e]
             /\ covered' = [covered EXCEPT ![c] = covered[c] \cup {e}]
      BY <1>0, <1>5, WriteLiveStep
    <3> HIDE DEF e
    <3>2. CASE UNCHANGED <<cursor, covered>>
      BY <1>0, <3>2 DEF TypeOK
    <3>3. CASE /\ e \in Ids /\ cursor' = [cursor EXCEPT ![c] = e]
               /\ covered' = [covered EXCEPT ![c] = covered[c] \cup {e}]
      BY <1>0, <3>3, Moved
    <3> QED BY <3>1, <3>2, <3>3
  <2>3. TypeOK'
    BY <1>0, <1>5, <2>1, <2>2 DEF Events_WriteLive, TypeOK, storeVars, hubVars, OnlyStream, Committed
  <2>4. UNCHANGED <<users, zombies, member>>
    BY <1>5 DEF Events_WriteLive, hubVars
  <2>5. Within(conn'[c]) /\ (c \in member' => conn'[c].stale = 0)
    BY <1>0, <1>00, <1>5, <2>4, WriteLiveStep
  <2> QED BY <1>0, <1>5, <2>1, <2>3, <2>4, <2>5, WriteLiveStep, CountsOne
<1>6. CASE Events_Tick(c)
  <2>1. UNCHANGED <<storeVars, notify, listener, seen, zombies, member, clientVars, excused>>
        /\ conn[c].phase = "streaming" /\ c \notin member
    BY <1>6 DEF Events_Tick
  <2>2. CASE conn' = [conn EXCEPT ![c] = NoStream] /\ users' = Unsubscribed(conn[c].at, c) /\ faults' = faults
    BY <1>0, <1>1, <2>1, <2>2 DEF clientVars, TypeOK
  <2>3. CASE ~(conn' = [conn EXCEPT ![c] = NoStream] /\ users' = Unsubscribed(conn[c].at, c) /\ faults' = faults)
    <3>1. OnlyStream(c) /\ UNCHANGED users
      BY <1>0, <1>6, <2>3, TickStep
    <3>2. faults' \in 0..MaxFaults
      BY <1>0, <1>6, <2>3, TickStep, FaultFacts, TypeFacts
    <3>3. TypeOK'
      BY <1>0, <2>1, <3>1, <3>2 DEF TypeOK, storeVars, clientVars, OnlyStream, Committed
    <3>4. Within(conn'[c])
      <4> DEFINE k == RecheckEvery * conn[c].missed
                 r == RecheckEvery * conn'[c].missed
      <4>1. /\ k \in Nat /\ RecheckEvery \in Nat
            /\ conn[c].stale \in Nat /\ conn[c].ticks \in Nat
            /\ RecheckEvery * (conn[c].missed + 1) = k + RecheckEvery
        <5>1. conn[c].missed \in Nat /\ conn[c].stale \in Nat /\ conn[c].ticks \in Nat
          BY <1>0, Streams
        <5> QED BY <5>1, Periods, Bounds
      <4>2. conn[c].stale <= conn[c].ticks + k
        BY <1>0 DEF Within
      <4>3. conn'[c].stale = conn[c].stale + 1
            /\ \/ conn'[c].ticks = conn[c].ticks + 1 /\ conn'[c].missed = conn[c].missed
               \/ /\ conn[c].ticks + 1 = RecheckEvery /\ conn'[c].ticks = 0
                  /\ conn'[c].missed = conn[c].missed + 1
        BY <1>0, <1>6, <2>3, TickStep
      <4>4. \/ conn'[c].ticks = conn[c].ticks + 1 /\ r = k
            \/ conn[c].ticks + 1 = RecheckEvery /\ conn'[c].ticks = 0 /\ r = k + RecheckEvery
        BY <4>1, <4>3
      <4> HIDE DEF k, r
      <4>5. conn'[c].stale <= conn'[c].ticks + r
        BY <4>1, <4>2, <4>3, <4>4
      <4> QED BY <4>5 DEF r, Within
    <3> QED BY <1>0, <1>6, <2>1, <2>3, <3>1, <3>3, <3>4, TickStep, CountsOne
  <2> QED BY <2>2, <2>3
<1>7. CASE Disconnect(c)
  BY <1>0, <1>1, <1>7 DEF Disconnect, clientVars, TypeOK
<1>8. CASE GoHalfOpen(c)
  <2>1. /\ conn[c].phase # "off" /\ conn' = [conn EXCEPT ![c] = NoStream]
        /\ zombies' = [zombies EXCEPT ![conn[c].at][c] = zombies[conn[c].at][c] + 1]
        /\ users' = users
    BY <1>0, <1>8 DEF GoHalfOpen, TypeOK
  <2>2. zombies' \in [Instances -> [Clients -> 0..MaxUser]]
    BY <1>0, <2>1, OpenIsCounted, CountTypes
  <2>3. OnlyStream(c)
    BY <1>0, <2>1, OneOff
  <2>4. faults' \in 0..MaxFaults /\ faults' = faults + 1
    BY <1>0, <1>8, FaultFacts DEF GoHalfOpen
  <2>5. TypeOK'
    BY <1>0, <1>8, <2>2, <2>3, <2>4 DEF GoHalfOpen, TypeOK, storeVars, clientVars, OnlyStream, Committed
  <2>6. UNCHANGED member
    BY <1>8 DEF GoHalfOpen
  <2> QED BY <2>1, <2>5, <2>6, CountsEnd
<1>9. CASE LeaveHousehold(c)
  <2>1. OnlyStream(c)
    BY <1>0, <1>9, LeaveStep
  <2>2. UNCHANGED <<users, zombies>> /\ member' \subseteq member /\ c \in member /\ c \notin member'
    BY <1>0, <1>9 DEF LeaveHousehold, hubVars
  <2>3. TypeOK'
    BY <1>0, <1>9, <2>1 DEF LeaveHousehold, TypeOK, storeVars, hubVars, clientVars, OnlyStream, Committed
  <2>4. CASE conn[c].phase = "off"
    <3>1. conn' = conn
      BY <1>9, <2>4 DEF LeaveHousehold
    <3>2. CountersMatch' /\ Aged'
      BY <2>2, <3>1 DEF Counts, CountersMatch, RegisteredAt, Aged
    <3> QED BY <2>3, <3>2 DEF Counts
  <2>5. CASE conn[c].phase # "off"
    <3>1. conn'[c].stale = 0 /\ conn'[c].missed \in Nat /\ conn'[c].ticks \in Nat
      <4>1. conn'[c].stale = conn[c].stale
        BY <1>0, <1>9, LeaveStep
      <4> QED BY <1>0, <2>1, <2>2, <4>1, Streams DEF OnlyStream
    <3>2. Within(conn'[c])
      <4> DEFINE r == RecheckEvery * conn'[c].missed
      <4>1. r \in Nat
        BY <3>1, Periods
      <4> HIDE DEF r
      <4>2. conn'[c].stale <= conn'[c].ticks + r
        BY <3>1, <4>1
      <4> QED BY <4>2 DEF r, Within
    <3> QED BY <1>0, <1>9, <2>1, <2>2, <2>3, <2>5, <3>2, LeaveStep, CountsOne
  <2> QED BY <2>4, <2>5
<1> QED BY <1>2, <1>3, <1>4, <1>5, <1>6, <1>7, <1>8, <1>9

\* A stream that opens takes a count.
LEMMA OpenCounts ==
  ASSUME Counts, NEW c \in Clients, NEW i \in Instances, Events_Subscribe(c, i)
  PROVE  Counts'
<1>0. TypeOK /\ CountersMatch /\ Aged
  BY DEF Counts
<1>1. OnlyStream(c) /\ conn[c].phase = "off" /\ conn'[c].phase = "registered" /\ conn'[c].at = i
      /\ conn'[c].stale = 0 /\ conn'[c].ticks = 0 /\ conn'[c].missed = 0
      /\ users[i][c] < MaxUser /\ users' = [users EXCEPT ![i][c] = users[i][c] + 1]
  BY <1>0, SubscribeStep
<1>2. users' \in [Instances -> [Clients -> 0..MaxUser]]
  BY <1>0, <1>1, CountTypes
<1>3. covered' \in [Clients -> SUBSET Ids]
  <2>1. covered' = [covered EXCEPT ![c] = covered[c] \cup Committed] \/ covered' = covered
    BY <1>0, SubscribeStep
  <2> QED BY <1>0, <2>1, TypeFacts DEF TypeOK
<1>4. /\ UNCHANGED <<storeVars, notify, listener, seen, zombies, member, cursor, excused, faults>>
  BY DEF Events_Subscribe
<1>5. TypeOK'
  BY <1>0, <1>1, <1>2, <1>3, <1>4 DEF TypeOK, storeVars, OnlyStream, Committed
<1>6. CountersMatch'
  <2> SUFFICES ASSUME NEW j \in Instances, NEW d \in Clients
               PROVE  users'[j][d] = zombies[j][d]
                        + (IF conn'[d].phase # "off" /\ conn'[d].at = j THEN 1 ELSE 0)
    BY <1>4 DEF CountersMatch, RegisteredAt
  <2>1. users[j][d] = zombies[j][d] + (IF conn[d].phase # "off" /\ conn[d].at = j THEN 1 ELSE 0)
        /\ users[j][d] \in Nat /\ zombies[j][d] \in Nat
    BY <1>0, TypeFacts DEF CountersMatch, RegisteredAt
  <2>2. users'[j][d] = IF j = i /\ d = c THEN users[i][c] + 1 ELSE users[j][d]
    BY <1>0, <1>1 DEF TypeOK
  <2>3. CASE d # c
    BY <1>1, <2>1, <2>2, <2>3 DEF OnlyStream
  <2>4. CASE d = c
    BY <1>1, <2>1, <2>2, <2>4
  <2> QED BY <2>3, <2>4
<1>7. Aged'
  <2>1. Within(conn'[c])
    BY <1>1, Periods DEF Within
  <2> QED BY <1>0, <1>1, <1>4, <2>1 DEF OnlyStream, Aged
<1> QED BY <1>5, <1>6, <1>7 DEF Counts

\* The return of a handler gives its count back.
LEMMA ReturnCounts ==
  ASSUME Counts, NEW c \in Clients, NEW i \in Instances, Events_Return(i, c)
  PROVE  Counts'
<1>0. TypeOK /\ CountersMatch /\ Aged /\ users \in [Instances -> [Clients -> 0..MaxUser]]
      /\ zombies \in [Instances -> [Clients -> 0..MaxUser]]
  BY DEF Counts, TypeOK
<1>1. zombies[i][c] > 0 /\ zombies' = [zombies EXCEPT ![i][c] = zombies[i][c] - 1]
      /\ users' = [users EXCEPT ![i][c] = users[i][c] - 1]
  BY <1>0 DEF Events_Return, Unsubscribed
<1>2. UNCHANGED <<storeVars, notify, listener, seen, conn, member, clientVars, excused, faults>>
  BY DEF Events_Return
<1>3. users[i][c] > 0
  <2>1. users[i][c] = zombies[i][c] + (IF c \in RegisteredAt(i) THEN 1 ELSE 0)
    BY <1>0 DEF CountersMatch
  <2>2. users[i][c] \in Nat /\ zombies[i][c] \in Nat
    BY <1>0, TypeFacts
  <2> QED BY <1>1, <2>1, <2>2
<1>4. users' \in [Instances -> [Clients -> 0..MaxUser]] /\ zombies' \in [Instances -> [Clients -> 0..MaxUser]]
  BY <1>0, <1>1, <1>3, CountTypes
<1>5. TypeOK'
  BY <1>0, <1>2, <1>4 DEF TypeOK, storeVars, clientVars, Committed
<1>6. CountersMatch'
  <2> SUFFICES ASSUME NEW j \in Instances, NEW d \in Clients
               PROVE  users'[j][d] = zombies'[j][d]
                        + (IF conn[d].phase # "off" /\ conn[d].at = j THEN 1 ELSE 0)
    BY <1>2 DEF CountersMatch, RegisteredAt
  <2>1. users[j][d] = zombies[j][d] + (IF conn[d].phase # "off" /\ conn[d].at = j THEN 1 ELSE 0)
        /\ users[j][d] \in Nat /\ zombies[j][d] \in Nat
    BY <1>0, TypeFacts DEF CountersMatch, RegisteredAt
  <2>2. /\ users'[j][d] = IF j = i /\ d = c THEN users[i][c] - 1 ELSE users[j][d]
        /\ zombies'[j][d] = IF j = i /\ d = c THEN zombies[i][c] - 1 ELSE zombies[j][d]
    BY <1>0, <1>1
  <2> QED BY <2>1, <2>2
<1>7. Aged'
  BY <1>0, <1>2 DEF Aged
<1> QED BY <1>5, <1>6, <1>7 DEF Counts

\* A restart gives all counts of its process back.
LEMMA RestartCounts ==
  ASSUME Counts, NEW i \in Instances, Restart(i)
  PROVE  Counts'
<1>0. TypeOK /\ CountersMatch /\ Aged
  BY DEF Counts
<1>1. \A e \in Ids : event'[e] \in EventType /\ (e \in Committed => e \in Committed')
  <2> TAKE e \in Ids
  <2>1. event[e] \in EventType /\ event' \in [Ids -> {event'[f] : f \in Ids}]
    BY <1>0 DEF TypeOK, Restart
  <2>2. event'[e] = IF event[e].at # i THEN event[e]
                    ELSE CASE event[e].st = "inserting" -> Done("doubtful")
                           [] event[e].st = "stored" -> Done("published")
                           [] OTHER -> event[e]
    BY DEF Restart
  <2>3. \/ event'[e] = event[e]
        \/ event[e].st = "inserting" /\ event'[e] = Done("doubtful")
        \/ event[e].st = "stored" /\ event'[e] = Done("published")
    BY <2>2
  <2> QED BY <2>1, <2>3, EventStates DEF Committed
<1>2. event' \in [Ids -> EventType] /\ rows' \subseteq Committed'
  <2>1. event' \in [Ids -> EventType]
    BY <1>1 DEF Restart
  <2> QED BY <1>0, <1>1, <2>1 DEF Restart, TypeOK, Committed
<1>3. /\ conn' \in [Clients -> StreamType]
      /\ \A d \in Clients : Len(conn'[d].chan) <= ChannelCap
      /\ \A d \in Clients : conn'[d] = IF d \in RegisteredAt(i) THEN NoStream ELSE conn[d]
  <2>1. conn' = [d \in Clients |-> IF d \in RegisteredAt(i) THEN NoStream ELSE conn[d]]
    BY DEF Restart
  <2>2. NoStream \in StreamType /\ Len(NoStream.chan) <= ChannelCap
    BY Streams, EmptySeq, Bounds
  <2> QED BY <1>0, <2>1, <2>2, TypeFacts
<1>4. /\ users' = [users EXCEPT ![i] = [c \in Clients |-> 0]]
      /\ zombies' = [zombies EXCEPT ![i] = [c \in Clients |-> 0]]
      /\ users' \in [Instances -> [Clients -> 0..MaxUser]]
      /\ zombies' \in [Instances -> [Clients -> 0..MaxUser]]
  <2>1. 0 \in 0..MaxUser
    BY Bounds
  <2> QED BY <1>0, <2>1 DEF TypeOK, Restart
<1>5. faults' \in 0..MaxFaults /\ faults' = faults + 1
  BY <1>0, FaultFacts DEF Restart
<1>6. TypeOK'
  <2>1. notify' \in [Instances -> Seq(Ids)]
    BY <1>0, EmptySeq DEF TypeOK, Restart
  <2>2. seen' \in [Instances -> SUBSET Ids] /\ listener' \in [Instances -> {"up", "down", "dead"}]
    BY <1>0 DEF TypeOK, Restart
  <2> QED BY <1>0, <1>2, <1>3, <1>4, <1>5, <2>1, <2>2 DEF TypeOK, Restart, clientVars
<1>7. CountersMatch'
  <2> SUFFICES ASSUME NEW j \in Instances, NEW d \in Clients
               PROVE  users'[j][d] = zombies'[j][d]
                        + (IF conn'[d].phase # "off" /\ conn'[d].at = j THEN 1 ELSE 0)
    BY DEF CountersMatch, RegisteredAt
  <2>1. users[j][d] = zombies[j][d] + (IF conn[d].phase # "off" /\ conn[d].at = j THEN 1 ELSE 0)
    BY <1>0 DEF CountersMatch, RegisteredAt
  <2>2. CASE j = i
    <3>1. users'[j][d] = 0 /\ zombies'[j][d] = 0
      BY <1>0, <1>4, <2>2 DEF TypeOK
    <3>2. ~(conn'[d].phase # "off" /\ conn'[d].at = j)
      BY <1>3, <2>2, Streams DEF RegisteredAt
    <3> QED BY <3>1, <3>2
  <2>3. CASE j # i
    <3>1. users'[j][d] = users[j][d] /\ zombies'[j][d] = zombies[j][d]
      BY <1>0, <1>4, <2>3 DEF TypeOK
    <3>2. (conn'[d].phase # "off" /\ conn'[d].at = j) <=> (conn[d].phase # "off" /\ conn[d].at = j)
      BY <1>3, <2>3, Streams DEF RegisteredAt
    <3> QED BY <2>1, <3>1, <3>2
  <2> QED BY <2>2, <2>3
<1>8. Aged'
  BY <1>0, <1>3, OffIsWithin DEF Aged, Restart
<1> QED BY <1>6, <1>7, <1>8 DEF Counts

\* Types, counters and ticks, in every state.
LEMMA CountsInv == Spec => []Counts
<1>1. Init => Counts
  <2> SUFFICES ASSUME Init PROVE Counts
    OBVIOUS
  <2>1. event \in [Ids -> EventType] /\ rows \subseteq Committed
    <3>1. \A e \in Ids : event[e] = Done("published") \/ event[e] = Done("unborn")
      BY DEF Init
    <3>2. \A e \in 1..History : e \in Ids /\ event[e] = Done("published")
      BY Bounds DEF Init, Ids
    <3>3. Done("published") \in EventType /\ Done("unborn") \in EventType /\ Done("published").st = "published"
      BY EventStates
    <3> QED BY <3>1, <3>2, <3>3 DEF Init, Committed
  <2>2. /\ conn \in [Clients -> StreamType] /\ \A c \in Clients : Len(conn[c].chan) <= ChannelCap
        /\ \A c \in Clients : conn[c] = NoStream
    <3>1. NoStream \in StreamType /\ Len(NoStream.chan) <= ChannelCap
      BY Streams, EmptySeq, Bounds
    <3> QED BY <3>1 DEF Init
  <2>3. /\ floor \in 0..MaxEvents /\ notify \in [Instances -> Seq(Ids)]
        /\ listener \in [Instances -> {"up", "down", "dead"}] /\ seen \in [Instances -> SUBSET Ids]
        /\ member \subseteq Clients /\ excused \in [Clients -> SUBSET Ids] /\ faults \in 0..MaxFaults
    BY Bounds, EmptySeq DEF Init
  <2>4. /\ users \in [Instances -> [Clients -> 0..MaxUser]]
        /\ zombies \in [Instances -> [Clients -> 0..MaxUser]]
    BY Bounds DEF Init
  <2>5. cursor \in [Clients -> 0..MaxEvents] /\ covered \in [Clients -> SUBSET Ids]
    <3>1. \A n \in 0..History : n \in 0..MaxEvents /\ 1..n \subseteq Ids
      BY Bounds DEF Ids
    <3> QED BY <3>1 DEF Init
  <2>6. TypeOK
    BY <2>1, <2>2, <2>3, <2>4, <2>5 DEF TypeOK
  <2>7. CountersMatch
    BY <2>2, Streams DEF Init, CountersMatch, RegisteredAt
  <2>8. Aged
    BY <2>2, OffIsWithin DEF Aged
  <2> QED BY <2>6, <2>7, <2>8 DEF Counts
<1>2. Counts /\ [Next]_vars => Counts'
  <2> SUFFICES ASSUME Counts, [Next]_vars PROVE Counts'
    OBVIOUS
  <2>1. CASE UNCHANGED vars
    BY <2>1 DEF vars, Counts, TypeOK, CountersMatch, Aged, RegisteredAt, Committed
  <2>2. CASE Next
    BY <2>2, PublishCounts, WatchCounts, StreamCounts, OpenCounts, ReturnCounts, RestartCounts DEF Next, Publishing
  <2> QED BY <2>1, <2>2
<1> QED BY <1>1, <1>2, PTL DEF Spec

-----------------------------------------------------------------------------
(***************************************************************************)
(* The log.                                                                *)
(***************************************************************************)
\* A fan-out marks at most the event it brings.
LEMMA Marked ==
  ASSUME TypeOK, NEW i \in Instances, NEW e \in Frame, deliver(i, e)
  PROVE  \A j \in Instances : /\ seen[j] \subseteq seen'[j] /\ seen'[j] \subseteq seen[j] \cup ({e} \cap Ids)
                              /\ (j # i \/ e \notin Ids) => seen'[j] = seen[j]
                              /\ (j = i /\ e \in Ids) => e \in seen'[j]
<1> TAKE j \in Instances
<1>1. CASE UNCHANGED seen /\ (e \notin Ids \/ e \in seen[i])
  BY <1>1
<1>2. CASE e \in Ids /\ seen' = [seen EXCEPT ![i] = @ \cup {e}]
  BY <1>2 DEF TypeOK
<1> QED BY <1>1, <1>2 DEF deliver

\* Publishing keeps the log's order.
LEMMA PublishLog ==
  ASSUME TypeOK, TypeOK', Log,
         Publishing
  PROVE  Log'
<1>1. ASSUME NEW i \in Instances, Append_Draw(i) PROVE Log'
  <2> DEFINE new == Min(Ids \ Born)
  <2>1. new \in Ids /\ new \notin Born /\ \A f \in Ids \ Born : new <= f
    BY <1>1, Bounds, LeastNat DEF Append_Draw, Born
  <2>2. event' = [event EXCEPT ![new] = [st |-> "inserting", at |-> i]]
    BY <1>1 DEF Append_Draw
  <2> HIDE DEF new
  <2>3. event'[new].st = "inserting" /\ \A f \in Ids \ {new} : event'[f] = event[f]
    BY <2>1, <2>2 DEF TypeOK
  <2>4. Committed' = Committed /\ Born' = Born \cup {new} /\ new \notin Committed
    BY <2>1, <2>3 DEF Committed, Born
  <2>5. UNCHANGED <<rows, notify, seen>>
    BY <1>1 DEF Append_Draw, hubVars
  <2>6. \A e \in Born' : \A f \in Ids : f < e => f \in Born'
    <3> SUFFICES ASSUME NEW e \in Born', NEW f \in Ids, f < e, f \notin Born' PROVE FALSE
      OBVIOUS
    <3>1. e \in Nat /\ f \in Nat /\ new \in Nat /\ e \in Ids
      BY <2>1, Bounds DEF Born
    <3>2. new <= f
      BY <2>1, <2>4
    <3>3. e # new
      BY <3>1, <3>2
    <3> QED BY <2>4, <3>3 DEF Log
  <2>7. \A e \in Committed' \ rows' :
          rows' # {} /\ \A f \in Ids : f <= e => f \notin rows' /\ event'[f].st \notin Open
    <3> SUFFICES ASSUME NEW e \in Committed \ rows
                 PROVE  rows # {} /\ \A f \in Ids : f <= e => f \notin rows /\ event'[f].st \notin Open
      BY <2>4, <2>5
    <3>1. rows # {} /\ \A f \in Ids : f <= e => f \notin rows /\ event[f].st \notin Open
      BY DEF Log
    <3>2. ~(new <= e)
      <4>1. e \in Born /\ e \in Ids
        BY DEF Committed, Born
      <4>2. e \in Nat /\ new \in Nat
        BY <2>1, <4>1, Bounds
      <4> QED BY <2>1, <4>1, <4>2 DEF Log
    <3> QED BY <2>3, <3>1, <3>2
  <2>8. \A f \in Ids : event'[f].st = "stored" => f \in rows'
    BY <2>3, <2>5 DEF Log
  <2> QED BY <2>4, <2>5, <2>6, <2>7, <2>8 DEF Log
<1>2. ASSUME NEW e \in Ids, Append_Commit(e) PROVE Log'
  <2>1. event[e].st \in Open /\ \A f \in Ids \ {e} : event'[f] = event[f]
    BY <1>2, CommitMoves DEF Open
  <2>2. Committed' = Committed \cup {e} /\ Born' = Born
    BY <1>2, CommitMoves
  <2>3. rows' = rows \cup {e} /\ UNCHANGED seen
    BY <1>2 DEF Append_Commit
  <2>4. \A d \in Committed' \ rows' :
          rows' # {} /\ \A f \in Ids : f <= d => f \notin rows' /\ event'[f].st \notin Open
    <3> SUFFICES ASSUME NEW d \in Committed \ rows
                 PROVE  rows' # {} /\ \A f \in Ids : f <= d => f \notin rows' /\ event'[f].st \notin Open
      BY <2>2, <2>3
    <3>1. rows # {} /\ \A f \in Ids : f <= d => f \notin rows /\ event[f].st \notin Open
      BY DEF Log
    <3> QED BY <2>1, <2>3, <3>1
  <2>5. \A i \in Instances : \A n \in DOMAIN notify'[i] : notify'[i][n] \in rows'
    <3> TAKE i \in Instances
    <3>1. notify[i] \in Seq(Ids) /\ \A n \in DOMAIN notify[i] : notify[i][n] \in rows
      BY DEF Log, TypeOK
    <3>2. CASE notify'[i] = notify[i]
      BY <2>3, <3>1, <3>2
    <3>3. CASE notify'[i] = Append(notify[i], e)
      BY <2>3, <3>1, <3>3, AppendProperties, LenProperties
    <3> QED BY <1>2, <3>2, <3>3 DEF Append_Commit
  <2>6. \A f \in Ids : event'[f].st = "stored" => f \in rows'
    BY <2>1, <2>3 DEF Log
  <2> QED BY <2>2, <2>3, <2>4, <2>5, <2>6 DEF Log
<1>3. ASSUME NEW e \in Ids, Append_Fails(e) PROVE Log'
  <2>1. /\ \A f \in Ids : event'[f].st = "stored" => event[f].st = "stored"
        /\ \A f \in Ids : event[f].st \notin Open => event'[f].st \notin Open
        /\ Committed' = Committed /\ Born' = Born
    BY <1>3, FailMoves DEF Open
  <2>2. UNCHANGED <<rows, notify, seen>>
    <3>1. deliver(event[e].at, Bare(e)) /\ UNCHANGED <<rows, notify>>
      BY <1>3 DEF Append_Fails
    <3> QED BY <3>1, Bounds DEF deliver
  <2> QED BY <2>1, <2>2 DEF Log
<1>4. ASSUME NEW e \in Ids, Publish_FanOut(e) PROVE Log'
  <2>1. /\ \A f \in Ids : event'[f].st = "stored" => event[f].st = "stored"
        /\ \A f \in Ids : event[f].st \notin Open => event'[f].st \notin Open
        /\ Committed' = Committed /\ Born' = Born
    BY <1>4, EndMoves DEF Open
  <2>2. e \in Committed
    BY <1>4 DEF Publish_FanOut, Committed
  <2>3. UNCHANGED <<rows, notify>> /\ \A i \in Instances : seen'[i] \subseteq seen[i] \cup {e}
    <3>1. deliver(event[e].at, e) /\ event[e].at \in Instances /\ UNCHANGED <<rows, notify>>
      BY <1>4, TypeFacts DEF Publish_FanOut
    <3> QED BY <3>1, Marked, Bounds
  <2> QED BY <2>1, <2>2, <2>3 DEF Log
<1>5. ASSUME NEW k \in Ids, Append_Prune(k) PROVE Log'
  <2>1. /\ rows' = {e \in rows : e > k} /\ UNCHANGED <<event, notify, seen>>
        /\ \E r \in rows : k < r
        /\ \A e \in 1..k : /\ event[e].st \notin Open
                           /\ \A i \in Instances : ~Contains(notify[i], e)
    BY <1>5 DEF Append_Prune, hubVars, Open
  <2>2. Committed' = Committed /\ Born' = Born
    BY <2>1 DEF Committed, Born
  <2>3. \A f \in Ids : f <= k => f \in 1..k
    BY Bounds DEF Ids
  <2>4. k \in Nat /\ rows \subseteq Nat /\ Ids \subseteq Nat /\ rows \subseteq Ids
    BY TypeFacts, Bounds
  <2>5. \A e \in Committed' \ rows' :
          rows' # {} /\ \A f \in Ids : f <= e => f \notin rows' /\ event'[f].st \notin Open
    <3> SUFFICES ASSUME NEW e \in Committed \ rows'
                 PROVE  rows' # {} /\ \A f \in Ids : f <= e => f \notin rows' /\ event[f].st \notin Open
      BY <2>1, <2>2
    <3>1. rows' # {}
      BY <2>1, <2>4
    <3>2. CASE e \notin rows
      BY <2>1, <3>1, <3>2 DEF Log
    <3>3. CASE e \in rows
      <4>1. e <= k
        BY <2>1, <2>4, <3>3
      <4>2. \A f \in Ids : f <= e => f <= k
        BY <2>4, <3>3, <4>1
      <4>3. \A f \in rows' : f \in Ids /\ ~(f <= k)
        BY <2>1, <2>4
      <4> QED BY <2>1, <2>3, <3>1, <4>2, <4>3
    <3> QED BY <3>2, <3>3
  <2>6. \A f \in Ids : event'[f].st = "stored" => f \in rows'
    <3> SUFFICES ASSUME NEW f \in Ids, event[f].st = "stored" PROVE f > k /\ f \in rows
      BY <2>1
    <3>1. f \in rows
      BY DEF Log
    <3>2. ~(f <= k)
      BY <2>1, <2>3 DEF Open
    <3> QED BY <2>4, <3>1, <3>2
  <2>7. \A i \in Instances : \A n \in DOMAIN notify'[i] : notify'[i][n] \in rows'
    <3> SUFFICES ASSUME NEW i \in Instances, NEW n \in DOMAIN notify[i]
                 PROVE  notify[i][n] \in rows /\ notify[i][n] > k
      BY <2>1
    <3>1. notify[i][n] \in rows
      BY DEF Log
    <3>2. Contains(notify[i], notify[i][n])
      BY DEF Contains
    <3>3. ~(notify[i][n] <= k)
      BY <2>1, <2>3, <2>4, <3>1, <3>2
    <3>4. notify[i][n] \in Nat
      BY <2>4, <3>1
    <3> QED BY <2>4, <3>1, <3>3, <3>4
  <2> QED BY <2>1, <2>2, <2>5, <2>6, <2>7 DEF Log
<1>6. ASSUME NEW e \in Ids, Append_RollsBack(e) PROVE Log'
  <2>1. /\ \A f \in Ids : event'[f].st = "stored" => event[f].st = "stored"
        /\ \A f \in Ids : event[f].st \notin Open => event'[f].st \notin Open
        /\ Committed' = Committed /\ Born' = Born
    BY <1>6, EndMoves DEF Open
  <2>2. UNCHANGED <<rows, notify, seen>>
    BY <1>6 DEF Append_RollsBack, hubVars
  <2> QED BY <2>1, <2>2 DEF Log
<1> QED BY <1>1, <1>2, <1>3, <1>4, <1>5, <1>6 DEF Publishing

\* Relaying takes from what was notified, and marks what is in the log.
LEMMA WatchLog ==
  ASSUME TypeOK, Log, NEW i \in Instances,
         Watch_Relay(i) \/ Watch_Drops(i) \/ Watch_Listens(i) \/ Watch_Returns(i)
  PROVE  Log'
<1>1. UNCHANGED <<event, rows>> /\ Committed' = Committed /\ Born' = Born
  BY DEF Watch_Relay, Watch_Drops, Watch_Listens, Watch_Returns, storeVars, Committed, Born
<1>2. notify[i] \in Seq(Ids) /\ \A n \in DOMAIN notify[i] : notify[i][n] \in rows
  BY DEF TypeOK, Log
<1>3. CASE Watch_Relay(i)
  <2>1. notify[i] # <<>> /\ notify' = [notify EXCEPT ![i] = Tail(notify[i])]
    BY <1>3 DEF Watch_Relay
  <2>2. Head(notify[i]) \in rows
    BY <1>2, <2>1, HeadTailProperties, EmptySeq, LenProperties
  <2>3. \A n \in DOMAIN Tail(notify[i]) : Tail(notify[i])[n] \in rows
    BY <1>2, <2>1, HeadTailProperties, LenProperties
  <2>4. deliver(i, Head(notify[i])) /\ Head(notify[i]) \in Ids
    BY <1>3, <2>2, TypeFacts DEF Watch_Relay
  <2>5. \A j \in Instances : seen'[j] \subseteq seen[j] \cup rows
    BY <2>2, <2>4, Marked, Bounds
  <2>6. \A j \in Instances : \A n \in DOMAIN notify'[j] : notify'[j][n] \in rows
    BY <2>1, <2>3 DEF TypeOK, Log
  <2> QED BY <1>1, <2>5, <2>6 DEF Log, TypeOK
<1>4. CASE Watch_Drops(i)
  <2>1. PICK k \in 0..Len(notify[i]) : notify' = [notify EXCEPT ![i] = SubSeq(notify[i], 1, k)]
    BY <1>4 DEF Watch_Drops
  <2>2. \A n \in DOMAIN SubSeq(notify[i], 1, k) : SubSeq(notify[i], 1, k)[n] \in rows
    BY <1>2, LenProperties, SubSeqProperties
  <2>3. UNCHANGED seen /\ \A j \in Instances : \A n \in DOMAIN notify'[j] : notify'[j][n] \in rows
    BY <1>4, <2>1, <2>2 DEF Watch_Drops, TypeOK, Log
  <2> QED BY <1>1, <2>3 DEF Log
<1>5. CASE Watch_Listens(i) \/ Watch_Returns(i)
  BY <1>1, <1>5 DEF Watch_Listens, Watch_Returns, Log
<1> QED BY <1>3, <1>4, <1>5

\* A process that dies leaves what it stored, and nothing it was about to.
LEMMA RestartEvents ==
  ASSUME TypeOK, NEW i \in Instances, Restart(i)
  PROVE  /\ \A e \in Ids :
              \/ event'[e] = event[e] /\ (event[e].at # i \/ event[e].st \notin {"inserting", "stored"})
              \/ event[e].at = i /\ event[e].st = "inserting" /\ event'[e] = Done("doubtful") /\ event'[e].st = "doubtful"
              \/ event[e].at = i /\ event[e].st = "stored" /\ event'[e] = Done("published") /\ event'[e].st = "published"
         /\ Committed' = Committed /\ Born' = Born
<1>1. \A e \in Ids :
              \/ event'[e] = event[e] /\ (event[e].at # i \/ event[e].st \notin {"inserting", "stored"})
              \/ event[e].at = i /\ event[e].st = "inserting" /\ event'[e] = Done("doubtful") /\ event'[e].st = "doubtful"
              \/ event[e].at = i /\ event[e].st = "stored" /\ event'[e] = Done("published") /\ event'[e].st = "published"
  <2> TAKE e \in Ids
  <2>1. event'[e] = IF event[e].at # i THEN event[e]
                    ELSE CASE event[e].st = "inserting" -> Done("doubtful")
                           [] event[e].st = "stored" -> Done("published")
                           [] OTHER -> event[e]
    BY DEF Restart
  <2>2. Done("doubtful").st = "doubtful" /\ Done("published").st = "published"
    BY EventStates
  <2> QED BY <2>1, <2>2
<1> QED BY <1>1 DEF Committed, Born

\* The order of the log, in every state.
LEMMA LogInv == Spec => []Log
<1>1. Init => Log
  <2> SUFFICES ASSUME Init PROVE Log
    OBVIOUS
  <2>1. \A e \in Ids : event[e].st = (IF e <= History THEN "published" ELSE "unborn")
    <3>1. \A e \in Ids : event[e] = Done(IF e <= History THEN "published" ELSE "unborn")
      BY DEF Init
    <3> QED BY <3>1, EventStates
  <2>2. rows = 1..History /\ \A i \in Instances : notify[i] = <<>> /\ seen[i] = {}
    BY DEF Init
  <2>3. Ids \subseteq Nat /\ History \in Nat /\ \A e \in Ids : e <= History => e \in 1..History
    BY Bounds DEF Ids
  <2>4. Committed \subseteq rows /\ \A e \in Born : e <= History
    BY <2>1, <2>2, <2>3 DEF Committed, Born
  <2>5. \A e \in Born : \A f \in Ids : f < e => f \in Born
    <3> SUFFICES ASSUME NEW e \in Born, NEW f \in Ids, f < e PROVE f \in Born
      OBVIOUS
    <3>1. e \in Nat /\ f \in Nat /\ e <= History
      BY <2>3, <2>4 DEF Born
    <3>2. f <= History
      BY <2>3, <3>1
    <3> QED BY <2>1, <3>2 DEF Born
  <2> QED BY <2>1, <2>2, <2>4, <2>5, EmptySeq DEF Log
<1>2. TypeOK /\ TypeOK' /\ Log /\ [Next]_vars => Log'
  <2> SUFFICES ASSUME TypeOK, TypeOK', Log, [Next]_vars PROVE Log'
    OBVIOUS
  <2>1. CASE UNCHANGED <<event, rows, notify, seen>>
    BY <2>1 DEF Log, Committed, Born
  <2>2. ASSUME NEW i \in Instances, Restart(i) PROVE Log'
    <3>1. Committed' = Committed /\ Born' = Born /\ UNCHANGED rows
      BY <2>2, RestartEvents DEF Restart
    <3>2. \A e \in Ids : /\ event'[e].st = "stored" => event[e].st = "stored"
                         /\ event[e].st \notin Open => event'[e].st \notin Open
      BY <2>2, RestartEvents DEF Open
    <3>3. /\ \A j \in Instances : seen'[j] \subseteq seen[j]
          /\ \A j \in Instances : notify'[j] = notify[j] \/ notify'[j] = <<>>
      BY <2>2 DEF Restart, TypeOK
    <3>4. \A j \in Instances : \A n \in DOMAIN notify'[j] : notify'[j][n] \in rows
      BY <3>3, EmptySeq DEF Log
    <3> QED BY <3>1, <3>2, <3>3, <3>4 DEF Log
  <2>3. ASSUME NEW c \in Clients,
               \/ ListAfter_Check(c) \/ ListAfter_Load(c) \/ Events_WriteReplay(c) \/ Events_WriteLive(c)
               \/ Events_Tick(c) \/ Disconnect(c) \/ GoHalfOpen(c) \/ LeaveHousehold(c)
        PROVE  Log'
    BY <2>1, <2>3 DEF ListAfter_Check, ListAfter_Load, Events_WriteReplay, Events_WriteLive, Events_Tick,
                      Disconnect, GoHalfOpen, LeaveHousehold, storeVars, hubVars
  <2>4. ASSUME NEW c \in Clients, NEW i \in Instances, Events_Subscribe(c, i) \/ Events_Return(i, c)
        PROVE  Log'
    BY <2>1, <2>4 DEF Events_Subscribe, Events_Return, storeVars
  <2>5. CASE UNCHANGED vars
    BY <2>1, <2>5 DEF vars
  <2> QED BY <2>2, <2>3, <2>4, <2>5, PublishLog, WatchLog DEF Next, Publishing
<1>3. Counts => TypeOK
  BY DEF Counts
<1> QED BY <1>1, <1>2, <1>3, CountsInv, PTL DEF Spec

-----------------------------------------------------------------------------
(***************************************************************************)
(* What a client received, will receive or was cut off from.               *)
(***************************************************************************)
\* Ids below one that was drawn were drawn.
LEMMA Below ==
  ASSUME TypeOK, Log, Born \subseteq Born', Real' \cap Born \subseteq Real, NEW e \in Born \cup {0}, NEW f \in Real', f <= e
  PROVE  f \in Real
<1>1. f \in Ids /\ f \in Nat /\ f > 0 /\ e \in Nat
  BY Bounds DEF Real, Born
<1>2. e \in Born /\ e \in Ids
  BY <1>1 DEF Born
<1>3. f \in Born
  BY <1>1, <1>2 DEF Log
<1> QED BY <1>3

\* A step that gives a client at most more events in its channel, and that
\* leaves a trace of what its hub has seen or will not see.
LEMMA ClientKept ==
  ASSUME TypeOK, TypeOK', Log, NEW c \in Clients, Client(c),
         conn'[c].phase = conn[c].phase, conn'[c].at = conn[c].at, conn'[c].replay = conn[c].replay,
         conn'[c].sent = conn[c].sent, conn'[c].wrote = conn[c].wrote,
         cursor'[c] = cursor[c], covered[c] \subseteq covered'[c], excused[c] \subseteq excused'[c],
         Committed \subseteq Committed', Born \subseteq Born', Real' \cap Born \subseteq Real,
         \A n \in DOMAIN conn[c].chan : n \in DOMAIN conn'[c].chan /\ conn'[c].chan[n] = conn[c].chan[n],
         \A n \in DOMAIN conn'[c].chan \ DOMAIN conn[c].chan : conn'[c].chan[n] \in Ids =>
            /\ conn'[c].chan[n] \in Committed'
            /\ \A f \in Real' : f < conn'[c].chan[n] =>
                 f \in Answered(c)' \/ \E q \in DOMAIN conn'[c].chan : q < n /\ conn'[c].chan[q] = f,
         conn[c].phase # "off" =>
            \A f \in Committed' : f \in seen'[conn[c].at] \/ f \notin Coming(conn[c].at)' =>
               \/ f \in Committed /\ (f \in seen[conn[c].at] \/ f \notin Coming(conn[c].at))
               \/ f \in Answered(c)' \/ \E q \in DOMAIN conn'[c].chan : conn'[c].chan[q] = f
  PROVE  Client(c)'
<1>0. Frames(c) /\ Cursor(c) /\ Replay(c) /\ Channel(c) /\ Reached(c)
  BY DEF Client
<1>1. Account(c) \subseteq Account(c)' /\ Answered(c) \subseteq Answered(c)'
  BY DEF Account, Answered, Due
<1>2. Frames(c)'
  BY <1>0, <1>1 DEF Frames
<1>3. Cursor(c)'
  <2>1. cursor'[c] \in Born' \cup {0}
    BY <1>0 DEF Cursor
  <2>2. ASSUME NEW f \in Real', f <= cursor'[c] PROVE f \in Account(c)'
    <3>1. f \in Real
      BY <1>0, <2>2, Below DEF Cursor
    <3> QED BY <1>0, <1>1, <2>2, <3>1 DEF Cursor
  <2> QED BY <2>1, <2>2 DEF Cursor
<1>4. Replay(c)'
  <2> SUFFICES ASSUME NEW e \in conn[c].replay
               PROVE  e \in Committed' /\ \A f \in Real' : f < e => f \in Account(c)' \cup conn[c].replay
    BY DEF Replay
  <2>1. e \in Committed /\ \A f \in Real : f < e => f \in Account(c) \cup conn[c].replay
    BY <1>0 DEF Replay
  <2>2. ASSUME NEW f \in Real', f < e PROVE f \in Real
    <3>1. e \in Born /\ f \in Nat /\ e \in Nat
      BY <2>1, Bounds DEF Committed, Born, Real
    <3>2. f <= e
      BY <2>2, <3>1
    <3> QED BY <3>1, <3>2, Below
  <2> QED BY <1>1, <2>1, <2>2
<1>5. Channel(c)'
  <2> SUFFICES ASSUME NEW p \in DOMAIN conn'[c].chan, conn'[c].chan[p] \in Ids
               PROVE  /\ conn'[c].chan[p] \in Committed'
                      /\ \A f \in Real' : f < conn'[c].chan[p] =>
                           f \in Answered(c)' \/ \E q \in DOMAIN conn'[c].chan : q < p /\ conn'[c].chan[q] = f
    BY DEF Channel
  <2>1. CASE p \notin DOMAIN conn[c].chan
    BY <2>1
  <2>2. CASE p \in DOMAIN conn[c].chan
    <3> DEFINE e == conn[c].chan[p]
    <3>1. e = conn'[c].chan[p] /\ e \in Ids
      BY <2>2
    <3>2. /\ e \in Committed
          /\ \A f \in Real : f < e =>
               f \in Answered(c) \/ \E q \in DOMAIN conn[c].chan : q < p /\ conn[c].chan[q] = f
      BY <1>0, <2>2, <3>1 DEF Channel
    <3> HIDE DEF e
    <3>3. ASSUME NEW f \in Real', f < e PROVE f \in Real
      <4>1. e \in Born /\ f \in Nat /\ e \in Nat
        BY <3>2, Bounds DEF Committed, Born, Real
      <4>2. f <= e
        BY <3>3, <4>1
      <4> QED BY <4>1, <4>2, Below
    <3> QED BY <1>1, <3>1, <3>2, <3>3
  <2> QED BY <2>1, <2>2
<1>6. Reached(c)'
  BY <1>0, <1>1 DEF Reached
<1> QED BY <1>2, <1>3, <1>4, <1>5, <1>6 DEF Client

\* A step that leaves the client's stream and cursor alone.
LEMMA ClientSame ==
  ASSUME TypeOK, TypeOK', Log, NEW c \in Clients, Client(c),
         conn'[c] = conn[c], cursor'[c] = cursor[c],
         covered[c] \subseteq covered'[c], excused[c] \subseteq excused'[c],
         Committed \subseteq Committed', Born \subseteq Born', Real' \cap Born \subseteq Real,
         conn[c].phase # "off" =>
            \A f \in Committed' : f \in seen'[conn[c].at] \/ f \notin Coming(conn[c].at)' =>
               \/ f \in Committed /\ (f \in seen[conn[c].at] \/ f \notin Coming(conn[c].at))
               \/ f \in Answered(c)' \/ \E q \in DOMAIN conn[c].chan : conn[c].chan[q] = f
  PROVE  Client(c)'
BY ClientKept

\* A stream that ends, or is not there, owes nothing but its cursor.
LEMMA ClientOff ==
  ASSUME TypeOK, TypeOK', Log, NEW c \in Clients, Client(c), conn'[c] = NoStream,
         cursor'[c] \in {cursor[c], 0}, covered[c] \subseteq covered'[c], excused[c] \subseteq excused'[c],
         Born \subseteq Born', Real' \cap Born \subseteq Real
  PROVE  Client(c)'
<1>1. conn'[c].phase = "off" /\ conn'[c].chan = <<>> /\ conn'[c].replay = {}
      /\ conn'[c].sent = {} /\ conn'[c].wrote = <<>>
  BY Streams
<1>2. Frames(c)'
  BY <1>1, EmptySeq DEF Frames, IsInjective
<1>3. Cursor(c)'
  <2>1. cursor'[c] \in Born' \cup {0} /\ cursor'[c] \in Born \cup {0}
    BY DEF Client, Cursor
  <2>2. ASSUME NEW f \in Real', f <= cursor'[c] PROVE f \in Account(c)'
    <3>1. f \in Real
      BY <2>1, <2>2, Below
    <3>2. cursor'[c] = cursor[c]
      <4>1. f \in Nat /\ f > 0
        BY <3>1, Bounds DEF Real, Born
      <4>2. cursor'[c] # 0
        BY <2>2, <4>1
      <4> QED BY <4>2
    <3> QED BY <2>2, <3>1, <3>2 DEF Client, Cursor, Account
  <2> QED BY <2>1, <2>2 DEF Cursor
<1>4. Replay(c)' /\ Channel(c)' /\ Reached(c)'
  BY <1>1, EmptySeq DEF Replay, Channel, Reached
<1> QED BY <1>2, <1>3, <1>4 DEF Client

\* The handler leaves the log and the hub's memory alone.
LogSame == UNCHANGED <<event, notify, seen>>

\* Nothing is committed, drawn, seen or notified by such a step.
LEMMA SameLog ==
  ASSUME LogSame
  PROVE  /\ Committed' = Committed /\ Born' = Born /\ Real' = Real
         /\ \A i \in Instances : Coming(i)' = Coming(i) /\ seen'[i] = seen[i]
BY DEF LogSame, Committed, Born, Real, Coming, Local

\* A stream that opens owes its client what is after its cursor, or what commits
\* from now on.
LEMMA SubscribeClient ==
  ASSUME TypeOK, TypeOK', Log, NEW c \in Clients, Client(c), NEW i \in Instances, Events_Subscribe(c, i)
  PROVE  Client(c)'
<1>0. Frames(c) /\ Cursor(c) /\ Replay(c) /\ Channel(c) /\ Reached(c)
  BY DEF Client
<1>1. /\ conn'[c].phase = "registered" /\ conn'[c].chan = <<>> /\ conn'[c].replay = {}
      /\ conn'[c].sent = {} /\ conn'[c].wrote = <<>>
      /\ covered' = IF cursor[c] = 0 THEN [covered EXCEPT ![c] = covered[c] \cup Committed] ELSE covered
  BY SubscribeStep
<1>2. UNCHANGED <<cursor, excused>> /\ LogSame
  BY DEF Events_Subscribe, storeVars, LogSame
<1>3. Committed' = Committed /\ Born' = Born /\ Real' = Real
  BY <1>2, SameLog
<1>4. covered[c] \subseteq covered'[c] /\ (cursor[c] = 0 => Committed \subseteq covered'[c])
  BY <1>1 DEF TypeOK
<1>5. Account(c) \subseteq Account(c)'
  BY <1>2, <1>4 DEF Account
<1>6. Frames(c)'
  BY <1>1, EmptySeq DEF Frames, IsInjective
<1>7. Cursor(c)'
  BY <1>0, <1>2, <1>3, <1>5 DEF Cursor
<1>8. Replay(c)' /\ Channel(c)'
  BY <1>1, EmptySeq DEF Replay, Channel
<1>9. Reached(c)'
  <2> SUFFICES ASSUME NEW f \in Committed PROVE f \in Answered(c)'
    BY <1>3 DEF Reached
  <2>1. CASE cursor[c] = 0
    BY <1>4, <2>1 DEF Answered, Account
  <2>2. CASE cursor[c] # 0 /\ f > cursor[c]
    BY <1>1, <1>2, <1>3, <2>2 DEF Answered, Due
  <2>3. CASE ~(f > cursor[c])
    <3>1. f \in Real /\ f \in Nat /\ cursor[c] \in Nat
      BY TypeFacts, Bounds DEF Committed, Real, Born
    <3>2. f <= cursor[c]
      BY <2>3, <3>1
    <3> QED BY <1>0, <1>5, <3>1, <3>2 DEF Cursor, Answered
  <2> QED BY <2>1, <2>2, <2>3
<1> QED BY <1>6, <1>7, <1>8, <1>9 DEF Client

\* The check keeps what is owed, or ends the stream and forgets the cursor.
LEMMA CheckClient ==
  ASSUME TypeOK, TypeOK', Log, NEW c \in Clients, Client(c), ListAfter_Check(c)
  PROVE  Client(c)'
<1>1. UNCHANGED <<covered, excused>> /\ LogSame
  BY DEF ListAfter_Check, storeVars, LogSame
<1>2. Committed' = Committed /\ Born' = Born /\ Real' = Real
  BY <1>1, SameLog
<1>3. CASE Expired(cursor[c])
  <2>1. conn'[c] = NoStream /\ cursor'[c] = 0
    BY <1>3 DEF ListAfter_Check, TypeOK
  <2> QED BY <1>1, <1>2, <2>1, ClientOff
<1>4. CASE ~Expired(cursor[c])
  <2>1. /\ conn[c].phase = "registered" /\ conn'[c].phase = "checked" /\ conn'[c].at = conn[c].at
        /\ conn'[c].chan = conn[c].chan /\ conn'[c].replay = conn[c].replay
        /\ conn'[c].sent = conn[c].sent /\ conn'[c].wrote = conn[c].wrote
    BY <1>4, CheckStep
  <2>2. cursor' = cursor
    BY <1>4 DEF ListAfter_Check
  <2>3. Account(c)' = Account(c) /\ Answered(c)' = Answered(c)
    BY <1>1, <1>2, <2>1, <2>2 DEF Account, Answered, Due
  <2>4. Frames(c)' /\ Cursor(c)' /\ Replay(c)' /\ Channel(c)'
    BY <1>2, <2>1, <2>2, <2>3 DEF Client, Frames, Cursor, Replay, Channel
  <2>5. conn[c].at \in Instances
    BY TypeFacts, Streams
  <2>6. Reached(c)'
    BY <1>1, <1>2, <2>1, <2>3, <2>5, SameLog DEF Client, Reached
  <2> QED BY <2>4, <2>6 DEF Client
<1> QED BY <1>3, <1>4

\* The page brings what was due, or its leaving out is excused.
LEMMA LoadClient ==
  ASSUME TypeOK, TypeOK', Log, NEW c \in Clients, Client(c), ListAfter_Load(c)
  PROVE  Client(c)'
<1> DEFINE page == IF cursor[c] = 0 THEN {} ELSE PageAfter(cursor[c])
           cut == IF cursor[c] = 0 THEN {}
                  ELSE ({e \in Committed : e > cursor[c]} \ page)
                       \cup {e \in Born \ Committed : \E f \in page : e < f}
<1>0. Frames(c) /\ Cursor(c) /\ Replay(c) /\ Channel(c) /\ Reached(c)
  BY DEF Client
<1>1. UNCHANGED <<covered, cursor>> /\ LogSame
  BY DEF ListAfter_Load, storeVars, hubVars, clientVars, LogSame
<1>2. Committed' = Committed /\ Born' = Born /\ Real' = Real
  BY <1>1, SameLog
<1>3. /\ conn[c].phase = "checked" /\ conn'[c].phase = "streaming" /\ conn'[c].at = conn[c].at
      /\ conn'[c].chan = conn[c].chan /\ conn'[c].replay = page
      /\ conn'[c].sent = page /\ conn'[c].wrote = conn[c].wrote
      /\ page \subseteq rows /\ excused' = [excused EXCEPT ![c] = excused[c] \cup cut]
  BY LoadStep
<1>4. excused'[c] = excused[c] \cup cut /\ page \subseteq Committed
  BY <1>3 DEF TypeOK
<1>5. /\ \A f \in Committed : cursor[c] # 0 /\ f > cursor[c] => f \in page \cup cut
      /\ \A f \in Born \ Committed, e \in page : f < e => f \in cut
      /\ page # {} => cursor[c] # 0
  OBVIOUS
<1> HIDE DEF page, cut
<1>6. /\ Account(c)' = Account(c) \cup cut /\ conn[c].replay = {}
      /\ Answered(c) \subseteq Answered(c)'
  <2>1. Account(c)' = Account(c) \cup cut
    BY <1>1, <1>4 DEF Account
  <2>2. conn[c].replay = {}
    BY <1>0, <1>3 DEF Frames
  <2>3. Due(c) \subseteq page \cup cut
    BY <1>5 DEF Due
  <2> QED BY <1>3, <2>1, <2>2, <2>3 DEF Answered
<1>7. Frames(c)'
  <2>1. conn[c].wrote = <<>>
    BY <1>0, <1>3 DEF Frames
  <2> QED BY <1>3, <2>1, EmptySeq DEF Frames, IsInjective
<1>8. Cursor(c)'
  BY <1>0, <1>1, <1>2, <1>6 DEF Cursor
<1>9. Replay(c)'
  <2> SUFFICES ASSUME NEW e \in page, NEW f \in Real, f < e
               PROVE  e \in Committed /\ f \in Account(c) \cup cut \cup page
    BY <1>2, <1>3, <1>4, <1>6 DEF Replay
  <2>1. e \in Committed /\ f \in Born /\ cursor[c] # 0 /\ f \in Nat /\ cursor[c] \in Nat
    BY <1>4, <1>5, TypeFacts, Bounds DEF Real, Born
  <2>2. CASE f \notin Committed
    BY <1>5, <2>1, <2>2
  <2>3. CASE f \in Committed /\ f > cursor[c]
    BY <1>5, <2>1, <2>3
  <2>4. CASE ~(f > cursor[c])
    <3>1. f <= cursor[c]
      BY <2>1, <2>4
    <3> QED BY <1>0, <2>1, <3>1 DEF Cursor
  <2> QED BY <2>1, <2>2, <2>3, <2>4
<1>10. Channel(c)'
  BY <1>0, <1>2, <1>3, <1>6 DEF Channel
<1>11. Reached(c)'
  <2>1. conn[c].at \in Instances
    BY TypeFacts, Streams
  <2> QED BY <1>0, <1>1, <1>2, <1>3, <1>6, <2>1, SameLog DEF Reached
<1> QED BY <1>7, <1>8, <1>9, <1>10, <1>11 DEF Client

\* What was written so far and one more, that was not among it.
LEMMA OneMoreFrame ==
  ASSUME NEW w \in Seq(Ids), NEW e \in Ids, NEW S, IsInjective(w), \A n \in DOMAIN w : w[n] \in S, e \notin S
  PROVE  /\ IsInjective(Append(w, e))
         /\ \A n \in DOMAIN Append(w, e) : Append(w, e)[n] \in S \cup {e}
<1>1. /\ Len(w) \in Nat /\ DOMAIN w = 1..Len(w) /\ DOMAIN Append(w, e) = 1..Len(w) + 1
      /\ \A n \in 1..Len(w) : Append(w, e)[n] = w[n]
      /\ Append(w, e)[Len(w) + 1] = e
  BY AppendProperties, LenProperties
<1>2. \A n \in 1..Len(w) + 1 : n \in 1..Len(w) \/ n = Len(w) + 1
  BY <1>1
<1> QED BY <1>1, <1>2 DEF IsInjective

\* All that is real below the smallest row of the replay is accounted for.
LEMMA WriteReplayClient ==
  ASSUME TypeOK, TypeOK', Log, NEW c \in Clients, Client(c), Events_WriteReplay(c)
  PROVE  Client(c)'
<1> DEFINE e == Min(conn[c].replay)
<1>0. Frames(c) /\ Cursor(c) /\ Replay(c) /\ Channel(c) /\ Reached(c)
  BY DEF Client
<1>1. UNCHANGED excused /\ LogSame
  BY DEF Events_WriteReplay, storeVars, hubVars, LogSame
<1>2. Committed' = Committed /\ Born' = Born /\ Real' = Real
  BY <1>1, SameLog
<1>3. /\ conn[c].phase = "streaming" /\ conn'[c].phase = "streaming" /\ conn'[c].at = conn[c].at
      /\ conn'[c].chan = conn[c].chan /\ conn'[c].replay = conn[c].replay \ {e}
      /\ conn'[c].sent = conn[c].sent /\ conn'[c].wrote = Append(conn[c].wrote, e)
      /\ e \in conn[c].replay /\ e \in Ids /\ \A f \in conn[c].replay : e <= f
      /\ cursor' = [cursor EXCEPT ![c] = e]
      /\ covered' = [covered EXCEPT ![c] = covered[c] \cup {e}]
  BY WriteReplayStep
<1> HIDE DEF e
<1>4. cursor'[c] = e /\ covered'[c] = covered[c] \cup {e}
  BY <1>3 DEF TypeOK
<1>5. /\ Account(c)' = Account(c) \cup {e} /\ Answered(c) \subseteq Answered(c)'
      /\ Account(c) \cup conn[c].replay \subseteq Account(c)' \cup conn'[c].replay
  <2>1. Account(c)' = Account(c) \cup {e}
    BY <1>1, <1>4 DEF Account
  <2>2. Due(c) = {}
    BY <1>3 DEF Due
  <2> QED BY <1>3, <2>1, <2>2 DEF Answered
<1>6. Frames(c)'
  <2>1. conn[c].wrote \in Seq(Ids) /\ conn[c].sent \subseteq Ids
    BY TypeFacts, Streams
  <2>2. \A n \in DOMAIN conn[c].wrote : conn[c].wrote[n] \in conn[c].sent \ conn[c].replay
    BY <1>0 DEF Frames
  <2>3. /\ IsInjective(conn'[c].wrote)
        /\ \A n \in DOMAIN conn'[c].wrote : conn'[c].wrote[n] \in (conn[c].sent \ conn[c].replay) \cup {e}
    <3> DEFINE w == conn[c].wrote
               S == conn[c].sent \ conn[c].replay
    <3>1. w \in Seq(Ids) /\ IsInjective(w) /\ (\A n \in DOMAIN w : w[n] \in S) /\ e \notin S /\ e \in Ids
      BY <1>0, <1>3, <2>1, <2>2 DEF Frames
    <3> HIDE DEF w, S
    <3>2. IsInjective(Append(w, e)) /\ \A n \in DOMAIN Append(w, e) : Append(w, e)[n] \in S \cup {e}
      BY <3>1, OneMoreFrame
    <3> QED BY <1>3, <3>2 DEF w, S
  <2>4. conn[c].replay \subseteq conn[c].sent /\ conn[c].sent \subseteq Account(c) \cup conn[c].replay
    BY <1>0, <1>3 DEF Frames
  <2> QED BY <1>3, <1>5, <2>3, <2>4 DEF Frames
<1>7. Cursor(c)'
  <2>1. e \in Born
    BY <1>0, <1>3 DEF Replay, Committed, Born
  <2>2. ASSUME NEW f \in Real, f <= e PROVE f \in Account(c) \cup {e}
    <3>1. f \in Nat /\ e \in Nat
      BY <1>3, Bounds DEF Real, Born
    <3>2. CASE f = e
      BY <3>2
    <3>3. CASE f # e
      <4>1. f < e /\ ~(e <= f)
        BY <2>2, <3>1, <3>3
      <4> QED BY <1>0, <1>3, <4>1 DEF Replay
    <3> QED BY <3>2, <3>3
  <2> QED BY <1>2, <1>4, <1>5, <2>1, <2>2 DEF Cursor
<1>8. Replay(c)'
  BY <1>0, <1>2, <1>3, <1>5 DEF Replay
<1>9. Channel(c)'
  BY <1>0, <1>2, <1>3, <1>5 DEF Channel
<1>10. Reached(c)'
  <2>1. conn[c].at \in Instances
    BY TypeFacts, Streams
  <2> QED BY <1>0, <1>1, <1>2, <1>3, <1>5, <2>1, SameLog DEF Reached
<1> QED BY <1>6, <1>7, <1>8, <1>9, <1>10 DEF Client

\* All that is real below the first event of the channel is accounted for.
LEMMA WriteLiveClient ==
  ASSUME TypeOK, TypeOK', Log, NEW c \in Clients, Client(c), Events_WriteLive(c)
  PROVE  Client(c)'
<1> DEFINE e == Head(conn[c].chan)
           ch == conn[c].chan
<1>0. Frames(c) /\ Cursor(c) /\ Replay(c) /\ Channel(c) /\ Reached(c)
  BY DEF Client
<1>1. UNCHANGED excused /\ LogSame
  BY DEF Events_WriteLive, storeVars, hubVars, LogSame
<1>2. Committed' = Committed /\ Born' = Born /\ Real' = Real
  BY <1>1, SameLog
<1>3. /\ conn[c].phase = "streaming" /\ conn'[c].phase = "streaming" /\ conn'[c].at = conn[c].at
      /\ ch # <<>> /\ e \in Frame /\ conn'[c].chan = Tail(ch)
      /\ conn[c].replay = {} /\ conn'[c].replay = {}
      /\ IF e \in conn[c].sent \/ e \notin Ids
         THEN /\ conn'[c].sent = conn[c].sent /\ conn'[c].wrote = conn[c].wrote
              /\ UNCHANGED <<cursor, covered>>
         ELSE /\ conn'[c].sent = conn[c].sent \cup {e} /\ conn'[c].wrote = Append(conn[c].wrote, e)
              /\ cursor' = [cursor EXCEPT ![c] = e]
              /\ covered' = [covered EXCEPT ![c] = covered[c] \cup {e}]
  BY WriteLiveStep
<1>4. /\ ch \in Seq(Frame) /\ conn[c].wrote \in Seq(Ids) /\ conn[c].at \in Instances
      /\ conn[c].sent \subseteq Ids
  BY TypeFacts, Streams
<1>5. /\ Len(ch) \in Nat /\ Len(ch) > 0 /\ DOMAIN ch = 1..Len(ch) /\ ch[1] = e
      /\ DOMAIN Tail(ch) = 1..Len(ch) - 1
      /\ \A n \in 1..Len(ch) - 1 : Tail(ch)[n] = ch[n + 1]
  BY <1>3, <1>4, HeadTailProperties, LenProperties, EmptySeq
<1> HIDE DEF e, ch
<1>6. Due(c) = {} /\ Due(c)' = {} /\ Answered(c) = Account(c) /\ Answered(c)' = Account(c)'
  BY <1>3 DEF Due, Answered
<1>7. Account(c)' = Account(c) \/ (e \in Ids \ conn[c].sent /\ Account(c)' = Account(c) \cup {e})
  <2>1. CASE e \in conn[c].sent \/ e \notin Ids
    BY <1>1, <1>3, <2>1 DEF Account
  <2>2. CASE e \in Ids \ conn[c].sent
    <3>1. covered'[c] = covered[c] \cup {e}
      BY <1>3, <2>2 DEF TypeOK
    <3> QED BY <1>1, <2>2, <3>1 DEF Account
  <2> QED BY <2>1, <2>2
<1>8. e \notin Ids \/ e \in Account(c)'
  <2>1. CASE e \in conn[c].sent
    BY <1>0, <1>3, <1>7, <2>1 DEF Frames
  <2>2. CASE e \in Ids \ conn[c].sent
    <3>1. covered'[c] = covered[c] \cup {e}
      BY <1>3, <2>2 DEF TypeOK
    <3> QED BY <3>1 DEF Account
  <2> QED BY <2>1, <2>2
<1>9. \A f \in Real : \A q \in DOMAIN ch : ch[q] = f =>
        f \in Account(c)' \/ (q - 1 \in DOMAIN Tail(ch) /\ Tail(ch)[q - 1] = f)
  <2> TAKE f \in Real
  <2> TAKE q \in DOMAIN ch
  <2> HAVE ch[q] = f
  <2>1. f \in Ids
    BY Bounds DEF Real, Born
  <2>2. CASE q = 1
    BY <1>5, <1>8, <2>1, <2>2
  <2>3. CASE q # 1
    <3>1. q - 1 \in 1..Len(ch) - 1 /\ (q - 1) + 1 = q
      BY <1>5, <2>3
    <3> QED BY <1>5, <3>1
  <2> QED BY <2>2, <2>3
<1>10. Frames(c)'
  <2>1. CASE e \in conn[c].sent \/ e \notin Ids
    BY <1>0, <1>3, <1>7, <2>1 DEF Frames
  <2>2. CASE e \in Ids \ conn[c].sent
    <3> DEFINE w == conn[c].wrote
               S == conn[c].sent
    <3>1. w \in Seq(Ids) /\ IsInjective(w) /\ (\A n \in DOMAIN w : w[n] \in S) /\ e \notin S /\ e \in Ids
      BY <1>0, <1>3, <1>4, <2>2 DEF Frames
    <3>2. conn'[c].wrote = Append(w, e) /\ conn'[c].sent = S \cup {e}
      BY <1>3, <2>2
    <3>3. S \subseteq Account(c)
      BY <1>0, <1>3 DEF Frames
    <3> HIDE DEF w, S
    <3>4. IsInjective(Append(w, e)) /\ \A n \in DOMAIN Append(w, e) : Append(w, e)[n] \in S \cup {e}
      BY <3>1, OneMoreFrame
    <3>5. S \cup {e} \subseteq Account(c)'
      BY <1>7, <1>8, <2>2, <3>3
    <3> QED BY <1>3, <3>2, <3>4, <3>5 DEF Frames
  <2> QED BY <2>1, <2>2
<1>11. Cursor(c)'
  <2>1. CASE e \in conn[c].sent \/ e \notin Ids
    BY <1>0, <1>2, <1>3, <1>7, <2>1 DEF Cursor
  <2>2. CASE e \in Ids \ conn[c].sent
    <3>1. cursor'[c] = e /\ e \in Ids
      BY <1>3, <2>2 DEF TypeOK
    <3>2. /\ e \in Committed
          /\ \A f \in Real : f < e => f \in Answered(c) \/ \E q \in DOMAIN ch : q < 1 /\ ch[q] = f
      <4>1. 1 \in DOMAIN ch /\ ch[1] \in Ids
        BY <1>5, <3>1
      <4> QED BY <1>0, <1>5, <4>1 DEF Channel, ch
    <3>3. \A f \in Real : f < e => f \in Account(c)
      BY <1>5, <1>6, <3>2
    <3>4. ASSUME NEW f \in Real, f <= e PROVE f \in Account(c)'
      <4>1. f \in Nat /\ e \in Nat
        BY <3>2, Bounds DEF Real, Born, Committed
      <4>2. f < e \/ f = e
        BY <3>4, <4>1
      <4> QED BY <1>7, <1>8, <3>1, <3>3, <4>2
    <3>5. e \in Born
      BY <3>2 DEF Committed, Born
    <3> QED BY <1>2, <3>1, <3>4, <3>5 DEF Cursor
  <2> QED BY <2>1, <2>2
<1>12. Replay(c)'
  BY <1>3 DEF Replay
<1>13. Channel(c)'
  <2> SUFFICES ASSUME NEW p \in DOMAIN Tail(ch), Tail(ch)[p] \in Ids
               PROVE  /\ Tail(ch)[p] \in Committed
                      /\ \A f \in Real : f < Tail(ch)[p] =>
                           f \in Account(c)' \/ \E q \in DOMAIN Tail(ch) : q < p /\ Tail(ch)[q] = f
    BY <1>2, <1>3, <1>6 DEF Channel
  <2>1. p \in Nat /\ p + 1 \in DOMAIN ch /\ Tail(ch)[p] = ch[p + 1]
    BY <1>5
  <2>2. /\ ch[p + 1] \in Committed
        /\ \A f \in Real : f < ch[p + 1] =>
             f \in Answered(c) \/ \E q \in DOMAIN ch : q < p + 1 /\ ch[q] = f
    BY <1>0, <2>1 DEF Channel, ch
  <2>3. ASSUME NEW f \in Real, f < ch[p + 1]
        PROVE  f \in Account(c)' \/ \E q \in DOMAIN Tail(ch) : q < p /\ Tail(ch)[q] = f
    <3>1. CASE f \in Answered(c)
      BY <1>6, <1>7, <3>1
    <3>2. CASE \E q \in DOMAIN ch : q < p + 1 /\ ch[q] = f
      <4>1. PICK q \in DOMAIN ch : q < p + 1 /\ ch[q] = f
        BY <3>2
      <4>2. q - 1 < p
        BY <1>5, <2>1, <4>1
      <4> QED BY <1>9, <4>1, <4>2
    <3> QED BY <2>2, <2>3, <3>1, <3>2
  <2> QED BY <2>1, <2>2, <2>3
<1>14. Reached(c)'
  <2> SUFFICES ASSUME NEW f \in Committed, f \in seen[conn[c].at] \/ f \notin Coming(conn[c].at)
               PROVE  f \in Account(c)' \/ \E q \in DOMAIN Tail(ch) : Tail(ch)[q] = f
    BY <1>1, <1>2, <1>3, <1>4, <1>6, SameLog DEF Reached
  <2>1. f \in Answered(c) \/ \E q \in DOMAIN ch : ch[q] = f
    BY <1>0, <1>3 DEF Reached, ch
  <2>2. f \in Real
    BY DEF Real, Committed, Born
  <2> QED BY <1>6, <1>7, <1>9, <2>1, <2>2
<1> QED BY <1>10, <1>11, <1>12, <1>13, <1>14 DEF Client

\* A client whose stream, cursor and hub a step of the handler leaves alone.
LEMMA ClientApart ==
  ASSUME TypeOK, TypeOK', Log, NEW d \in Clients, Client(d), LogSame,
         conn'[d] = conn[d], cursor'[d] = cursor[d], covered'[d] = covered[d], excused'[d] = excused[d]
  PROVE  Client(d)'
<1>1. conn[d].at \in Instances
  BY TypeFacts, Streams
<1>2. /\ Committed' = Committed /\ Born' = Born /\ Real' = Real
      /\ Coming(conn[d].at)' = Coming(conn[d].at) /\ seen'[conn[d].at] = seen[conn[d].at]
  BY <1>1, SameLog
<1> QED BY <1>2, ClientSame

\* The handler keeps what it owes its own client, and all others.
LEMMA HandlerClients ==
  ASSUME TypeOK, TypeOK', Log, \A d \in Clients : Client(d), NEW c \in Clients,
         \/ ListAfter_Check(c) \/ ListAfter_Load(c) \/ Events_WriteReplay(c) \/ Events_WriteLive(c)
         \/ Events_Tick(c) \/ Disconnect(c) \/ GoHalfOpen(c) \/ LeaveHousehold(c)
         \/ \E i \in Instances : Events_Subscribe(c, i) \/ Events_Return(i, c)
  PROVE  \A d \in Clients : Client(d)'
<1>1. LogSame
  BY DEF LogSame, ListAfter_Check, ListAfter_Load, Events_WriteReplay, Events_WriteLive, Events_Tick,
         Disconnect, GoHalfOpen, LeaveHousehold, Events_Subscribe, Events_Return, storeVars, hubVars
<1>2. \A d \in Clients \ {c} : Client(d)'
  <2> SUFFICES ASSUME NEW d \in Clients \ {c} PROVE Client(d)'
    OBVIOUS
  <2>1. conn'[d] = conn[d]
    <3>1. ASSUME OnlyStream(c) PROVE conn'[d] = conn[d]
      BY <3>1 DEF OnlyStream
    <3>2. ASSUME \E i \in Instances : Events_Subscribe(c, i) \/ Events_Return(i, c) PROVE conn'[d] = conn[d]
      BY <3>1, <3>2, SubscribeStep DEF Events_Return
    <3>3. ASSUME ListAfter_Check(c) PROVE conn'[d] = conn[d]
      <4>1. Expired(cursor[c]) => conn' = [conn EXCEPT ![c] = NoStream]
        BY <3>3 DEF ListAfter_Check
      <4> QED BY <3>1, <3>3, <4>1, CheckStep, OneOff
    <3>4. ASSUME Events_Tick(c) PROVE conn'[d] = conn[d]
      BY <3>1, <3>4, TickStep, OneOff
    <3>5. ASSUME Disconnect(c) \/ GoHalfOpen(c) PROVE conn'[d] = conn[d]
      BY <3>1, <3>5, OneOff DEF Disconnect, GoHalfOpen
    <3> QED BY <3>1, <3>2, <3>3, <3>4, <3>5, LoadStep, WriteReplayStep, WriteLiveStep, LeaveStep
  <2>2. cursor'[d] = cursor[d] /\ covered'[d] = covered[d] /\ excused'[d] = excused[d]
    <3>1. /\ \A n : [cursor EXCEPT ![c] = n][d] = cursor[d]
          /\ \A S : [covered EXCEPT ![c] = S][d] = covered[d] /\ [excused EXCEPT ![c] = S][d] = excused[d]
      BY DEF TypeOK
    <3>2. CASE UNCHANGED <<cursor, covered, excused>>
      BY <3>2
    <3>3. CASE ListAfter_Check(c)
      BY <3>1, <3>3 DEF ListAfter_Check
    <3>4. CASE ListAfter_Load(c)
      BY <3>4 DEF ListAfter_Load, clientVars, TypeOK
    <3>5. CASE Events_WriteReplay(c)
      BY <3>5 DEF Events_WriteReplay, Received, TypeOK
    <3>6. CASE Events_WriteLive(c)
      BY <3>6 DEF Events_WriteLive, Received, clientVars, TypeOK
    <3>7. CASE \E i \in Instances : Events_Subscribe(c, i)
      BY <3>7, ZenonT(30) DEF Events_Subscribe, TypeOK
    <3> QED BY <3>2, <3>3, <3>4, <3>5, <3>6, <3>7
               DEF Events_Tick, Disconnect, GoHalfOpen, LeaveHousehold, Events_Return, clientVars
  <2> QED BY <1>1, <2>1, <2>2, ClientApart
<1>3. Client(c)'
  <2>1. CASE ListAfter_Check(c)
    BY <2>1, CheckClient
  <2>2. CASE ListAfter_Load(c)
    BY <2>2, LoadClient
  <2>3. CASE Events_WriteReplay(c)
    BY <2>3, WriteReplayClient
  <2>4. CASE Events_WriteLive(c)
    BY <2>4, WriteLiveClient
  <2>5. CASE \E i \in Instances : Events_Subscribe(c, i)
    BY <2>5, SubscribeClient
  <2>6. ASSUME conn'[c] = NoStream, UNCHANGED <<cursor, covered, excused>> PROVE Client(c)'
    BY <1>1, <2>6, SameLog, ClientOff
  <2>7. ASSUME conn'[c].phase = conn[c].phase, conn'[c].at = conn[c].at, conn'[c].chan = conn[c].chan,
               conn'[c].replay = conn[c].replay, conn'[c].sent = conn[c].sent,
               conn'[c].wrote = conn[c].wrote, UNCHANGED <<cursor, covered, excused>>
        PROVE  Client(c)'
    <3>1. conn[c].at \in Instances
      BY TypeFacts, Streams
    <3>2. /\ Committed' = Committed /\ Born' = Born /\ Real' = Real
          /\ Coming(conn[c].at)' = Coming(conn[c].at) /\ seen'[conn[c].at] = seen[conn[c].at]
      BY <1>1, <2>7, <3>1, SameLog
    <3> QED BY <2>7, <3>2, ClientKept
  <2>8. CASE Events_Tick(c)
    <3>1. UNCHANGED <<cursor, covered, excused>>
      BY <2>8 DEF Events_Tick, clientVars
    <3>2. CASE conn' = [conn EXCEPT ![c] = NoStream]
      BY <2>6, <3>1, <3>2, OneOff
    <3>3. CASE conn' # [conn EXCEPT ![c] = NoStream]
      <4>1. /\ conn'[c].phase = conn[c].phase /\ conn'[c].at = conn[c].at /\ conn'[c].chan = conn[c].chan
            /\ conn'[c].replay = conn[c].replay /\ conn'[c].sent = conn[c].sent
            /\ conn'[c].wrote = conn[c].wrote
        BY <2>8, <3>3, TickStep
      <4> QED BY <2>7, <3>1, <4>1
    <3> QED BY <3>2, <3>3
  <2>9. CASE Disconnect(c) \/ GoHalfOpen(c)
    BY <2>6, <2>9, OneOff DEF Disconnect, GoHalfOpen, clientVars
  <2>10. CASE LeaveHousehold(c)
    BY <2>7, <2>10, LeaveStep DEF LeaveHousehold, clientVars
  <2>11. CASE \E i \in Instances : Events_Return(i, c)
    BY <2>7, <2>11 DEF Events_Return, clientVars
  <2> QED BY <2>1, <2>2, <2>3, <2>4, <2>5, <2>8, <2>9, <2>10, <2>11
<1> QED BY <1>2, <1>3

\* What a fan-out brings to a client of its hub, and to the others.
LEMMA Offer ==
  ASSUME TypeOK, NEW i \in Instances, NEW e \in Frame, deliver(i, e), NEW c \in Clients
  PROVE  /\ conn'[c].phase = conn[c].phase /\ conn'[c].at = conn[c].at
         /\ conn'[c].replay = conn[c].replay /\ conn'[c].sent = conn[c].sent
         /\ conn'[c].wrote = conn[c].wrote /\ conn'[c].bare = conn[c].bare
         /\ excused[c] \subseteq excused'[c]
         /\ \A n \in DOMAIN conn[c].chan : n \in DOMAIN conn'[c].chan /\ conn'[c].chan[n] = conn[c].chan[n]
         /\ \A n \in DOMAIN conn'[c].chan \ DOMAIN conn[c].chan :
              /\ conn'[c].chan[n] = e /\ \A q \in DOMAIN conn[c].chan : q < n
              /\ c \in RegisteredAt(i) /\ (e \in Ids => e \notin seen[i])
              /\ e \in Ids => \A f \in Coming(i) \ seen[i] : f < e => f \in excused'[c]
         /\ c \in RegisteredAt(i) /\ e \in Ids =>
              e \in seen[i] \/ e \in excused'[c] \/ \E q \in DOMAIN conn'[c].chan : conn'[c].chan[q] = e
<1> DEFINE s == conn[c]
           t == conn'[c]
<1>0. s \in StreamType /\ s.chan \in Seq(Frame) /\ excused[c] \subseteq Ids
  BY TypeFacts, Streams
<1>1. /\ t.phase = s.phase /\ t.at = s.at /\ t.replay = s.replay /\ t.sent = s.sent /\ t.wrote = s.wrote /\ t.bare = s.bare
  BY Delivered
<1>2. CASE UNCHANGED <<conn, excused>> /\ (e \in Ids /\ e \in seen[i])
  BY <1>1, <1>2
<1>3. CASE conn' = Offered(i, e) /\ excused' = CutOff(i, e) /\ ~(e \in Ids /\ e \in seen[i])
  <2>1. CASE c \notin RegisteredAt(i)
    <3>1. t = s /\ excused'[c] = excused[c]
      BY <1>3, <2>1 DEF Offered, CutOff
    <3> QED BY <1>1, <2>1, <3>1
  <2>2. CASE c \in RegisteredAt(i) /\ Len(s.chan) >= ChannelCap
    <3>1. ~(Len(s.chan) < ChannelCap)
      BY <1>0, <2>2, LenProperties, Bounds
    <3>2. t = s /\ excused[c] \subseteq excused'[c] /\ (e \in Ids => e \in excused'[c])
      BY <1>3, <2>2, <3>1 DEF Offered, CutOff
    <3> QED BY <1>1, <3>2
  <2>3. CASE c \in RegisteredAt(i) /\ ~(Len(s.chan) >= ChannelCap)
    <3>1. Len(s.chan) < ChannelCap
      BY <1>0, <2>3, LenProperties, Bounds
    <3>2. t = [s EXCEPT !.chan = Append(s.chan, e)]
      BY <1>3, <2>3, <3>1 DEF Offered
    <3>3. t.chan = Append(s.chan, e)
      BY <1>0, <3>1, <3>2, Pushed
    <3>4. excused[c] \subseteq excused'[c] /\ (e \in Ids => {f \in Coming(i) \ seen[i] : f < e} \subseteq excused'[c])
      BY <1>3, <2>3 DEF CutOff
    <3> HIDE DEF s, t
    <3>5. /\ Len(s.chan) \in Nat /\ DOMAIN s.chan = 1..Len(s.chan) /\ DOMAIN t.chan = 1..Len(s.chan) + 1
          /\ \A n \in 1..Len(s.chan) : t.chan[n] = s.chan[n]
          /\ t.chan[Len(s.chan) + 1] = e
      BY <1>0, <3>3, AppendProperties, LenProperties
    <3>6. \A n \in 1..Len(s.chan) + 1 : n \in 1..Len(s.chan) \/ n = Len(s.chan) + 1
      BY <3>5
    <3>7. Len(s.chan) + 1 \in 1..Len(s.chan) + 1 /\ \A n \in 1..Len(s.chan) : n < Len(s.chan) + 1
      BY <3>5
    <3>8. /\ \A n \in DOMAIN s.chan : n \in DOMAIN t.chan /\ t.chan[n] = s.chan[n]
          /\ \A n \in DOMAIN t.chan \ DOMAIN s.chan : n = Len(s.chan) + 1
          /\ Len(s.chan) + 1 \in DOMAIN t.chan
      BY <3>5, <3>6, <3>7
    <3> QED BY <1>1, <1>3, <2>3, <3>4, <3>5, <3>7, <3>8 DEF s, t
  <2> QED BY <2>1, <2>2, <2>3
<1> QED BY <1>2, <1>3 DEF deliver

\* A bare copy takes the event with its id, unless that was seen or was notified.
LEMMA BareCut ==
  ASSUME TypeOK, NEW i \in Instances, NEW e \in Frame \ Ids, deliver(i, e),
         NEW c \in RegisteredAt(i), Bare(e) \in Local(i)
  PROVE  Bare(e) \in seen[i] \/ Contains(notify[i], Bare(e)) \/ Bare(e) \in excused'[c]
<1> DEFINE f == Bare(e)
<1>1. e \notin seen[i] /\ c \in Clients /\ notify[i] \in Seq(Ids)
  BY DEF TypeOK, RegisteredAt
<1>2. excused' = CutOff(i, e)
  BY <1>1 DEF deliver
<1>3. (Local(i) \cap {f}) \ (seen[i] \cup ToSet(notify[i])) \subseteq excused'[c]
  BY <1>1, <1>2 DEF CutOff
<1> HIDE DEF f
<1>4. f \in ToSet(notify[i]) => Contains(notify[i], f)
  <2>1. DOMAIN notify[i] = 1..Len(notify[i])
    BY <1>1, LenProperties
  <2> QED BY <2>1 DEF ToSet, Contains
<1>5. f \in Local(i)
  BY DEF f
<1>6. f \in seen[i] \/ Contains(notify[i], f) \/ f \in excused'[c]
  BY <1>3, <1>4, <1>5
<1> QED BY <1>6 DEF f

\* A fan-out keeps what every client is owed: what it takes from a channel's
\* order, does not get into a channel, or comes bare only, is excused.
LEMMA FannedOut ==
  ASSUME TypeOK, TypeOK', Log, NEW c \in Clients, Client(c),
         NEW i \in Instances, NEW e \in Committed \cup (Frame \ Ids), deliver(i, e),
         UNCHANGED <<cursor, covered>>, Committed' = Committed, Born' = Born, Real' \subseteq Real,
         \A j \in Instances : \A f \in Committed :
            f \in Coming(j) =>
               \/ f \in Coming(j)' \/ (j = i /\ f = e)
               \/ j = i /\ e \notin Ids /\ f = Bare(e) /\ f \in Local(i) /\ ~Contains(notify[i], f)
  PROVE  Client(c)'
<1>0. PICK a \in Instances : a = conn[c].at
  BY TypeFacts, Streams
<1>1. e \in Frame
  BY TypeFacts, Bounds
<1>2. /\ conn'[c].phase = conn[c].phase /\ conn'[c].at = conn[c].at
      /\ conn'[c].replay = conn[c].replay /\ conn'[c].sent = conn[c].sent
      /\ conn'[c].wrote = conn[c].wrote /\ excused[c] \subseteq excused'[c]
      /\ \A n \in DOMAIN conn[c].chan : n \in DOMAIN conn'[c].chan /\ conn'[c].chan[n] = conn[c].chan[n]
      /\ \A n \in DOMAIN conn'[c].chan \ DOMAIN conn[c].chan :
           /\ conn'[c].chan[n] = e /\ \A q \in DOMAIN conn[c].chan : q < n
           /\ c \in RegisteredAt(i) /\ (e \in Ids => e \notin seen[i])
           /\ e \in Ids => \A f \in Coming(i) \ seen[i] : f < e => f \in excused'[c]
      /\ c \in RegisteredAt(i) /\ e \in Ids =>
           e \in seen[i] \/ e \in excused'[c] \/ \E q \in DOMAIN conn'[c].chan : conn'[c].chan[q] = e
  BY <1>1, Offer
<1>3. Answered(c) \subseteq Answered(c)' /\ excused'[c] \subseteq Answered(c)'
  BY <1>2 DEF Answered, Account, Due
<1>4. ASSUME NEW n \in DOMAIN conn'[c].chan \ DOMAIN conn[c].chan, conn'[c].chan[n] \in Ids,
             NEW f \in Real', f < conn'[c].chan[n]
      PROVE  f \in Answered(c)' \/ \E q \in DOMAIN conn'[c].chan : q < n /\ conn'[c].chan[q] = f
  <2>1. conn'[c].chan[n] = e /\ c \in RegisteredAt(i) /\ e \in Ids /\ f < e
    BY <1>2, <1>4
  <2>2. CASE f \in Coming(i) \ seen[i]
    BY <1>2, <1>3, <1>4, <2>1, <2>2
  <2>3. CASE f \notin Coming(i) \ seen[i]
    <3>1. f \in Committed /\ (f \in seen[i] \/ f \notin Coming(i))
      <4>1. f \in Ids /\ event[f].st # "unborn" /\ event[f].st # "failed"
        BY DEF Real, Born
      <4>2. event[f].st \in {"unborn", "inserting", "stored", "published", "doubtful",
                             "unanswered", "failed"}
        BY <4>1 DEF TypeOK, EventType
      <4>3. CASE f \in seen[i]
        BY <4>3 DEF Log
      <4>4. CASE f \notin Coming(i)
        BY <4>1, <4>2, <4>4 DEF Coming, Committed
      <4> QED BY <2>3, <4>3, <4>4
    <3>2. conn[c].phase # "off" /\ conn[c].at = i
      BY <2>1 DEF RegisteredAt
    <3>3. f \in Answered(c) \/ \E q \in DOMAIN conn[c].chan : conn[c].chan[q] = f
      BY <3>1, <3>2 DEF Client, Reached
    <3> QED BY <1>2, <1>3, <1>4, <3>3
  <2> QED BY <2>2, <2>3
<1>5. ASSUME conn[c].phase # "off", NEW f \in Committed, f \in seen'[a] \/ f \notin Coming(a)'
      PROVE  \/ f \in Committed /\ (f \in seen[a] \/ f \notin Coming(a))
             \/ f \in Answered(c)' \/ \E q \in DOMAIN conn'[c].chan : conn'[c].chan[q] = f
  <2>1. CASE f \in seen[a] \/ f \notin Coming(a)
    BY <2>1
  <2>2. CASE f \notin seen[a] /\ f \in Coming(a)
    <3>1. \/ a = i /\ f = e
          \/ a = i /\ e \notin Ids /\ f = Bare(e) /\ f \in Local(i) /\ ~Contains(notify[i], f)
      <4>1. CASE f \in seen'[a]
        BY <1>1, <1>5, <2>2, <4>1, Marked, Bounds DEF Committed
      <4>2. CASE f \notin Coming(a)'
        BY <1>5, <2>2, <4>2
      <4> QED BY <1>5, <4>1, <4>2
    <3>2. c \in RegisteredAt(i)
      BY <1>0, <1>5, <3>1 DEF RegisteredAt
    <3>3. CASE f = e
      <4>1. e \in Ids
        BY <1>5, <3>3 DEF Committed
      <4> QED BY <1>2, <1>3, <2>2, <3>1, <3>2, <3>3, <4>1
    <3>4. CASE e \notin Ids /\ f = Bare(e) /\ f \in Local(i) /\ ~Contains(notify[i], f)
      <4>1. f \in excused'[c]
        BY <1>1, <2>2, <3>1, <3>2, <3>4, BareCut
      <4> QED BY <1>3, <4>1
    <3> QED BY <3>1, <3>3, <3>4
  <2> QED BY <2>1, <2>2
<1>6. \A n \in DOMAIN conn'[c].chan \ DOMAIN conn[c].chan : conn'[c].chan[n] \in Ids => conn'[c].chan[n] \in Committed'
  BY <1>2
<1>7. conn[c].phase # "off" =>
        \A f \in Committed' : f \in seen'[conn[c].at] \/ f \notin Coming(conn[c].at)' =>
           \/ f \in Committed /\ (f \in seen[conn[c].at] \/ f \notin Coming(conn[c].at))
           \/ f \in Answered(c)' \/ \E q \in DOMAIN conn'[c].chan : conn'[c].chan[q] = f
  <2>1. a = conn[c].at /\ a = conn'[c].at
    BY <1>0, <1>2
  <2> QED BY <1>5, <2>1
<1> QED BY <1>2, <1>4, <1>6, <1>7, ClientKept

\* What a queue of notifications still holds when one comes, one is taken, or
\* its end is lost.
LEMMA Queued ==
  ASSUME NEW s \in Seq(Ids), NEW f
  PROVE  /\ \A e \in Ids : Contains(Append(s, e), e) /\ (Contains(s, f) => Contains(Append(s, e), f))
         /\ s # <<>> => (Contains(s, f) => f = Head(s) \/ Contains(Tail(s), f))
         /\ \A k \in 0..Len(s) :
              Contains(s, f) => Contains(SubSeq(s, 1, k), f) \/ f \in ToSet(SubSeq(s, k + 1, Len(s)))
<1>0. Len(s) \in Nat /\ DOMAIN s = 1..Len(s)
  BY LenProperties
<1>1. ASSUME NEW e \in Ids PROVE Contains(Append(s, e), e) /\ (Contains(s, f) => Contains(Append(s, e), f))
  <2>1. /\ Len(Append(s, e)) = Len(s) + 1 /\ Append(s, e)[Len(s) + 1] = e
        /\ \A n \in 1..Len(s) : Append(s, e)[n] = s[n] /\ n \in 1..Len(s) + 1
        /\ Len(s) + 1 \in 1..Len(s) + 1
    BY <1>0, AppendProperties
  <2> QED BY <2>1 DEF Contains
<1>2. ASSUME s # <<>>, Contains(s, f) PROVE f = Head(s) \/ Contains(Tail(s), f)
  <2>1. /\ Head(s) = s[1] /\ Len(Tail(s)) = Len(s) - 1
        /\ \A n \in 1..Len(s) - 1 : Tail(s)[n] = s[n + 1]
    BY <1>2, HeadTailProperties
  <2>2. PICK n \in 1..Len(s) : s[n] = f
    BY <1>2 DEF Contains
  <2>3. CASE n = 1
    BY <2>1, <2>2, <2>3
  <2>4. CASE n # 1
    <3>1. n - 1 \in 1..Len(s) - 1 /\ (n - 1) + 1 = n
      BY <1>0, <2>4
    <3>2. Tail(s)[n - 1] = f
      BY <2>1, <2>2, <3>1
    <3> QED BY <2>1, <3>1, <3>2 DEF Contains
  <2> QED BY <2>3, <2>4
<1>3. ASSUME NEW k \in 0..Len(s), Contains(s, f)
      PROVE  Contains(SubSeq(s, 1, k), f) \/ f \in ToSet(SubSeq(s, k + 1, Len(s)))
  <2>1. PICK n \in 1..Len(s) : s[n] = f
    BY <1>3 DEF Contains
  <2>2. CASE n <= k
    <3>1. Len(SubSeq(s, 1, k)) = k /\ n \in 1..k /\ SubSeq(s, 1, k)[n] = s[n]
      BY <1>0, <2>2, SubSeqProperties
    <3> QED BY <2>1, <3>1 DEF Contains
  <2>3. CASE ~(n <= k)
    <3> DEFINE t == SubSeq(s, k + 1, Len(s))
    <3>1. \A j \in 1..Len(s) - k : t[j] = s[k + j]
      <4>1. t = [j \in 1..Len(s) - k |-> s[k + j]]
        BY <1>0
      <4> QED BY <4>1
    <3>2. DOMAIN t = 1..Len(s) - k
      BY <1>0
    <3>3. n - k \in 1..Len(s) - k /\ k + (n - k) = n
      BY <1>0, <2>3
    <3> HIDE DEF t
    <3>4. t[n - k] = f
      BY <2>1, <3>1, <3>3
    <3>5. f \in ToSet(t)
      BY <3>2, <3>3, <3>4 DEF ToSet
    <3> QED BY <3>5 DEF t
  <2> QED BY <2>2, <2>3
<1> QED BY <1>1, <1>2, <1>3

\* Publishing keeps what every client is owed.
LEMMA PublishClients ==
  ASSUME TypeOK, TypeOK', Log, NEW c \in Clients, Client(c),
         Publishing
  PROVE  Client(c)'
<1>0. PICK a \in Instances : a = conn[c].at
  BY TypeFacts, Streams
<1>1. ASSUME NEW i \in Instances, Append_Draw(i) PROVE Client(c)'
  <2> DEFINE new == Min(Ids \ Born)
  <2>1. new \in Ids /\ new \notin Born
    BY <1>1, Bounds, LeastNat DEF Append_Draw, Born
  <2>2. event' = [event EXCEPT ![new] = [st |-> "inserting", at |-> i]]
    BY <1>1 DEF Append_Draw
  <2> HIDE DEF new
  <2>3. event'[new].st = "inserting" /\ \A f \in Ids \ {new} : event'[f] = event[f]
    BY <2>1, <2>2 DEF TypeOK
  <2>4. Committed' = Committed /\ Born' = Born \cup {new} /\ Real' \cap Born \subseteq Real
    BY <2>1, <2>3 DEF Committed, Born, Real
  <2>5. UNCHANGED <<conn, cursor, covered, excused, notify, seen>>
    BY <1>1 DEF Append_Draw, hubVars, clientVars
  <2>6. \A f \in Committed : f \in Coming(a) => f \in Coming(a)'
    BY <2>1, <2>3, <2>5 DEF Coming, Local, Committed, Born
  <2>7. \A f \in Committed' : f \in seen'[conn[c].at] \/ f \notin Coming(conn[c].at)' =>
               \/ f \in Committed /\ (f \in seen[conn[c].at] \/ f \notin Coming(conn[c].at))
    BY <1>0, <2>4, <2>5, <2>6
  <2> QED BY <2>4, <2>5, <2>7, ClientSame
<1>2. ASSUME NEW e \in Ids, Append_Commit(e) PROVE Client(c)'
  <2>1. /\ \A f \in Ids \ {e} : event'[f] = event[f]
        /\ \/ event[e].st = "inserting" /\ event'[e].st = "stored" /\ event'[e].at = event[e].at
           \/ event[e].st = "doubtful" /\ event'[e].st = "unanswered"
    BY <1>2, CommitMoves
  <2>2. Committed' = Committed \cup {e} /\ Born' = Born /\ Real' \subseteq Real /\ e \notin Committed
    <3>1. Committed' = Committed \cup {e} /\ Born' = Born /\ e \notin Committed
      BY <1>2, CommitMoves
    <3> QED BY <2>1, <3>1, TypeFacts DEF Real
  <2>3. UNCHANGED <<conn, cursor, covered, seen>>
    BY <1>2 DEF Append_Commit, clientVars
  <2>4. /\ excused[c] \subseteq excused'[c]
        /\ (/\ conn[c].phase # "off" /\ listener[a] # "up"
            /\ event[e].st = "doubtful" \/ a # event[e].at) => e \in excused'[c]
    BY <1>0, <1>2 DEF Append_Commit
  <2>5. notify[a] \in Seq(Ids) /\ notify'[a] = IF listener[a] = "up" THEN Append(notify[a], e) ELSE notify[a]
    BY <1>2 DEF Append_Commit, TypeOK
  <2>6. \A f \in Committed : f \in Coming(a) => f \in Coming(a)'
    <3>1. \A f \in Committed : Contains(notify[a], f) => Contains(notify'[a], f)
      BY <2>5, Queued
    <3> QED BY <2>1, <2>2, <3>1 DEF Coming, Local, Committed
  <2>7. ASSUME conn[c].phase # "off" PROVE e \notin seen[a] /\ (e \in Coming(a)' \/ e \in Answered(c)')
    <3>1. e \notin seen[a]
      BY <2>2 DEF Log
    <3>2. CASE a = event[e].at /\ event[e].st = "inserting"
      BY <2>1, <3>1, <3>2 DEF Coming, Local
    <3>3. CASE listener[a] = "up"
      <4>1. Contains(notify'[a], e)
        BY <2>5, <3>3, Queued
      <4> QED BY <3>1, <4>1 DEF Coming
    <3>4. CASE (event[e].st = "doubtful" \/ a # event[e].at) /\ listener[a] # "up"
      BY <2>4, <2>7, <3>1, <3>4 DEF Answered, Account
    <3> QED BY <2>1, <3>2, <3>3, <3>4
  <2>8. conn[c].phase # "off" =>
          \A f \in Committed' : f \in seen'[conn[c].at] \/ f \notin Coming(conn[c].at)' =>
               \/ f \in Committed /\ (f \in seen[conn[c].at] \/ f \notin Coming(conn[c].at))
               \/ f \in Answered(c)'
    BY <1>0, <2>2, <2>3, <2>6, <2>7
  <2> QED BY <2>2, <2>3, <2>4, <2>8, ClientSame
<1>3. ASSUME NEW e \in Ids, Append_Fails(e) PROVE Client(c)'
  <2> DEFINE f == Bare(e)
  <2>1. /\ \A d \in Ids \ {e} : event'[d] = event[d]
        /\ \/ event[e].st = "inserting" /\ event'[e].st = "doubtful"
           \/ event[e].st = "stored" /\ event'[e].st = "unanswered"
        /\ Committed' = Committed /\ Born' = Born
    BY <1>3, FailMoves
  <2>2. Real' \subseteq Real
    BY <2>1 DEF Real, Born
  <2>3. /\ deliver(event[e].at, f) /\ event[e].at \in Instances
        /\ f \in Frame \ Ids /\ Bare(f) = e
        /\ UNCHANGED <<cursor, covered, notify>>
    BY <1>3, FailMoves, Bounds DEF Append_Fails, clientVars
  <2> HIDE DEF f
  <2>4. \A j \in Instances : \A d \in Committed :
          d \in Coming(j) =>
             \/ d \in Coming(j)' \/ (j = event[e].at /\ d = f)
             \/ /\ j = event[e].at /\ f \notin Ids /\ d = Bare(f)
                /\ d \in Local(event[e].at) /\ ~Contains(notify[event[e].at], d)
    <3> SUFFICES ASSUME NEW j \in Instances, NEW d \in Committed, d \in Coming(j), d \notin Coming(j)'
                 PROVE  /\ j = event[e].at /\ f \notin Ids /\ d = Bare(f)
                        /\ d \in Local(event[e].at) /\ ~Contains(notify[event[e].at], d)
      OBVIOUS
    <3>1. ~Contains(notify[j], d) /\ d \in Ids
      BY <2>3 DEF Coming
    <3>2. d \in Local(j)
      BY <3>1 DEF Coming, Committed
    <3>3. d = e
      BY <2>1, <3>2 DEF Coming, Local
    <3> QED BY <2>3, <3>1, <3>2, <3>3 DEF Local
  <2> QED BY <2>1, <2>2, <2>3, <2>4, FannedOut
<1>4. ASSUME NEW e \in Ids, Publish_FanOut(e) PROVE Client(c)'
  <2>1. /\ \A f \in Ids \ {e} : event'[f] = event[f]
        /\ event[e].st = "stored" /\ event'[e].st = "published"
        /\ Committed' = Committed /\ Born' = Born
    BY <1>4, EndMoves DEF Append_RollsBack, Publish_FanOut
  <2>2. Real' \subseteq Real /\ e \in Committed
    BY <2>1 DEF Real, Born, Committed
  <2>3. deliver(event[e].at, e) /\ event[e].at \in Instances /\ UNCHANGED <<cursor, covered, notify>>
    BY <1>4, TypeFacts DEF Publish_FanOut, clientVars
  <2>4. \A j \in Instances : \A f \in Committed : f \in Coming(j) => f \in Coming(j)' \/ (j = event[e].at /\ f = e)
    BY <2>1, <2>2, <2>3 DEF Coming, Local, Committed
  <2> QED BY <2>1, <2>2, <2>3, <2>4, FannedOut
<1>5. ASSUME NEW k \in Ids, Append_Prune(k) PROVE Client(c)'
  <2>1. UNCHANGED <<event, notify, seen, conn, cursor, covered, excused>>
    BY <1>5 DEF Append_Prune, hubVars, clientVars
  <2> QED BY <2>1, ClientApart DEF LogSame
<1>6. ASSUME NEW e \in Ids, Append_RollsBack(e) PROVE Client(c)'
  <2>1. /\ \A f \in Ids \ {e} : event'[f] = event[f]
        /\ event[e].st = "doubtful" /\ event'[e].st = "failed"
        /\ Committed' = Committed /\ Born' = Born
    BY <1>6, EndMoves DEF Append_RollsBack, Publish_FanOut
  <2>2. Real' \subseteq Real /\ UNCHANGED <<conn, cursor, covered, excused, notify, seen>>
    BY <1>6, <2>1 DEF Real, Born, Append_RollsBack, hubVars, clientVars
  <2>3. \A f \in Committed : f \in Coming(a) => f \in Coming(a)'
    BY <2>1, <2>2 DEF Coming, Local, Committed
  <2>4. \A f \in Committed' : f \in seen'[conn[c].at] \/ f \notin Coming(conn[c].at)' =>
               \/ f \in Committed /\ (f \in seen[conn[c].at] \/ f \notin Coming(conn[c].at))
    BY <1>0, <2>1, <2>2, <2>3
  <2> QED BY <2>1, <2>2, <2>4, ClientSame
<1> QED BY <1>1, <1>2, <1>3, <1>4, <1>5, <1>6 DEF Publishing

\* So does the listener: what it loses is excused, or still comes from the
\* instance's own publisher.
LEMMA WatchClients ==
  ASSUME TypeOK, TypeOK', Log, NEW c \in Clients, Client(c), NEW i \in Instances,
         Watch_Relay(i) \/ Watch_Drops(i) \/ Watch_Listens(i) \/ Watch_Returns(i)
  PROVE  Client(c)'
<1>0. PICK a \in Instances : a = conn[c].at
  BY TypeFacts, Streams
<1>1. UNCHANGED <<event, cursor, covered>> /\ Committed' = Committed /\ Born' = Born /\ Real' = Real
      /\ notify[i] \in Seq(Ids)
  BY DEF Watch_Relay, Watch_Drops, Watch_Listens, Watch_Returns, storeVars, clientVars, Committed, Born, Real, TypeOK
<1>2. CASE Watch_Relay(i)
  <2>1. notify[i] # <<>> /\ notify' = [notify EXCEPT ![i] = Tail(notify[i])]
    BY <1>2 DEF Watch_Relay
  <2>2. Head(notify[i]) \in rows /\ Head(notify[i]) \in Committed
    <3>1. Head(notify[i]) \in rows
      BY <1>1, <2>1, HeadTailProperties, EmptySeq, LenProperties DEF Log
    <3> QED BY <3>1 DEF TypeOK
  <2>3. deliver(i, Head(notify[i]))
    BY <1>2, <2>2 DEF Watch_Relay
  <2>4. \A j \in Instances : \A f \in Committed :
          f \in Coming(j) => f \in Coming(j)' \/ (j = i /\ f = Head(notify[i]))
    <3> SUFFICES ASSUME NEW j \in Instances, NEW f \in Committed, f \in Coming(j)
                 PROVE  f \in Coming(j)' \/ (j = i /\ f = Head(notify[i]))
      OBVIOUS
    <3>1. CASE j # i
      <4>1. notify'[j] = notify[j]
        BY <2>1, <3>1 DEF TypeOK
      <4> QED BY <1>1, <4>1 DEF Coming, Local
    <3>2. CASE j = i
      <4>1. notify'[i] = Tail(notify[i])
        BY <2>1 DEF TypeOK
      <4>2. Contains(notify[i], f) => f = Head(notify[i]) \/ Contains(notify'[i], f)
        BY <1>1, <2>1, <4>1, Queued
      <4> QED BY <1>1, <3>2, <4>2 DEF Coming, Local
    <3> QED BY <3>1, <3>2
  <2> QED BY <1>1, <2>2, <2>3, <2>4, FannedOut
<1>3. CASE Watch_Drops(i)
  <2>1. PICK k \in 0..Len(notify[i]) :
          /\ notify' = [notify EXCEPT ![i] = SubSeq(notify[i], 1, k)]
          /\ excused' = [d \in Clients |->
                excused[d] \cup IF d \in RegisteredAt(i)
                                THEN ToSet(SubSeq(notify[i], k + 1, Len(notify[i])))
                                     \ (seen[i] \cup Local(i))
                                ELSE {}]
    BY <1>3 DEF Watch_Drops
  <2>2. UNCHANGED <<conn, seen>>
    BY <1>3 DEF Watch_Drops
  <2>3. excused[c] \subseteq excused'[c]
    BY <2>1
  <2>4. ASSUME conn[c].phase # "off", NEW f \in Committed, f \notin Coming(a)', f \in Coming(a)
        PROVE  f \in seen[a] \/ f \in Answered(c)'
    <3>1. a = i
      <4> SUFFICES ASSUME a # i PROVE FALSE
        OBVIOUS
      <4>1. notify'[a] = notify[a]
        BY <2>1 DEF TypeOK
      <4> QED BY <1>1, <2>4, <4>1 DEF Coming, Local
    <3>2. notify'[i] = SubSeq(notify[i], 1, k)
      BY <2>1 DEF TypeOK
    <3>3. Contains(notify[i], f) => Contains(notify'[i], f) \/ f \in ToSet(SubSeq(notify[i], k + 1, Len(notify[i])))
      BY <1>1, <3>2, Queued
    <3>4. f \in ToSet(SubSeq(notify[i], k + 1, Len(notify[i]))) /\ f \notin Local(i)
      BY <1>1, <2>4, <3>1, <3>3 DEF Coming, Local
    <3>5. c \in RegisteredAt(i)
      BY <1>0, <2>4, <3>1 DEF RegisteredAt
    <3>6. f \in seen[i] \/ f \in excused'[c]
      BY <2>1, <3>4, <3>5
    <3> QED BY <3>1, <3>6 DEF Answered, Account
  <2>5. conn[c].phase # "off" =>
          \A f \in Committed' : f \in seen'[conn[c].at] \/ f \notin Coming(conn[c].at)' =>
               \/ f \in Committed /\ (f \in seen[conn[c].at] \/ f \notin Coming(conn[c].at))
               \/ f \in Answered(c)'
    BY <1>0, <1>1, <2>2, <2>4
  <2> QED BY <1>1, <2>2, <2>3, <2>5, ClientSame
<1>4. CASE Watch_Listens(i) \/ Watch_Returns(i)
  <2>1. LogSame /\ UNCHANGED <<conn, excused>>
    BY <1>1, <1>4 DEF Watch_Listens, Watch_Returns, LogSame
  <2> QED BY <1>1, <2>1, ClientApart
<1> QED BY <1>2, <1>3, <1>4

\* A restart ends the streams of its process, and the others get nothing from
\* it any more but what was notified.
LEMMA RestartClients ==
  ASSUME TypeOK, TypeOK', Log, NEW c \in Clients, Client(c), NEW i \in Instances, Restart(i)
  PROVE  Client(c)'
<1>0. PICK a \in Instances : a = conn[c].at
  BY TypeFacts, Streams
<1>1. UNCHANGED <<cursor, covered, excused>> /\ conn'[c] = IF c \in RegisteredAt(i) THEN NoStream ELSE conn[c]
  BY DEF Restart, clientVars
<1>2. Committed' = Committed /\ Born' = Born
  BY RestartEvents
<1>3. Real' \subseteq Real
  <2>1. \A f \in Ids : event'[f] = event[f] \/ event[f].st \in {"inserting", "stored"}
    BY RestartEvents
  <2> QED BY <1>2, <2>1 DEF Real, Born
<1>4. CASE c \in RegisteredAt(i)
  BY <1>1, <1>2, <1>3, <1>4, ClientOff
<1>5. CASE c \notin RegisteredAt(i)
  <2>1. ASSUME conn[c].phase # "off", NEW f \in Committed, f \in Coming(a)
        PROVE  f \in Coming(a)' /\ seen'[a] = seen[a]
    <3>1. a # i
      BY <1>0, <1>5, <2>1 DEF RegisteredAt
    <3>2. notify'[a] = notify[a] /\ seen'[a] = seen[a]
      BY <3>1 DEF Restart, TypeOK
    <3>3. f \in Ids /\ event[f].st \notin {"inserting", "doubtful"}
      BY DEF Committed
    <3>4. event'[f] = event[f] \/ event[f].at = i
      BY <3>3, RestartEvents
    <3> QED BY <2>1, <3>1, <3>2, <3>3, <3>4 DEF Coming, Local
  <2>2. conn[c].phase # "off" => seen'[a] = seen[a]
    BY <1>0, <1>5 DEF RegisteredAt, Restart, TypeOK
  <2>3. conn[c].phase # "off" =>
          \A f \in Committed' : f \in seen'[conn[c].at] \/ f \notin Coming(conn[c].at)' =>
               f \in Committed /\ (f \in seen[conn[c].at] \/ f \notin Coming(conn[c].at))
    BY <1>0, <1>1, <1>2, <1>5, <2>1, <2>2
  <2> QED BY <1>1, <1>2, <1>3, <1>5, <2>3, ClientSame
<1> QED BY <1>4, <1>5

\* What every client is owed, in every state.
LEMMA ClientInv == Spec => [](\A c \in Clients : Client(c))
<1>1. Init => \A c \in Clients : Client(c)
  <2> SUFFICES ASSUME Init, NEW c \in Clients PROVE Client(c)
    OBVIOUS
  <2>1. conn[c] = NoStream /\ covered[c] = 1..cursor[c] /\ cursor[c] \in 0..History
    BY DEF Init
  <2>2. \A e \in Ids : e <= History => event[e].st = "published"
    <3>1. \A e \in Ids : e <= History => event[e] = Done("published")
      BY DEF Init
    <3> QED BY <3>1, EventStates
  <2>3. Frames(c) /\ Replay(c) /\ Channel(c) /\ Reached(c)
    BY <2>1, Streams, EmptySeq DEF Frames, Replay, Channel, Reached, IsInjective
  <2>4. Cursor(c)
    <3>1. cursor[c] = 0 \/ (cursor[c] \in Ids /\ cursor[c] <= History)
      BY <2>1, Bounds DEF Ids
    <3>2. \A f \in Real : f \in Ids /\ f \in Nat
      BY Bounds DEF Real, Born
    <3>3. \A f \in Ids : f <= cursor[c] => f \in 1..cursor[c]
      BY <2>1, Bounds DEF Ids
    <3> QED BY <2>1, <2>2, <3>1, <3>2, <3>3 DEF Cursor, Account, Born
  <2> QED BY <2>3, <2>4 DEF Client
<1>2. TypeOK /\ TypeOK' /\ Log /\ (\A c \in Clients : Client(c)) /\ [Next]_vars => (\A c \in Clients : Client(c))'
  <2> SUFFICES ASSUME TypeOK, TypeOK', Log, \A c \in Clients : Client(c), [Next]_vars
               PROVE  \A c \in Clients : Client(c)'
    OBVIOUS
  <2>1. CASE UNCHANGED vars
    BY <2>1, ClientApart DEF vars, LogSame
  <2>2. CASE Next
    BY <2>2, PublishClients, WatchClients, RestartClients, HandlerClients DEF Next, Publishing
  <2> QED BY <2>1, <2>2
<1>3. Counts => TypeOK
  BY DEF Counts
<1> QED BY <1>1, <1>2, <1>3, CountsInv, LogInv, PTL DEF Spec

\* Events whose publisher got an error.
GivenUp == {e \in Ids : event[e].st \in {"doubtful", "unanswered", "failed"}}

\* A bare copy is of an event whose publisher got an error, and is sent to a
\* channel and written at most once; a frame with an id is of a committed event.
Copies(c) ==
    /\ IsInjective(conn[c].bare)
    /\ \A n \in DOMAIN conn[c].bare : conn[c].bare[n] \in GivenUp
    /\ \A p \in DOMAIN conn[c].chan : conn[c].chan[p] \notin Ids =>
         /\ Bare(conn[c].chan[p]) \in GivenUp
         /\ \A n \in DOMAIN conn[c].bare : conn[c].bare[n] # Bare(conn[c].chan[p])
         /\ \A q \in DOMAIN conn[c].chan : conn[c].chan[q] = conn[c].chan[p] => q = p
    /\ \A n \in DOMAIN conn[c].wrote : conn[c].wrote[n] \in Committed

\* What was given up stays so, and so does what was committed.
LEMMA GivenUpGrows ==
  ASSUME TypeOK, [Next]_vars
  PROVE  GivenUp \subseteq GivenUp' /\ Committed \subseteq Committed'
<1>1. CASE UNCHANGED event
  BY <1>1 DEF GivenUp, Committed
<1>2. ASSUME NEW i \in Instances, Append_Draw(i) PROVE GivenUp \subseteq GivenUp' /\ Committed \subseteq Committed'
  <2> DEFINE new == Min(Ids \ Born)
  <2>1. new \in Ids /\ new \notin Born
    BY <1>2, Bounds, LeastNat DEF Append_Draw, Born
  <2>2. event' = [event EXCEPT ![new] = [st |-> "inserting", at |-> i]]
    BY <1>2 DEF Append_Draw
  <2> HIDE DEF new
  <2>3. \A f \in Ids : f # new => event'[f] = event[f]
    BY <2>2 DEF TypeOK
  <2> QED BY <2>1, <2>3 DEF GivenUp, Committed, Born
<1>3. ASSUME NEW e \in Ids, Append_Commit(e) PROVE GivenUp \subseteq GivenUp' /\ Committed \subseteq Committed'
  BY <1>3, CommitMoves DEF GivenUp
<1>4. ASSUME NEW e \in Ids, Append_Fails(e) PROVE GivenUp \subseteq GivenUp' /\ Committed \subseteq Committed'
  BY <1>4, FailMoves DEF GivenUp
<1>5. ASSUME NEW e \in Ids, Append_RollsBack(e) \/ Publish_FanOut(e)
      PROVE  GivenUp \subseteq GivenUp' /\ Committed \subseteq Committed'
  BY <1>5, EndMoves DEF GivenUp
<1>6. ASSUME NEW i \in Instances, Restart(i) PROVE GivenUp \subseteq GivenUp' /\ Committed \subseteq Committed'
  BY <1>6, RestartEvents DEF GivenUp
<1>7. ASSUME NEW i \in Instances, Watch_Relay(i) \/ Watch_Drops(i) \/ Watch_Listens(i) \/ Watch_Returns(i)
      PROVE  UNCHANGED event
  BY <1>7 DEF Watch_Relay, Watch_Drops, Watch_Listens, Watch_Returns, storeVars
<1>8. ASSUME NEW c \in Clients,
             \/ ListAfter_Check(c) \/ ListAfter_Load(c) \/ Events_WriteReplay(c) \/ Events_WriteLive(c)
             \/ Events_Tick(c) \/ Disconnect(c) \/ GoHalfOpen(c) \/ LeaveHousehold(c)
             \/ \E i \in Instances : Events_Subscribe(c, i) \/ Events_Return(i, c)
      PROVE  UNCHANGED event
  BY <1>8 DEF ListAfter_Check, ListAfter_Load, Events_WriteReplay, Events_WriteLive, Events_Tick,
              Disconnect, GoHalfOpen, LeaveHousehold, Events_Subscribe, Events_Return, storeVars
<1>9. ASSUME NEW e \in Ids, Append_Prune(e) PROVE UNCHANGED event
  BY <1>9 DEF Append_Prune
<1>10. UNCHANGED vars => UNCHANGED event
  BY DEF vars
<1> QED BY <1>1, <1>2, <1>3, <1>4, <1>5, <1>6, <1>7, <1>8, <1>9, <1>10 DEF Next

\* A stream whose frames stay, and whose channel gets at most a new event: one
\* with its id, or the copy of one that is given up only now.
LEMMA CopiesKept ==
  ASSUME NEW c \in Clients, Copies(c), GivenUp \subseteq GivenUp', Committed \subseteq Committed',
         conn'[c].bare = conn[c].bare, conn'[c].wrote = conn[c].wrote,
         \A n \in DOMAIN conn[c].chan : n \in DOMAIN conn'[c].chan /\ conn'[c].chan[n] = conn[c].chan[n],
         \A n, m \in DOMAIN conn'[c].chan \ DOMAIN conn[c].chan : n = m,
         \A n \in DOMAIN conn'[c].chan \ DOMAIN conn[c].chan :
            conn'[c].chan[n] \in Ids \/ (Bare(conn'[c].chan[n]) \in GivenUp' /\ Bare(conn'[c].chan[n]) \notin GivenUp)
  PROVE  Copies(c)'
<1>1. ASSUME NEW p \in DOMAIN conn'[c].chan, conn'[c].chan[p] \notin Ids
      PROVE  /\ Bare(conn'[c].chan[p]) \in GivenUp'
             /\ \A n \in DOMAIN conn[c].bare : conn[c].bare[n] # Bare(conn'[c].chan[p])
             /\ \A q \in DOMAIN conn'[c].chan : conn'[c].chan[q] = conn'[c].chan[p] => q = p
  <2>1. CASE p \in DOMAIN conn[c].chan
    <3>1. conn'[c].chan[p] = conn[c].chan[p] /\ Bare(conn[c].chan[p]) \in GivenUp
      BY <1>1, <2>1 DEF Copies
    <3> QED BY <1>1, <2>1, <3>1 DEF Copies
  <2>2. CASE p \notin DOMAIN conn[c].chan
    <3>1. Bare(conn'[c].chan[p]) \in GivenUp' /\ Bare(conn'[c].chan[p]) \notin GivenUp
      BY <1>1, <2>2
    <3>2. ASSUME NEW q \in DOMAIN conn'[c].chan, conn'[c].chan[q] = conn'[c].chan[p] PROVE q = p
      <4>1. q \notin DOMAIN conn[c].chan
        BY <1>1, <3>1, <3>2 DEF Copies
      <4> QED BY <2>2, <4>1
    <3> QED BY <3>1, <3>2 DEF Copies
  <2> QED BY <2>1, <2>2
<1> QED BY <1>1 DEF Copies

\* A stream that is not there has written nothing.
LEMMA CopiesOff ==
  ASSUME NEW c \in Clients, conn'[c].chan = <<>>, conn'[c].bare = <<>>, conn'[c].wrote = <<>>
  PROVE  Copies(c)'
BY EmptySeq DEF Copies, IsInjective

\* A fan-out brings a channel at most its event.
LEMMA FannedCopies ==
  ASSUME TypeOK, [Next]_vars, NEW c \in Clients, Copies(c), NEW i \in Instances, NEW e \in Frame, deliver(i, e),
         e \in Ids \/ (Bare(e) \in GivenUp' /\ Bare(e) \notin GivenUp)
  PROVE  Copies(c)'
<1>1. /\ conn'[c].wrote = conn[c].wrote /\ conn'[c].bare = conn[c].bare
      /\ \A n \in DOMAIN conn[c].chan : n \in DOMAIN conn'[c].chan /\ conn'[c].chan[n] = conn[c].chan[n]
      /\ \A n \in DOMAIN conn'[c].chan \ DOMAIN conn[c].chan : conn'[c].chan[n] = e
  BY Offer
<1>2. \A n, m \in DOMAIN conn'[c].chan \ DOMAIN conn[c].chan : n = m
  <2>1. conn[c] \in StreamType /\ conn[c].chan \in Seq(Frame)
    BY TypeFacts, Streams
  <2>2. CASE conn'[c] = conn[c]
    BY <2>2
  <2>3. CASE Len(conn[c].chan) < ChannelCap /\ conn'[c] = [conn[c] EXCEPT !.chan = Append(@, e)]
    <3> DEFINE ch == conn[c].chan
    <3>1. conn'[c].chan = Append(ch, e)
      BY <2>1, <2>3, Pushed
    <3>2. ch \in Seq(Frame)
      BY <2>1
    <3> HIDE DEF ch
    <3>3. Len(ch) \in Nat /\ DOMAIN ch = 1..Len(ch) /\ DOMAIN Append(ch, e) = 1..Len(ch) + 1
      BY <3>2, AppendProperties, LenProperties
    <3>4. \A n \in DOMAIN Append(ch, e) \ DOMAIN ch : n = Len(ch) + 1
      BY <3>3
    <3> QED BY <3>1, <3>4 DEF ch
  <2>4. UNCHANGED conn \/ conn' = Offered(i, e)
    BY DEF deliver
  <2> QED BY <2>2, <2>3, <2>4 DEF Offered
<1> QED BY <1>1, <1>2, GivenUpGrows, CopiesKept

\* The first event of the channel leaves it, and joins the frames.
LEMMA WriteLiveCopies ==
  ASSUME TypeOK, [Next]_vars, NEW c \in Clients, Client(c), Copies(c), Events_WriteLive(c)
  PROVE  Copies(c)'
<1> DEFINE ch == conn[c].chan
           e == Head(ch)
           b == conn[c].bare
           w == conn[c].wrote
<1>1. /\ ch # <<>> /\ e \in Frame /\ conn'[c].chan = Tail(ch)
      /\ conn'[c].bare = IF e \in Ids THEN b ELSE Append(b, Bare(e))
      /\ conn'[c].wrote = w \/ (e \in Ids /\ conn'[c].wrote = Append(w, e))
  BY WriteLiveStep
<1>2. ch \in Seq(Frame) /\ b \in Seq(Ids) /\ w \in Seq(Ids)
  BY TypeFacts, Streams
<1>3. GivenUp \subseteq GivenUp' /\ Committed \subseteq Committed'
  BY GivenUpGrows
<1>4. /\ IsInjective(b)
      /\ \A n \in DOMAIN b : b[n] \in GivenUp
      /\ \A p \in DOMAIN ch : ch[p] \notin Ids =>
           /\ Bare(ch[p]) \in GivenUp
           /\ \A n \in DOMAIN b : b[n] # Bare(ch[p])
           /\ \A q \in DOMAIN ch : ch[q] = ch[p] => q = p
      /\ \A n \in DOMAIN w : w[n] \in Committed
  BY DEF Copies
<1>5. \A p \in DOMAIN ch : ch[p] \in Ids => ch[p] \in Committed
  BY DEF Client, Channel
<1> HIDE DEF b, w
<1>6. /\ Len(ch) \in Nat /\ Len(ch) > 0 /\ DOMAIN ch = 1..Len(ch) /\ ch[1] = e
      /\ DOMAIN Tail(ch) = 1..Len(ch) - 1
      /\ \A n \in 1..Len(ch) - 1 : Tail(ch)[n] = ch[n + 1]
  BY <1>1, <1>2, HeadTailProperties, LenProperties, EmptySeq
<1> HIDE DEF e, ch
<1>7. 1 \in DOMAIN ch
  BY <1>6
<1>8. \A n \in DOMAIN conn'[c].wrote : conn'[c].wrote[n] \in Committed'
  <2>1. CASE conn'[c].wrote = w
    BY <1>3, <1>4, <2>1
  <2>2. CASE e \in Ids /\ conn'[c].wrote = Append(w, e)
    <3>1. e \in Committed
      BY <1>5, <1>6, <1>7, <2>2
    <3>2. /\ Len(w) \in Nat /\ DOMAIN w = 1..Len(w) /\ DOMAIN Append(w, e) = 1..Len(w) + 1
          /\ \A n \in 1..Len(w) : Append(w, e)[n] = w[n]
          /\ Append(w, e)[Len(w) + 1] = e
      BY <1>2, <2>2, AppendProperties, LenProperties
    <3>3. \A n \in 1..Len(w) + 1 : n \in 1..Len(w) \/ n = Len(w) + 1
      BY <3>2
    <3> QED BY <1>3, <1>4, <2>2, <3>1, <3>2, <3>3
  <2> QED BY <1>1, <2>1, <2>2
<1>9. ASSUME NEW p \in DOMAIN Tail(ch), Tail(ch)[p] \notin Ids
      PROVE  /\ Bare(Tail(ch)[p]) \in GivenUp'
             /\ \A n \in DOMAIN b : b[n] # Bare(Tail(ch)[p])
             /\ Tail(ch)[p] # e
             /\ \A q \in DOMAIN Tail(ch) : Tail(ch)[q] = Tail(ch)[p] => q = p
  <2>1. p \in Nat /\ p + 1 \in DOMAIN ch /\ Tail(ch)[p] = ch[p + 1] /\ p + 1 # 1
    BY <1>6
  <2>2. ASSUME NEW q \in DOMAIN Tail(ch), Tail(ch)[q] = Tail(ch)[p] PROVE q = p
    <3>1. q \in Nat /\ q + 1 \in DOMAIN ch /\ Tail(ch)[q] = ch[q + 1]
      BY <1>6
    <3>2. q + 1 = p + 1
      BY <1>4, <1>9, <2>1, <2>2, <3>1
    <3> QED BY <2>1, <3>1, <3>2
  <2>3. Tail(ch)[p] # e
    BY <1>4, <1>6, <1>7, <1>9, <2>1
  <2> QED BY <1>3, <1>4, <1>9, <2>1, <2>2, <2>3
<1>10. CASE e \in Ids
  BY <1>1, <1>3, <1>4, <1>8, <1>9, <1>10 DEF Copies
<1>11. CASE e \notin Ids
  <2> DEFINE x == Bare(e)
  <2>1. x \in Ids /\ x \in GivenUp /\ Bare(x) = e /\ \A n \in DOMAIN b : b[n] # x
    BY <1>1, <1>4, <1>6, <1>7, <1>11, Bounds
  <2>2. conn'[c].bare = Append(b, x)
    BY <1>1, <1>11
  <2>3. ASSUME NEW p \in DOMAIN Tail(ch), Tail(ch)[p] \notin Ids PROVE Bare(Tail(ch)[p]) # x
    <3>1. Tail(ch)[p] \in Frame
      <4>1. Tail(ch) \in Seq(Frame)
        BY <1>1, <1>2, HeadTailProperties
      <4> QED BY <4>1, <1>6, ElementOfSeq, LenProperties
    <3>2. Bare(Bare(Tail(ch)[p])) = Tail(ch)[p] /\ Bare(x) = e
      BY <2>1, <2>3, <3>1, Bounds
    <3> QED BY <1>9, <2>3, <3>2
  <2> HIDE DEF x
  <2>4. /\ IsInjective(Append(b, x)) /\ \A n \in DOMAIN Append(b, x) : Append(b, x)[n] \in (GivenUp \ {x}) \cup {x}
    <3>1. \A n \in DOMAIN b : b[n] \in GivenUp \ {x}
      BY <1>4, <2>1
    <3> QED BY <1>2, <1>4, <2>1, <3>1, OneMoreFrame
  <2>5. \A n \in DOMAIN Append(b, x) : (n \in DOMAIN b /\ Append(b, x)[n] = b[n]) \/ Append(b, x)[n] = x
    <3>1. /\ Len(b) \in Nat /\ DOMAIN b = 1..Len(b) /\ DOMAIN Append(b, x) = 1..Len(b) + 1
          /\ \A n \in 1..Len(b) : Append(b, x)[n] = b[n]
          /\ Append(b, x)[Len(b) + 1] = x
      BY <1>2, <2>1, AppendProperties, LenProperties
    <3>2. \A n \in 1..Len(b) + 1 : n \in 1..Len(b) \/ n = Len(b) + 1
      BY <3>1
    <3> QED BY <3>1, <3>2
  <2>6. \A n \in DOMAIN Append(b, x) : Append(b, x)[n] \in GivenUp'
    BY <1>3, <2>1, <2>4
  <2>7. \A p \in DOMAIN Tail(ch) : Tail(ch)[p] \notin Ids =>
          \A n \in DOMAIN Append(b, x) : Append(b, x)[n] # Bare(Tail(ch)[p])
    BY <1>9, <2>3, <2>5
  <2> QED BY <1>1, <1>8, <1>9, <2>2, <2>4, <2>6, <2>7 DEF Copies
<1> QED BY <1>10, <1>11

\* A stream whose channel and frames are as before.
LEMMA CopiesSame ==
  ASSUME TypeOK, [Next]_vars, NEW c \in Clients, Copies(c), conn'[c].chan = conn[c].chan,
         conn'[c].bare = conn[c].bare, conn'[c].wrote = conn[c].wrote
  PROVE  Copies(c)'
<1>1. GivenUp \subseteq GivenUp' /\ Committed \subseteq Committed'
  BY GivenUpGrows
<1>2. /\ \A n \in DOMAIN conn[c].chan : n \in DOMAIN conn'[c].chan /\ conn'[c].chan[n] = conn[c].chan[n]
      /\ DOMAIN conn'[c].chan \ DOMAIN conn[c].chan = {}
  OBVIOUS
<1> QED BY <1>1, <1>2, CopiesKept

\* The smallest row of the replay joins the frames, and it was committed.
LEMMA WriteReplayCopies ==
  ASSUME TypeOK, [Next]_vars, NEW c \in Clients, Client(c), Copies(c), Events_WriteReplay(c)
  PROVE  Copies(c)'
<1> DEFINE e == Min(conn[c].replay)
           w == conn[c].wrote
<1>1. /\ conn'[c].chan = conn[c].chan /\ conn'[c].bare = conn[c].bare
      /\ conn'[c].wrote = Append(w, e) /\ e \in conn[c].replay /\ e \in Ids
  BY WriteReplayStep
<1>2. e \in Committed
  BY <1>1 DEF Client, Replay
<1>3. GivenUp \subseteq GivenUp' /\ Committed \subseteq Committed'
  BY GivenUpGrows
<1>4. w \in Seq(Ids) /\ \A n \in DOMAIN w : w[n] \in Committed
  BY TypeFacts, Streams DEF Copies
<1> HIDE DEF e, w
<1>5. \A n \in DOMAIN Append(w, e) : Append(w, e)[n] \in Committed'
  <2>1. /\ Len(w) \in Nat /\ DOMAIN w = 1..Len(w) /\ DOMAIN Append(w, e) = 1..Len(w) + 1
        /\ \A n \in 1..Len(w) : Append(w, e)[n] = w[n]
        /\ Append(w, e)[Len(w) + 1] = e
    BY <1>1, <1>4, AppendProperties, LenProperties
  <2>2. \A n \in 1..Len(w) + 1 : n \in 1..Len(w) \/ n = Len(w) + 1
    BY <2>1
  <2> QED BY <1>2, <1>3, <1>4, <2>1, <2>2
<1> QED BY <1>1, <1>3, <1>5 DEF Copies

\* The handler touches the frames of its own stream only, and there it writes,
\* starts afresh or leaves them.
LEMMA HandlerCopies ==
  ASSUME TypeOK, [Next]_vars, \A d \in Clients : Client(d) /\ Copies(d), NEW c \in Clients,
         \/ ListAfter_Check(c) \/ ListAfter_Load(c) \/ Events_WriteReplay(c) \/ Events_WriteLive(c)
         \/ Events_Tick(c) \/ Disconnect(c) \/ GoHalfOpen(c) \/ LeaveHousehold(c)
         \/ \E i \in Instances : Events_Subscribe(c, i) \/ Events_Return(i, c)
  PROVE  \A d \in Clients : Copies(d)'
<1>1. ASSUME OnlyStream(c), Copies(c)' PROVE \A d \in Clients : Copies(d)'
  <2>1. \A d \in Clients \ {c} : conn'[d] = conn[d]
    BY <1>1 DEF OnlyStream
  <2>2. \A d \in Clients \ {c} : Copies(d)'
    BY <2>1, CopiesSame
  <2> QED BY <1>1, <2>2
<1>2. ASSUME conn' = [conn EXCEPT ![c] = NoStream] PROVE \A d \in Clients : Copies(d)'
  BY <1>1, <1>2, OneOff, Streams, CopiesOff
<1>3. CASE ListAfter_Check(c)
  <2>1. CASE Expired(cursor[c])
    BY <1>2, <1>3, <2>1 DEF ListAfter_Check
  <2>2. CASE ~Expired(cursor[c])
    BY <1>1, <1>3, <2>2, CheckStep, CopiesSame
  <2> QED BY <2>1, <2>2
<1>4. CASE ListAfter_Load(c)
  BY <1>1, <1>4, LoadStep, CopiesSame
<1>5. CASE Events_WriteReplay(c)
  BY <1>1, <1>5, WriteReplayStep, WriteReplayCopies
<1>6. CASE Events_WriteLive(c)
  BY <1>1, <1>6, WriteLiveStep, WriteLiveCopies
<1>7. CASE Events_Tick(c)
  BY <1>1, <1>2, <1>7, TickStep, CopiesSame
<1>8. CASE Disconnect(c) \/ GoHalfOpen(c)
  BY <1>2, <1>8 DEF Disconnect, GoHalfOpen
<1>9. CASE LeaveHousehold(c)
  BY <1>1, <1>9, LeaveStep, CopiesSame
<1>10. CASE \E i \in Instances : Events_Subscribe(c, i)
  BY <1>1, <1>10, SubscribeStep, CopiesOff
<1>11. CASE \E i \in Instances : Events_Return(i, c)
  <2>1. UNCHANGED conn
    BY <1>11 DEF Events_Return
  <2> QED BY <2>1, CopiesSame
<1> QED BY <1>3, <1>4, <1>5, <1>6, <1>7, <1>8, <1>9, <1>10, <1>11

\* Bare copies come from failing appends only, one for each.
LEMMA CopiesInv == Spec => [](\A c \in Clients : Copies(c))
<1>1. Init => \A c \in Clients : Copies(c)
  <2> SUFFICES ASSUME Init, NEW c \in Clients PROVE Copies(c)
    OBVIOUS
  <2>1. conn[c].chan = <<>> /\ conn[c].bare = <<>> /\ conn[c].wrote = <<>>
    BY Streams DEF Init
  <2> QED BY <2>1, EmptySeq DEF Copies, IsInjective
<1>2. TypeOK /\ (\A c \in Clients : Client(c)) /\ (\A c \in Clients : Copies(c)) /\ [Next]_vars
        => (\A c \in Clients : Copies(c))'
  <2> SUFFICES ASSUME TypeOK, \A c \in Clients : Client(c), \A c \in Clients : Copies(c), [Next]_vars
               PROVE  \A c \in Clients : Copies(c)'
    OBVIOUS
  <2>1. ASSUME UNCHANGED conn PROVE \A c \in Clients : Copies(c)'
    BY <2>1, CopiesSame
  <2>2. ASSUME NEW i \in Instances, NEW e \in Frame, deliver(i, e),
               e \in Ids \/ (Bare(e) \in GivenUp' /\ Bare(e) \notin GivenUp)
        PROVE  \A c \in Clients : Copies(c)'
    BY <2>2, FannedCopies
  <2>3. ASSUME NEW i \in Instances,
               Append_Draw(i) \/ Watch_Drops(i) \/ Watch_Listens(i) \/ Watch_Returns(i)
        PROVE  UNCHANGED conn
    BY <2>3 DEF Append_Draw, Watch_Drops, Watch_Listens, Watch_Returns
  <2>4. ASSUME NEW e \in Ids, Append_Commit(e) \/ Append_RollsBack(e) \/ Append_Prune(e)
        PROVE  UNCHANGED conn
    BY <2>4 DEF Append_Commit, Append_RollsBack, Append_Prune
  <2>5. ASSUME NEW i \in Instances, Watch_Relay(i) PROVE \A c \in Clients : Copies(c)'
    <3>1. Head(notify[i]) \in Ids /\ Head(notify[i]) \in Frame
      BY <2>5, HeadTailProperties, Bounds DEF Watch_Relay, TypeOK
    <3>2. UNCHANGED conn \/ deliver(i, Head(notify[i]))
      BY <2>5 DEF Watch_Relay
    <3> QED BY <2>1, <2>2, <3>1, <3>2
  <2>6. ASSUME NEW i \in Instances, Restart(i) PROVE \A c \in Clients : Copies(c)'
    <3> SUFFICES ASSUME NEW c \in Clients PROVE Copies(c)'
      OBVIOUS
    <3>1. conn'[c] = NoStream \/ conn'[c] = conn[c]
      BY <2>6 DEF Restart
    <3> QED BY <3>1, Streams, CopiesOff, CopiesSame
  <2>7. ASSUME NEW e \in Ids, Append_Fails(e) PROVE \A c \in Clients : Copies(c)'
    <3>1. /\ event[e].st \in {"inserting", "stored"} /\ event'[e].st \in {"doubtful", "unanswered"}
          /\ deliver(event[e].at, Bare(e))
      BY <2>7, FailMoves DEF Append_Fails
    <3>2. Bare(e) \in Frame /\ Bare(Bare(e)) = e /\ event[e].at \in Instances
      BY TypeFacts, Bounds
    <3>3. e \in GivenUp' /\ e \notin GivenUp
      BY <3>1 DEF GivenUp
    <3> DEFINE x == Bare(e)
    <3>4. deliver(event[e].at, x) /\ x \in Frame /\ Bare(x) = e
      BY <3>1, <3>2
    <3> HIDE DEF x
    <3> QED BY <2>2, <3>2, <3>3, <3>4
  <2>8. ASSUME NEW e \in Ids, Publish_FanOut(e) PROVE \A c \in Clients : Copies(c)'
    <3>1. deliver(event[e].at, e) /\ event[e].at \in Instances /\ e \in Frame
      BY <2>8, TypeFacts, Bounds DEF Publish_FanOut
    <3> QED BY <2>2, <3>1
  <2>9. UNCHANGED vars => UNCHANGED conn
    BY DEF vars
  <2> QED BY <2>1, <2>3, <2>4, <2>5, <2>6, <2>7, <2>8, <2>9, HandlerCopies DEF Next
<1>3. Counts => TypeOK
  BY DEF Counts
<1> QED BY <1>1, <1>2, <1>3, CountsInv, ClientInv, PTL DEF Spec

\* Only the check takes a stream from registered to checked.
LEMMA CheckedOnlyThere ==
  ASSUME TypeOK, [Next]_vars, NEW c \in Clients, conn[c].phase = "registered", conn'[c].phase = "checked"
  PROVE  ListAfter_Check(c)
<1>1. conn'[c] # conn[c] /\ conn'[c] # NoStream
  BY Streams
<1>2. ~UNCHANGED conn
  BY <1>1
<1>3. ~(\E i \in Instances : Append_Draw(i) \/ Watch_Drops(i) \/ Watch_Listens(i) \/ Watch_Returns(i))
  BY <1>2 DEF Append_Draw, Watch_Drops, Watch_Listens, Watch_Returns
<1>4. ~(\E d \in Ids : Append_Commit(d) \/ Append_RollsBack(d) \/ Append_Prune(d))
  BY <1>2 DEF Append_Commit, Append_RollsBack, Append_Prune
<1>5. ~(\E i \in Instances, d \in Frame : deliver(i, d))
  BY Delivered
<1>6. ~(\E i \in Instances : Watch_Relay(i))
  <2> SUFFICES ASSUME NEW i \in Instances, Watch_Relay(i) PROVE FALSE
    OBVIOUS
  <2>1. Head(notify[i]) \in Frame
    BY HeadTailProperties, Bounds DEF Watch_Relay, TypeOK
  <2> QED BY <1>2, <1>5, <2>1 DEF Watch_Relay
<1>7. ~(\E d \in Ids : Append_Fails(d) \/ Publish_FanOut(d))
  BY <1>5, TypeFacts, Bounds DEF Append_Fails, Publish_FanOut
<1>8. ~(\E i \in Instances : Restart(i))
  BY <1>1 DEF Restart
<1>9. ASSUME NEW d \in Clients,
             \/ ListAfter_Load(d) \/ Events_WriteReplay(d) \/ Events_WriteLive(d)
             \/ Events_Tick(d) \/ Disconnect(d) \/ GoHalfOpen(d) \/ LeaveHousehold(d)
             \/ \E i \in Instances : Events_Subscribe(d, i)
      PROVE  FALSE
  <2>1. OnlyStream(d)
    BY <1>9, LoadStep, WriteReplayStep, WriteLiveStep, TickStep, OneOff, LeaveStep, SubscribeStep
       DEF Disconnect, GoHalfOpen
  <2>2. d = c
    BY <1>1, <2>1 DEF OnlyStream
  <2>3. CASE Events_Tick(d) \/ Disconnect(d) \/ GoHalfOpen(d)
    BY <1>1, <2>2, <2>3, TickStep, OneOff DEF Disconnect, GoHalfOpen
  <2> QED BY <1>9, <2>2, <2>3, LoadStep, WriteReplayStep, WriteLiveStep, LeaveStep, SubscribeStep
<1>10. ASSUME NEW d \in Clients, ListAfter_Check(d) PROVE d = c
  <2>1. OnlyStream(d)
    BY <1>10, CheckStep, OneOff DEF ListAfter_Check
  <2> QED BY <1>1, <2>1 DEF OnlyStream
<1>11. ~(\E d \in Clients, i \in Instances : Events_Return(i, d))
  BY <1>2 DEF Events_Return
<1>12. Next
  BY <1>2 DEF vars
<1> QED BY <1>3, <1>4, <1>6, <1>7, <1>8, <1>9, <1>10, <1>11, <1>12 DEF Next

-----------------------------------------------------------------------------
(***************************************************************************)
(* The theorems.                                                           *)
(***************************************************************************)
\* Every state of the stream has its type: a channel never exceeds its
\* capacity, a count never leaves 0..MaxUser and every row is a committed event
\* (Hub.Subscribe, Hub.deliver, PostgresStore.Append).
THEOREM TypeCorrect == Spec => []TypeOK
<1>1. Counts => TypeOK
  BY DEF Counts
<1> QED BY <1>1, CountsInv, PTL

\* A stream writes no event twice, except one that committed while its publisher
\* got an error: that one may come once bare and once with its id.  It strands
\* none, its viewer's lost membership ends it within a recheck period, one more
\* for each lookup that failed, and the connections are counted exactly, through
\* every interleaving of publishers, listeners, handlers, restarts and failures
\* (Hub.Publish, Hub.deliver, Events).
THEOREM StreamsAreSafe == Spec => []Safety
<1>1. ASSUME Counts, \A c \in Clients : Client(c), \A c \in Clients : Copies(c) PROVE Safety
  <2>1. TypeOK /\ CountersMatch /\ Aged
    BY <1>1 DEF Counts
  <2>2. NoDuplicateFrames
    <3> SUFFICES ASSUME NEW c \in Clients
                 PROVE  /\ IsInjective(conn[c].wrote) /\ IsInjective(conn[c].bare)
                        /\ \A e \in ToSet(conn[c].wrote) \cap ToSet(conn[c].bare) :
                              event[e].st = "unanswered"
      BY DEF NoDuplicateFrames
    <3>1. IsInjective(conn[c].wrote) /\ IsInjective(conn[c].bare)
      BY <1>1 DEF Client, Frames, Copies
    <3>2. ToSet(conn[c].wrote) \subseteq Committed /\ ToSet(conn[c].bare) \subseteq GivenUp
      BY <1>1 DEF Copies, ToSet
    <3>3. \A e \in Committed \cap GivenUp : event[e].st = "unanswered"
      BY DEF Committed, GivenUp
    <3> QED BY <3>1, <3>2, <3>3
  <2>3. StaleStreamsEnd
    <3> SUFFICES ASSUME NEW c \in Clients PROVE conn[c].stale < RecheckEvery * (1 + conn[c].missed)
      BY DEF StaleStreamsEnd
    <3> DEFINE k == RecheckEvery * conn[c].missed
               m == conn[c].missed
               s == conn[c].stale
               t == conn[c].ticks
    <3>1. m \in Nat /\ s \in Nat /\ t \in Nat /\ t + 1 <= RecheckEvery
      BY <2>1, TypeFacts, Streams
    <3>2. s <= t + k
      BY <2>1 DEF Aged, Within
    <3>3. k \in Nat /\ RecheckEvery * (m + 1) = k + RecheckEvery /\ RecheckEvery \in Nat
      BY <3>1, Periods, Bounds
    <3>4. RecheckEvery * (1 + m) = k + RecheckEvery
      <4>1. 1 + m = m + 1
        BY <3>1
      <4> QED BY <3>3, <4>1
    <3> HIDE DEF k, m, s, t
    <3>5. s < k + RecheckEvery
      BY <3>1, <3>2, <3>3
    <3> QED BY <3>4, <3>5 DEF m, s
  <2>4. NothingStranded
    <3> SUFFICES ASSUME NEW c \in Clients, NEW e \in Committed, conn[c].phase = "streaming",
                        e \notin Coming(conn[c].at)
                 PROVE  \/ e \in covered[c] \cup excused[c]
                        \/ e \in conn[c].replay \/ Contains(conn[c].chan, e)
      BY DEF NothingStranded
    <3>1. e \in Answered(c) \/ \E q \in DOMAIN conn[c].chan : conn[c].chan[q] = e
      BY <1>1 DEF Client, Reached
    <3>2. Due(c) = {}
      BY DEF Due
    <3>3. conn[c].chan \in Seq(Frame)
      BY <2>1, TypeFacts, Streams
    <3>4. DOMAIN conn[c].chan = 1..Len(conn[c].chan)
      BY <3>3, LenProperties
    <3> QED BY <3>1, <3>2, <3>4 DEF Answered, Account, Contains
  <2> QED BY <2>1, <2>2, <2>3, <2>4 DEF Safety
<1> QED BY <1>1, CountsInv, ClientInv, CopiesInv, PTL

\* A cursor never passes an event its client did not receive, but for the named
\* causes: it may be trusted as a replay point (Last-Event-ID).
THEOREM GapsAreKnown == Spec => []OnlyKnownGaps
<1>1. ASSUME \A c \in Clients : Client(c) PROVE OnlyKnownGaps
  <2>1. Committed \subseteq Real
    BY DEF Committed, Real, Born
  <2> QED BY <1>1, <2>1 DEF OnlyKnownGaps, Client, Cursor, Account
<1> QED BY <1>1, ClientInv, PTL

\* A cursor passes the check only while everything committed after it is still
\* in the log, whether or not the second statement of a pruning raised the floor
\* (PostgresStore.ListAfter).
THEOREM ExpiredAreTold == Spec => ExpiredCursorsAreTold
<1>1. TypeOK /\ Log /\ [Next]_vars =>
        [\A c \in Clients :
            conn[c].phase = "registered" /\ conn'[c].phase = "checked" /\ cursor[c] > 0
            => {e \in Committed : e > cursor[c]} \subseteq rows]_vars
  <2> SUFFICES ASSUME TypeOK, Log, [Next]_vars,
                      NEW c \in Clients, conn[c].phase = "registered", conn'[c].phase = "checked", cursor[c] > 0,
                      NEW e \in Committed, e > cursor[c], e \notin rows
               PROVE  FALSE
    OBVIOUS
  <2>1. ListAfter_Check(c)
    BY CheckedOnlyThere
  <2>2. ~Expired(cursor[c])
    BY <2>1, Streams DEF ListAfter_Check, TypeOK
  <2>3. rows # {} /\ \A f \in rows : ~(f <= e)
    BY TypeFacts DEF Log
  <2>4. Min(rows) \in rows /\ rows \subseteq Nat /\ e \in Nat /\ cursor[c] \in Nat
    BY <2>3, TypeFacts, Bounds, LeastNat
  <2>5. cursor[c] + 1 < Min(rows)
    <3>1. PICK m \in rows : m = Min(rows)
      BY <2>4
    <3>2. m \in Nat /\ ~(m <= e) /\ cursor[c] < e /\ e \in Nat /\ cursor[c] \in Nat
      BY <2>3, <2>4
    <3>3. cursor[c] + 1 < m
      BY <3>2
    <3> QED BY <3>1, <3>3
  <2> QED BY <2>2, <2>3, <2>5 DEF Expired
<1>2. Counts => TypeOK
  BY DEF Counts
<1> QED BY <1>1, <1>2, CountsInv, LogInv, PTL DEF Spec, ExpiredCursorsAreTold
==============================================================================
