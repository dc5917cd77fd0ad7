------------------------- MODULE WritePathProofs -------------------------
(***************************************************************************)
(* Theorems about Idempotency, for every set of attempts, keys, requests.  *)
(* The argument is the one of a lock: a claim takes a row no attempt in    *)
(* flight owns, and as long as handlers end within five minutes ("slow" is *)
(* excluded: Prompt) an attempt in flight owns a fresh 'processing' row.   *)
(* That no failure is replayed needs no lock; that a key has one effect    *)
(* and one answer needs it, and that nothing goes wrong.                   *)
(***************************************************************************)
EXTENDS Idempotency, Outbox, OrderLemmas

\* The tables keep their types when one entry is replaced by a well-typed one.
LEMMA BecomeTyped ==
  ASSUME TypeOK, NEW a \in Attempts, NEW s \in AttemptState, Become(a, s)
  PROVE  attempt' \in [Attempts -> AttemptState]
BY DEF TypeOK, Become

LEMMA RowTyped ==
  ASSUME NEW rows \in [Keys -> Row \cup {None}], NEW k \in Keys, NEW r \in Row \cup {None}
  PROVE  [rows EXCEPT ![k] = r] \in [Keys -> Row \cup {None}]
OBVIOUS

\* The state an answered attempt is left in.
LEMMA AnswerTyped ==
  ASSUME TypeOK, NEW a \in Attempts, NEW what \in Answers,
         NEW from \in Attempts \cup {None},
         attempt[a].phase # "idle", Answer(a, what, from)
  PROVE  attempt' \in [Attempts -> AttemptState]
<1>1. [attempt[a] EXCEPT !.phase = "answered", !.answer = what, !.response = from]
        \in AttemptState
  BY ZenonT(30) DEF TypeOK, AttemptState, Phases, Answer
<1> QED BY <1>1, BecomeTyped DEF Answer

LEMMA PurgedTyped ==
  ASSUME NEW rows \in [Keys -> Row \cup {None}]
  PROVE  Purged(rows) \in [Keys -> Row \cup {None}]
BY DEF Purged

\* A claim either writes a fresh 'processing' row and goes on to the handler,
\* or leaves the row to be replayed.
LEMMA ClaimCases ==
  ASSUME TypeOK, NEW a \in Attempts, NEW k \in Keys, NEW q \in Requests, Claim(a, k, q)
  PROVE  \E kept \in [Keys -> Row \cup {None}] :
           /\ kept = row \/ kept = Purged(row)
           /\ \/ /\ Claimable(kept[k])
                 /\ row' = [kept EXCEPT ![k] = [request |-> q, state |-> "processing",
                                                age |-> "fresh", response |-> None]]
                 /\ Become(a, [attempt[a] EXCEPT !.phase = "handler", !.key = k, !.request = q])
              \/ /\ ~Claimable(kept[k])
                 /\ row' = kept
                 /\ Become(a, [attempt[a] EXCEPT !.phase = "replay", !.key = k, !.request = q])
<1>1. Purged(row) \in [Keys -> Row \cup {None}]
  BY PurgedTyped DEF TypeOK
<1> QED BY <1>1 DEF Claim, TypeOK

\* Every reachable state is well typed, whatever the faults.
THEOREM TypeCorrect == Spec => []TypeOK
<1>1. Init => TypeOK
  BY NoneAssumption DEF Init, TypeOK, Row, AttemptState, Phases
<1>2. TypeOK /\ [Next]_vars => TypeOK'
  <2> SUFFICES ASSUME TypeOK, [Next]_vars PROVE TypeOK'
    OBVIOUS
  <2> faults' \in FaultSets
    BY DEF Next, TypeOK, vars
  <2>1. ASSUME NEW a \in Attempts, NEW k \in Keys, NEW q \in Requests, Claim(a, k, q)
        PROVE TypeOK'
    <3>1. PICK kept \in [Keys -> Row \cup {None}] :
           \/ /\ row' = [kept EXCEPT ![k] = [request |-> q, state |-> "processing",
                                             age |-> "fresh", response |-> None]]
              /\ Become(a, [attempt[a] EXCEPT !.phase = "handler", !.key = k, !.request = q])
           \/ /\ row' = kept
              /\ Become(a, [attempt[a] EXCEPT !.phase = "replay", !.key = k, !.request = q])
      BY <2>1, ClaimCases
    <3>2. [request |-> q, state |-> "processing", age |-> "fresh", response |-> None] \in Row
      BY DEF Row, Ages
    <3>3. row' \in [Keys -> Row \cup {None}]
      BY <3>1, <3>2, RowTyped
    <3>4. \A p \in {"handler", "replay"} :
            [attempt[a] EXCEPT !.phase = p, !.key = k, !.request = q] \in AttemptState
      BY ZenonT(30) DEF TypeOK, AttemptState, Phases
    <3>5. attempt' \in [Attempts -> AttemptState]
      BY <3>1, <3>4, BecomeTyped
    <3> QED BY <2>1, <3>3, <3>5 DEF Claim, TypeOK
  <2>2. ASSUME NEW a \in Attempts, NEW k \in Keys, NEW q \in Requests, ClaimError(a, k, q)
        PROVE TypeOK'
    <3>1. [attempt[a] EXCEPT !.phase = "answered", !.answer = "unavailable",
                             !.key = k, !.request = q] \in AttemptState
      BY ZenonT(30) DEF TypeOK, AttemptState, Phases, Answers
    <3> QED BY <2>2, <3>1, BecomeTyped DEF ClaimError, TypeOK
  <2>3. ASSUME NEW a \in Attempts, Replay(a) PROVE TypeOK'
    <3>1. PICK what \in Answers, from \in Attempts \cup {None} : Answer(a, what, from)
      <4>1. CASE row[attempt[a].key] \in Row
        BY <2>3, <4>1 DEF Replay, Answers, Row
      <4>2. CASE row[attempt[a].key] = None
        BY <2>3, <4>2 DEF Replay, Answers
      <4>3. attempt[a].key \in Keys
        BY <2>3 DEF Replay, InPhase, TypeOK, AttemptState
      <4> QED BY <4>1, <4>2, <4>3 DEF TypeOK
    <3> QED BY <2>3, <3>1, AnswerTyped DEF Replay, TypeOK, InPhase
  <2>4. ASSUME NEW a \in Attempts, ReplayError(a) PROVE TypeOK'
    BY <2>4, AnswerTyped DEF ReplayError, TypeOK, Answers, InPhase
  <2>5. ASSUME NEW a \in Attempts, Handle(a) PROVE TypeOK'
    <3>1. \A s \in Statuses :
            [attempt[a] EXCEPT !.phase = "finalize", !.status = s] \in AttemptState
      BY <2>5 DEF TypeOK, AttemptState, Phases, Handle, InPhase
    <3>2. attempt' \in [Attempts -> AttemptState]
      BY <2>5, <3>1, BecomeTyped DEF Handle, TypeOK
    <3>3. effects' \in [Keys -> SUBSET Attempts]
      <4>1. attempt[a].key \in Keys
        BY <2>5 DEF Handle, InPhase, TypeOK, AttemptState
      <4> QED BY <2>5, <4>1 DEF Handle, TypeOK
    <3> QED BY <2>5, <3>2, <3>3 DEF Handle, TypeOK
  <2>6. ASSUME NEW a \in Attempts, Release(a) PROVE TypeOK'
    <3>1. row' \in [Keys -> Row \cup {None}]
      BY <2>6, RowTyped DEF Release, TypeOK
    <3> QED BY <2>6, <3>1, AnswerTyped DEF Release, TypeOK, Answers, InPhase
  <2>7. ASSUME NEW a \in Attempts, Complete(a) PROVE TypeOK'
    <3> DEFINE k == attempt[a].key
    <3>1. k \in Keys /\ row[k] # None
            => [row[k] EXCEPT !.state = "completed", !.response = a] \in Row
      BY DEF TypeOK, Row
    <3>2. row' \in [Keys -> Row \cup {None}]
      BY <2>7, <3>1 DEF Complete, TypeOK
    <3> QED BY <2>7, <3>2, AnswerTyped DEF Complete, TypeOK, Answers, InPhase
  <2>8. ASSUME NEW a \in Attempts, CompleteError(a) PROVE TypeOK'
    BY <2>8, AnswerTyped DEF CompleteError, TypeOK, Answers, InPhase
  <2>9. ASSUME NEW a \in Attempts, Crash(a) PROVE TypeOK'
    <3>1. [attempt[a] EXCEPT !.phase = "crashed"] \in AttemptState
      BY <2>9 DEF TypeOK, AttemptState, Phases, Crash
    <3> QED BY <2>9, <3>1, BecomeTyped DEF Crash, TypeOK
  <2>10. ASSUME NEW k \in Keys, Age(k) PROVE TypeOK'
    <3>1. \A age \in Ages : row[k] # None => [row[k] EXCEPT !.age = age] \in Row
      BY DEF TypeOK, Row
    <3> QED BY <2>10, <3>1 DEF Age, TypeOK, Ages
  <2>11. CASE UNCHANGED vars
    BY <2>11 DEF vars, TypeOK
  <2> QED BY <2>1, <2>2, <2>3, <2>4, <2>5, <2>6, <2>7, <2>8, <2>9, <2>10, <2>11 DEF Next, Step
<1> QED BY <1>1, <1>2, PTL DEF Spec

-----------------------------------------------------------------------------
(***************************************************************************)
(* The inductive invariant behind the lock.                                *)
(***************************************************************************)
\* An attempt in flight owns its row: nobody can claim it.
Owned == \A k \in Keys : \A a \in InFlight(k) :
           /\ row[k] # None
           /\ row[k].state = "processing"
           /\ row[k].age = "fresh"
           /\ row[k].request = attempt[a].request

\* b's answer may be handed to another attempt with key k and request q.
Replayable(b, k, q) == /\ b \in Attempts
                       /\ attempt[b].phase = "answered"
                       /\ attempt[b].key = k
                       /\ attempt[b].request = q

\* A completed row holds the answer of an attempt for the row's request.
Stored == \A k \in Keys :
            row[k] # None /\ row[k].state = "completed"
              => Replayable(row[k].response, k, row[k].request)

\* An attempt that has an answer is done, and a replayed answer is frozen.
SettledAt(a) ==
    attempt[a].answer # None =>
       /\ attempt[a].phase = "answered"
       /\ attempt[a].answer = "replayed"
            => Replayable(attempt[a].response, attempt[a].key, attempt[a].request)
Settled == \A a \in Attempts : SettledAt(a)

LockInv == TypeOK /\ Exclusive /\ Owned /\ Stored /\ Settled

\* Become touches one attempt; what was replayable stays so if it was not the
\* one that moved.
LEMMA BecomeFrame ==
  ASSUME TypeOK, NEW a \in Attempts, NEW s, Become(a, s)
  PROVE  /\ attempt'[a] = s
         /\ \A b \in Attempts : b # a => attempt'[b] = attempt[b]
BY DEF TypeOK, Become

LEMMA ReplayableStays ==
  ASSUME TypeOK, NEW a \in Attempts, NEW s, Become(a, s), attempt[a].phase # "answered"
  PROVE  \A b, k, q : Replayable(b, k, q) => Replayable(b, k, q)'
BY BecomeFrame DEF Replayable

\* A step that leaves the table alone and moves attempt a towards its answer,
\* or out of the way, keeps the lock invariant.
LEMMA RowsUntouched ==
  ASSUME LockInv, NEW a \in Attempts, NEW s, Become(a, s), UNCHANGED row, TypeOK',
         attempt[a].phase \notin {"idle", "answered"},
         s.phase \in {"handler", "finalize"} => attempt[a].phase \in {"handler", "finalize"},
         s.key = attempt[a].key, s.request = attempt[a].request,
         s.answer # None =>
            /\ s.phase = "answered"
            /\ s.answer = "replayed" => Replayable(s.response, s.key, s.request)
  PROVE  LockInv'
<1>1. \A k \in Keys : InFlight(k)' \subseteq InFlight(k)
  BY BecomeFrame DEF LockInv, InFlight
<1>2. Exclusive'
  BY <1>1 DEF LockInv, Exclusive
<1>3. Owned'
  <2> SUFFICES ASSUME NEW k \in Keys, NEW b \in InFlight(k)'
               PROVE  /\ row[k] # None
                      /\ row[k].state = "processing"
                      /\ row[k].age = "fresh"
                      /\ row[k].request = attempt'[b].request
    BY DEF Owned
  <2>1. b \in Attempts /\ b \in InFlight(k)
    BY <1>1 DEF InFlight
  <2>2. attempt'[b].request = attempt[b].request
    BY <2>1, BecomeFrame DEF LockInv
  <2> QED BY <2>1, <2>2 DEF LockInv, Owned
<1>4. \A b, k, q : Replayable(b, k, q) => Replayable(b, k, q)'
  BY ReplayableStays DEF LockInv
<1>5. Stored'
  BY <1>4 DEF LockInv, Stored
<1>6. Settled'
  <2> SUFFICES ASSUME NEW b \in Attempts PROVE SettledAt(b)'
    BY DEF Settled
  <2>1. CASE b = a
    BY <2>1, <1>4, BecomeFrame DEF LockInv, SettledAt
  <2>2. CASE b # a
    BY <2>2, <1>4, BecomeFrame DEF LockInv, Settled, SettledAt
  <2> QED BY <2>1, <2>2
<1> QED BY <1>2, <1>3, <1>5, <1>6 DEF LockInv

\* A finalised attempt was the only one on its key; whatever it leaves in the
\* row, nobody else relied on it.
LEMMA RowReplaced ==
  ASSUME LockInv, NEW a \in Attempts, NEW s, Become(a, s), TypeOK',
         NEW r \in Row \cup {None}, row' = [row EXCEPT ![attempt[a].key] = r],
         attempt[a].phase = "finalize", s.phase = "answered", s.answer = "own",
         s.key = attempt[a].key, s.request = attempt[a].request,
         r # None /\ r.state = "completed"
           => r.response = a /\ r.request = attempt[a].request
  PROVE  LockInv'
<1>1. PICK k \in Keys : k = attempt[a].key /\ a \in InFlight(k)
  BY DEF LockInv, TypeOK, AttemptState, InFlight
<1>2. InFlight(k) = {a}
  BY <1>1 DEF LockInv, Exclusive
<1>3. InFlight(k)' = {}
  BY <1>1, <1>2, BecomeFrame DEF LockInv, InFlight
<1>4. \A l \in Keys : l # k => InFlight(l)' = InFlight(l) /\ row'[l] = row[l]
  BY <1>1, BecomeFrame DEF LockInv, InFlight, TypeOK
<1>5. Exclusive'
  BY <1>3, <1>4 DEF LockInv, Exclusive
<1>6. Owned'
  <2> SUFFICES ASSUME NEW l \in Keys, NEW b \in InFlight(l)'
               PROVE  /\ row'[l] # None
                      /\ row'[l].state = "processing"
                      /\ row'[l].age = "fresh"
                      /\ row'[l].request = attempt'[b].request
    BY DEF Owned
  <2>1. l # k /\ b \in InFlight(l) /\ row'[l] = row[l]
    BY <1>3, <1>4
  <2>2. b # a /\ attempt'[b] = attempt[b]
    BY <2>1, BecomeFrame DEF LockInv, InFlight
  <2> QED BY <2>1, <2>2 DEF LockInv, Owned
<1>7. \A b, l, q : Replayable(b, l, q) => Replayable(b, l, q)'
  BY ReplayableStays DEF LockInv
<1>8. Replayable(a, k, s.request)'
  BY <1>1, BecomeFrame DEF LockInv, Replayable
<1>9. Stored'
  BY <1>1, <1>4, <1>7, <1>8 DEF LockInv, Stored, TypeOK
<1>10. Settled'
  <2> SUFFICES ASSUME NEW b \in Attempts PROVE SettledAt(b)'
    BY DEF Settled
  <2>1. CASE b = a
    BY <2>1, <1>7, BecomeFrame DEF LockInv, SettledAt
  <2>2. CASE b # a
    BY <2>2, <1>7, BecomeFrame DEF LockInv, Settled, SettledAt
  <2> QED BY <2>1, <2>2
<1> QED BY <1>5, <1>6, <1>9, <1>10 DEF LockInv

\* A claim wins a row that nobody in flight owns.
LEMMA ClaimKeepsLock ==
  ASSUME LockInv, TypeOK', NEW a \in Attempts, NEW k \in Keys, NEW q \in Requests, Claim(a, k, q)
  PROVE  LockInv'
<1>1. PICK kept \in [Keys -> Row \cup {None}] :
           /\ kept = row \/ kept = Purged(row)
           /\ \/ /\ Claimable(kept[k])
                 /\ row' = [kept EXCEPT ![k] = [request |-> q, state |-> "processing",
                                                age |-> "fresh", response |-> None]]
                 /\ Become(a, [attempt[a] EXCEPT !.phase = "handler", !.key = k, !.request = q])
              \/ /\ ~Claimable(kept[k])
                 /\ row' = kept
                 /\ Become(a, [attempt[a] EXCEPT !.phase = "replay", !.key = k, !.request = q])
  BY ClaimCases DEF LockInv
<1>2. attempt[a].phase = "idle" /\ attempt[a] \in AttemptState
  BY DEF Claim, InPhase, LockInv, TypeOK
<1>3. \A l \in Keys : kept[l] # None => kept[l] = row[l]
  BY <1>1 DEF Purged
<1>4. \A l \in Keys : InFlight(l) # {} => kept[l] = row[l]
  BY <1>1 DEF Purged, LockInv, Owned
<1>5. \A b, l, p : Replayable(b, l, p) => Replayable(b, l, p)'
  BY <1>1, <1>2, ReplayableStays DEF LockInv
<1>6. Settled'
  <2> SUFFICES ASSUME NEW b \in Attempts PROVE SettledAt(b)'
    BY DEF Settled
  <2>1. CASE b = a
    <3>1. attempt[a].answer = None
      BY <1>2 DEF LockInv, Settled, SettledAt
    <3>2. \/ attempt'[a] = [attempt[a] EXCEPT !.phase = "handler", !.key = k, !.request = q]
          \/ attempt'[a] = [attempt[a] EXCEPT !.phase = "replay", !.key = k, !.request = q]
      BY <1>1, BecomeFrame DEF LockInv
    <3>3. attempt'[a].answer = None
      BY <1>2, <3>1, <3>2 DEF AttemptState
    <3> QED BY <2>1, <3>3 DEF SettledAt
  <2>2. CASE b # a
    BY <2>2, <1>1, <1>5, BecomeFrame DEF LockInv, Settled, SettledAt
  <2> QED BY <2>1, <2>2
<1>7. CASE Claimable(kept[k])
  <2>1. /\ row' = [kept EXCEPT ![k] = [request |-> q, state |-> "processing",
                                       age |-> "fresh", response |-> None]]
        /\ Become(a, [attempt[a] EXCEPT !.phase = "handler", !.key = k, !.request = q])
    BY <1>1, <1>7
  <2>2. InFlight(k) = {}
    BY <1>4, <1>7 DEF Claimable, LockInv, Owned
  <2>3. attempt'[a] = [attempt[a] EXCEPT !.phase = "handler", !.key = k, !.request = q]
    BY <2>1, BecomeFrame DEF LockInv
  <2>4. attempt'[a].phase = "handler" /\ attempt'[a].key = k /\ attempt'[a].request = q
    BY <2>3, <1>2 DEF AttemptState
  <2>5. InFlight(k)' = {a}
    BY <2>1, <2>2, <2>4, BecomeFrame DEF LockInv, InFlight
  <2>6. \A l \in Keys : l # k => InFlight(l)' = InFlight(l) /\ row'[l] = kept[l]
    BY <1>2, <2>1, <2>4, BecomeFrame DEF LockInv, InFlight
  <2>7. row'[k] = [request |-> q, state |-> "processing", age |-> "fresh", response |-> None]
    BY <2>1
  <2>8. Exclusive'
    BY <2>5, <2>6 DEF LockInv, Exclusive
  <2>9. Owned'
    <3> SUFFICES ASSUME NEW l \in Keys, NEW b \in InFlight(l)'
                 PROVE  /\ row'[l] # None
                        /\ row'[l].state = "processing"
                        /\ row'[l].age = "fresh"
                        /\ row'[l].request = attempt'[b].request
      BY DEF Owned
    <3>1. CASE l = k
      <4>1. row'[k] # None
        BY <2>7, NoneAssumption DEF Row, Ages
      <4> QED BY <4>1, <3>1, <2>4, <2>5, <2>7
    <3>2. CASE l # k
      <4>1. b \in InFlight(l) /\ row'[l] = row[l]
        BY <3>2, <2>6, <1>4
      <4>2. b # a /\ attempt'[b] = attempt[b]
        BY <4>1, <1>2, <2>1, BecomeFrame DEF LockInv, InFlight
      <4> QED BY <4>1, <4>2 DEF LockInv, Owned
    <3> QED BY <3>1, <3>2
  <2>10. Stored'
    BY <1>3, <1>5, <2>6, <2>7 DEF LockInv, Stored
  <2> QED BY <1>6, <2>8, <2>9, <2>10 DEF LockInv
<1>8. CASE ~Claimable(kept[k])
  <2>1. /\ row' = kept
        /\ Become(a, [attempt[a] EXCEPT !.phase = "replay", !.key = k, !.request = q])
    BY <1>1, <1>8
  <2>2. attempt'[a].phase = "replay"
    <3>1. attempt'[a] = [attempt[a] EXCEPT !.phase = "replay", !.key = k, !.request = q]
      BY <2>1, BecomeFrame DEF LockInv
    <3> QED BY <1>2, <3>1 DEF AttemptState
  <2>3. \A l \in Keys : InFlight(l)' = InFlight(l)
    BY <1>2, <2>1, <2>2, BecomeFrame DEF LockInv, InFlight
  <2>4. Exclusive'
    BY <2>3 DEF LockInv, Exclusive
  <2>5. Owned'
    <3> SUFFICES ASSUME NEW l \in Keys, NEW b \in InFlight(l)'
                 PROVE  /\ row'[l] # None
                        /\ row'[l].state = "processing"
                        /\ row'[l].age = "fresh"
                        /\ row'[l].request = attempt'[b].request
      BY DEF Owned
    <3>1. b \in InFlight(l) /\ row'[l] = row[l]
      BY <2>1, <2>3, <1>4
    <3>2. b # a /\ attempt'[b] = attempt[b]
      BY <3>1, <1>2, <2>1, BecomeFrame DEF LockInv, InFlight
    <3> QED BY <3>1, <3>2 DEF LockInv, Owned
  <2>6. Stored'
    BY <1>3, <1>5, <2>1 DEF LockInv, Stored
  <2> QED BY <1>6, <2>4, <2>5, <2>6 DEF LockInv
<1> QED BY <1>7, <1>8

\* An attempt that is past its claim answers without touching the table.
LEMMA AnswerKeepsLock ==
  ASSUME LockInv, TypeOK', NEW a \in Attempts, UNCHANGED row,
         attempt[a].phase \in {"handler", "finalize", "replay"},
         NEW what \in Answers, NEW from \in Attempts \cup {None}, Answer(a, what, from),
         what = "replayed" => Replayable(from, attempt[a].key, attempt[a].request)
  PROVE  LockInv'
<1> DEFINE s == [attempt[a] EXCEPT !.phase = "answered", !.answer = what, !.response = from]
<1>1. attempt[a] \in AttemptState
  BY DEF LockInv, TypeOK
<1>2. /\ s.phase = "answered" /\ s.key = attempt[a].key /\ s.request = attempt[a].request
      /\ s.answer = what /\ s.response = from
  BY <1>1 DEF AttemptState
<1>3. Become(a, s)
  BY DEF Answer
<1> HIDE DEF s
<1> QED BY <1>2, <1>3, RowsUntouched

\* The lock invariant is inductive as long as no handler outlives five minutes.
THEOREM LockInvariant == Spec => [](Prompt => LockInv)
<1>1. Init => LockInv
  <2> SUFFICES ASSUME Init PROVE LockInv
    OBVIOUS
  <2>1. TypeOK
    BY NoneAssumption DEF Init, TypeOK, Row, AttemptState, Phases
  <2>2. \A k \in Keys : InFlight(k) = {}
    BY DEF Init, InFlight
  <2>3. Exclusive /\ Owned
    BY <2>2 DEF Exclusive, Owned
  <2>4. Stored /\ Settled
    BY DEF Init, Stored, Settled, SettledAt
  <2> QED BY <2>1, <2>3, <2>4 DEF LockInv
<1>2. (Prompt => LockInv) /\ TypeOK' /\ [Next]_vars => (Prompt => LockInv)'
  <2> SUFFICES ASSUME Prompt, LockInv, TypeOK', [Next]_vars PROVE LockInv'
    BY DEF Prompt, Next, vars
  <2>1. ASSUME NEW a \in Attempts, NEW k \in Keys, NEW q \in Requests, Claim(a, k, q)
        PROVE LockInv'
    BY <2>1, ClaimKeepsLock
  <2>2. ASSUME NEW a \in Attempts, NEW k \in Keys, NEW q \in Requests, ClaimError(a, k, q)
        PROVE LockInv'
    <3> DEFINE s == [attempt[a] EXCEPT !.phase = "answered", !.answer = "unavailable",
                                       !.key = k, !.request = q]
    <3>1. attempt[a] \in AttemptState /\ attempt[a].phase = "idle"
      BY <2>2 DEF LockInv, TypeOK, ClaimError, InPhase
    <3>2. s.phase = "answered" /\ s.answer = "unavailable"
      BY <3>1 DEF AttemptState
    <3>3. Become(a, s) /\ UNCHANGED row
      BY <2>2 DEF ClaimError
    <3> HIDE DEF s
    <3>4. \A l \in Keys : InFlight(l)' = InFlight(l)
      BY <3>1, <3>2, <3>3, BecomeFrame DEF LockInv, InFlight
    <3>5. Exclusive'
      BY <3>4 DEF LockInv, Exclusive
    <3>6. Owned'
      <4> SUFFICES ASSUME NEW l \in Keys, NEW b \in InFlight(l)'
                   PROVE  /\ row'[l] # None
                          /\ row'[l].state = "processing"
                          /\ row'[l].age = "fresh"
                          /\ row'[l].request = attempt'[b].request
        BY DEF Owned
      <4>1. b \in InFlight(l) /\ row'[l] = row[l]
        BY <3>3, <3>4
      <4>2. b # a /\ attempt'[b] = attempt[b]
        BY <4>1, <3>1, <3>3, BecomeFrame DEF LockInv, InFlight
      <4> QED BY <4>1, <4>2 DEF LockInv, Owned
    <3>7. \A b, l, p : Replayable(b, l, p) => Replayable(b, l, p)'
      BY <3>1, <3>3, ReplayableStays DEF LockInv
    <3>8. Stored'
      BY <3>3, <3>7 DEF LockInv, Stored
    <3>9. Settled'
      <4> SUFFICES ASSUME NEW b \in Attempts PROVE SettledAt(b)'
        BY DEF Settled
      <4>1. CASE b = a
        BY <4>1, <3>2, <3>3, BecomeFrame DEF LockInv, SettledAt
      <4>2. CASE b # a
        BY <4>2, <3>3, <3>7, BecomeFrame DEF LockInv, Settled, SettledAt
      <4> QED BY <4>1, <4>2
    <3> QED BY <3>5, <3>6, <3>8, <3>9 DEF LockInv
  <2>3. ASSUME NEW a \in Attempts, Replay(a) PROVE LockInv'
    <3>1. attempt[a].phase = "replay" /\ attempt[a].key \in Keys
      BY <2>3 DEF Replay, InPhase, LockInv, TypeOK, AttemptState
    <3>2. row[attempt[a].key] \in Row \cup {None}
      BY <3>1 DEF LockInv, TypeOK
    <3>3. PICK what \in Answers, from \in Attempts \cup {None} :
            /\ Answer(a, what, from)
            /\ what = "replayed" => /\ row[attempt[a].key] # None
                                    /\ row[attempt[a].key].state = "completed"
                                    /\ row[attempt[a].key].request = attempt[a].request
                                    /\ from = row[attempt[a].key].response
      BY <2>3, <3>2 DEF Replay, Answers, Row
    <3>4. what = "replayed" => Replayable(from, attempt[a].key, attempt[a].request)
      BY <3>1, <3>3 DEF LockInv, Stored
    <3>5. UNCHANGED row
      BY <2>3 DEF Replay
    <3> QED BY <3>1, <3>3, <3>4, <3>5, AnswerKeepsLock
  <2>4. ASSUME NEW a \in Attempts, ReplayError(a) PROVE LockInv'
    BY <2>4, AnswerKeepsLock DEF ReplayError, InPhase, Answers
  <2>5. ASSUME NEW a \in Attempts, Handle(a) PROVE LockInv'
    <3>1. PICK st \in Statuses :
            Become(a, [attempt[a] EXCEPT !.phase = "finalize", !.status = st])
      BY <2>5 DEF Handle
    <3> DEFINE s == [attempt[a] EXCEPT !.phase = "finalize", !.status = st]
    <3>2. attempt[a] \in AttemptState /\ attempt[a].phase = "handler" /\ attempt[a].answer = None
      BY <2>5 DEF Handle, InPhase, LockInv, TypeOK, Settled, SettledAt
    <3>3. /\ s.phase = "finalize" /\ s.answer = None
          /\ s.key = attempt[a].key /\ s.request = attempt[a].request
      BY <3>2 DEF AttemptState
    <3>4. Become(a, s) /\ UNCHANGED row
      BY <2>5, <3>1 DEF Handle
    <3> HIDE DEF s
    <3> QED BY <3>2, <3>3, <3>4, RowsUntouched
  <2>6. ASSUME NEW a \in Attempts, Release(a) PROVE LockInv'
    <3>1. CASE row' = row
      BY <2>6, <3>1, AnswerKeepsLock DEF Release, InPhase, Answers
    <3>2. CASE row' = [row EXCEPT ![attempt[a].key] = None]
      <4> DEFINE s == [attempt[a] EXCEPT !.phase = "answered", !.answer = "own", !.response = a]
      <4>1. attempt[a] \in AttemptState /\ attempt[a].phase = "finalize"
        BY <2>6 DEF Release, InPhase, LockInv, TypeOK
      <4>2. /\ s.phase = "answered" /\ s.answer = "own"
            /\ s.key = attempt[a].key /\ s.request = attempt[a].request
        BY <4>1 DEF AttemptState
      <4>3. Become(a, s)
        BY <2>6 DEF Release, Answer
      <4> HIDE DEF s
      <4> QED BY <4>1, <4>2, <4>3, <3>2, RowReplaced
    <3> QED BY <2>6, <3>1, <3>2 DEF Release
  <2>7. ASSUME NEW a \in Attempts, Complete(a) PROVE LockInv'
    <3> DEFINE s == [attempt[a] EXCEPT !.phase = "answered", !.answer = "own", !.response = a]
               r == [row[attempt[a].key] EXCEPT !.state = "completed", !.response = a]
    <3>1. attempt[a] \in AttemptState /\ attempt[a].phase = "finalize" /\ attempt[a].key \in Keys
      BY <2>7 DEF Complete, InPhase, LockInv, TypeOK, AttemptState
    <3>2. /\ s.phase = "answered" /\ s.answer = "own"
          /\ s.key = attempt[a].key /\ s.request = attempt[a].request
      BY <3>1 DEF AttemptState
    <3>3. Become(a, s)
      BY <2>7 DEF Complete, Answer
    <3>4. /\ row[attempt[a].key] \in Row
          /\ row[attempt[a].key] # None
          /\ row[attempt[a].key].request = attempt[a].request
      <4>1. a \in InFlight(attempt[a].key)
        BY <3>1 DEF InFlight
      <4> QED BY <3>1, <4>1 DEF LockInv, Owned, TypeOK
    <3>5. r \in Row /\ r.response = a /\ r.request = attempt[a].request
      BY <3>4 DEF Row
    <3>6. row' = [row EXCEPT ![attempt[a].key] = r]
      BY <2>7, <3>4 DEF Complete
    <3> HIDE DEF s, r
    <3> QED BY <3>1, <3>2, <3>3, <3>5, <3>6, RowReplaced
  <2>8. ASSUME NEW a \in Attempts, CompleteError(a) PROVE LockInv'
    BY <2>8, AnswerKeepsLock DEF CompleteError, InPhase, Answers
  <2>9. ASSUME NEW a \in Attempts, Crash(a) PROVE LockInv'
    <3> DEFINE s == [attempt[a] EXCEPT !.phase = "crashed"]
    <3>1. attempt[a] \in AttemptState /\ attempt[a].phase \in {"handler", "finalize", "replay"}
      BY <2>9 DEF Crash, LockInv, TypeOK
    <3>2. attempt[a].answer = None
      BY <3>1 DEF LockInv, Settled, SettledAt
    <3>3. /\ s.phase = "crashed" /\ s.answer = None
          /\ s.key = attempt[a].key /\ s.request = attempt[a].request
      BY <3>1, <3>2 DEF AttemptState
    <3>4. Become(a, s) /\ UNCHANGED row
      BY <2>9 DEF Crash
    <3> HIDE DEF s
    <3> QED BY <3>1, <3>3, <3>4, RowsUntouched
  <2>10. ASSUME NEW k \in Keys, Age(k) PROVE LockInv'
    <3>1. InFlight(k) = {} /\ UNCHANGED attempt
      BY <2>10 DEF Age, Prompt
    <3>2. \A l \in Keys : InFlight(l)' = InFlight(l)
      BY <3>1 DEF InFlight
    <3>3. \A l \in Keys : l # k => row'[l] = row[l]
      BY <2>10 DEF Age, LockInv, TypeOK
    <3>4. /\ row'[k] # None => row[k] # None
          /\ row'[k].state = row[k].state
          /\ row'[k].request = row[k].request
          /\ row'[k].response = row[k].response
      <4>1. row[k] \in Row /\ row[k] # None
        BY <2>10 DEF Age, LockInv, TypeOK
      <4>2. PICK g \in Ages : row'[k] = [row[k] EXCEPT !.age = g]
        BY <2>10 DEF Age, LockInv, TypeOK, Ages
      <4> QED BY <4>1, <4>2 DEF Row
    <3>5. Exclusive'
      BY <3>2 DEF LockInv, Exclusive
    <3>6. Owned'
      BY <3>1, <3>2, <3>3 DEF LockInv, Owned
    <3>7. \A b, l, q : Replayable(b, l, q) => Replayable(b, l, q)'
      BY <3>1 DEF Replayable
    <3>8. Stored'
      BY <3>3, <3>4, <3>7 DEF LockInv, Stored
    <3>9. Settled'
      BY <3>1, <3>7 DEF LockInv, Settled, SettledAt
    <3> QED BY <3>5, <3>6, <3>8, <3>9 DEF LockInv
  <2>11. CASE UNCHANGED vars
    BY <2>11 DEF vars, LockInv, TypeOK, Exclusive, Owned, Stored, Settled, SettledAt,
                 Replayable, InFlight
  <2> QED BY <2>1, <2>2, <2>3, <2>4, <2>5, <2>6, <2>7, <2>8, <2>9, <2>10, <2>11 DEF Next, Step
<1> QED BY <1>1, <1>2, TypeCorrect, PTL DEF Spec

\* Two attempts with the same key never both run their handlers.
THEOREM ClaimsExclude == Spec => []MutualExclusion
<1>1. (Prompt => LockInv) => MutualExclusion
  BY DEF LockInv, MutualExclusion
<1> QED BY <1>1, LockInvariant, PTL

\* A replayed answer answers the same request.
THEOREM ReplaysAreFaithful == Spec => []ReplayFaithful
<1>1. (Prompt => LockInv) => ReplayFaithful
  <2> SUFFICES ASSUME LockInv, NEW a \in Attempts, attempt[a].answer = "replayed"
               PROVE  Replayable(attempt[a].response, attempt[a].key, attempt[a].request)
    BY DEF ReplayFaithful, Replayable
  <2>1. attempt[a].answer # None
    BY NoneAssumption DEF Answers
  <2> QED BY <2>1 DEF LockInv, Settled, SettledAt
<1> QED BY <1>1, LockInvariant, PTL

\* After an answer is stored nothing runs under the key while the row lives.
THEOREM CompletedIsFinal == Spec => NoEffectAfterCompletion
<1> DEFINE Quiet == Prompt => \A k \in Keys :
             (row[k] # None /\ row[k].state = "completed" /\ row[k].age # "expired")
                => effects'[k] = effects[k]
<1>1. (Prompt => LockInv) /\ [Next]_vars => [Quiet]_vars
  <2> SUFFICES ASSUME LockInv, [Next]_vars, NEW k \in Keys, row[k] # None,
                      row[k].state = "completed"
               PROVE  effects'[k] = effects[k]
    OBVIOUS
  <2>1. ASSUME NEW a \in Attempts, Handle(a) PROVE effects'[k] = effects[k]
    <3>1. attempt[a].key \in Keys /\ a \in InFlight(attempt[a].key)
      BY <2>1 DEF Handle, InPhase, LockInv, TypeOK, AttemptState, InFlight
    <3>2. attempt[a].key # k
      BY <3>1 DEF LockInv, Owned
    <3> QED BY <2>1, <3>2 DEF Handle, LockInv, TypeOK
  <2>2. CASE UNCHANGED effects
    BY <2>2
  <2> QED BY <2>1, <2>2 DEF Next, Step, vars, Claim, ClaimError, Replay, ReplayError, Release,
                            Complete, CompleteError, Crash, Age
<1> QED BY <1>1, LockInvariant, PTL DEF Spec, NoEffectAfterCompletion

-----------------------------------------------------------------------------
(***************************************************************************)
(* Failed answers.  This part needs no lock: it holds for slow handlers,   *)
(* crashes and database errors alike.                                      *)
(***************************************************************************)
\* b has finished, and its answer may be kept.
Good(b) == /\ b \in Attempts
           /\ attempt[b].phase = "answered"
           /\ attempt[b].status \in {"2xx", "4xx"}

\* Whatever is stored or was replayed is the answer of a good attempt.
AnswerAt(a) == /\ attempt[a].phase = "finalize" => attempt[a].status \in Statuses
               /\ attempt[a].answer # None => attempt[a].phase = "answered"
               /\ attempt[a].answer = "replayed" => Good(attempt[a].response)
AnswerInv == /\ TypeOK
             /\ \A k \in Keys : row[k] # None /\ row[k].state = "completed"
                                  => Good(row[k].response)
             /\ \A a \in Attempts : AnswerAt(a)

\* A good answer stays good: an answered attempt never moves again.
LEMMA GoodStays ==
  ASSUME TypeOK, NEW a \in Attempts, NEW s, Become(a, s), attempt[a].phase # "answered"
  PROVE  \A b : Good(b) => Good(b)'
BY BecomeFrame DEF Good

\* What is asked of a step that moves attempt a to state s: the answer it takes
\* over, and the row it leaves, are those of good attempts.
LEMMA MoveKeepsAnswers ==
  ASSUME AnswerInv, TypeOK', NEW a \in Attempts, NEW s, Become(a, s),
         attempt[a].phase # "answered",
         s.phase = "finalize" => s.status \in Statuses,
         s.answer # None => s.phase = "answered",
         s.answer = "replayed" => Good(s.response),
         \A k \in Keys : row'[k] # None /\ row'[k].state = "completed"
            => \/ Good(row'[k].response)
               \/ row'[k].response = a /\ s.phase = "answered" /\ s.status \in {"2xx", "4xx"}
  PROVE  AnswerInv'
<1>1. \A b : Good(b) => Good(b)'
  BY GoodStays DEF AnswerInv
<1>2. attempt'[a] = s /\ \A b \in Attempts : b # a => attempt'[b] = attempt[b]
  BY BecomeFrame DEF AnswerInv
<1>3. ASSUME NEW k \in Keys, row'[k] # None, row'[k].state = "completed"
      PROVE  Good(row[k].response)'
  <2>1. CASE Good(row'[k].response)
    BY <1>1, <2>1
  <2>2. CASE row'[k].response = a /\ s.phase = "answered" /\ s.status \in {"2xx", "4xx"}
    BY <1>2, <2>2 DEF Good
  <2> QED BY <1>3, <2>1, <2>2
<1>4. ASSUME NEW b \in Attempts PROVE AnswerAt(b)'
  <2>1. CASE b = a
    BY <1>1, <1>2, <2>1 DEF AnswerAt
  <2>2. CASE b # a
    BY <1>1, <1>2, <2>2 DEF AnswerInv, AnswerAt
  <2> QED BY <2>1, <2>2
<1> QED BY <1>3, <1>4 DEF AnswerInv

\* Only good answers are ever stored or replayed.
LEMMA AnswerInvariant == Spec => []AnswerInv
<1>1. Init => AnswerInv
  <2> SUFFICES ASSUME Init PROVE AnswerInv
    OBVIOUS
  <2>1. TypeOK
    BY NoneAssumption DEF Init, TypeOK, Row, AttemptState, Phases
  <2>2. \A a \in Attempts : AnswerAt(a)
    BY NoneAssumption DEF Init, AnswerAt, Answers
  <2> QED BY <2>1, <2>2 DEF Init, AnswerInv
<1>2. AnswerInv /\ TypeOK' /\ [Next]_vars => AnswerInv'
  <2> SUFFICES ASSUME AnswerInv, TypeOK', [Next]_vars PROVE AnswerInv'
    OBVIOUS
  <2> USE DEF InPhase
  <2>0. \A a \in Attempts : attempt[a] \in AttemptState
    BY DEF AnswerInv, TypeOK
  <2>1. ASSUME NEW a \in Attempts, NEW k \in Keys, NEW q \in Requests, Claim(a, k, q)
        PROVE AnswerInv'
    <3>1. PICK kept \in [Keys -> Row \cup {None}] :
             /\ kept = row \/ kept = Purged(row)
             /\ \/ /\ Claimable(kept[k])
                   /\ row' = [kept EXCEPT ![k] = [request |-> q, state |-> "processing",
                                                  age |-> "fresh", response |-> None]]
                   /\ Become(a, [attempt[a] EXCEPT !.phase = "handler", !.key = k, !.request = q])
                \/ /\ ~Claimable(kept[k])
                   /\ row' = kept
                   /\ Become(a, [attempt[a] EXCEPT !.phase = "replay", !.key = k, !.request = q])
      BY <2>1, ClaimCases DEF AnswerInv
    <3>2. PICK p \in {"handler", "replay"} :
             Become(a, [attempt[a] EXCEPT !.phase = p, !.key = k, !.request = q])
      BY <3>1
    <3> DEFINE s == [attempt[a] EXCEPT !.phase = p, !.key = k, !.request = q]
    <3>3. attempt[a].phase = "idle" /\ attempt[a].answer = None
      BY <2>1 DEF Claim, AnswerInv, AnswerAt
    <3>4. s.phase = p /\ s.answer = None
      BY <2>0, <3>3 DEF AttemptState
    <3>5. \A l \in Keys : kept[l] # None => kept[l] = row[l]
      BY <3>1 DEF Purged
    <3>6. \A l \in Keys : row'[l] # None /\ row'[l].state = "completed" => row'[l] = row[l]
      BY <3>1, <3>5
    <3>7. Become(a, s)
      BY <3>2
    <3> HIDE DEF s
    <3> QED BY <3>3, <3>4, <3>6, <3>7, NoneAssumption, MoveKeepsAnswers DEF AnswerInv, Answers
  <2>2. ASSUME NEW a \in Attempts, NEW k \in Keys, NEW q \in Requests, ClaimError(a, k, q)
        PROVE AnswerInv'
    <3> DEFINE s == [attempt[a] EXCEPT !.phase = "answered", !.answer = "unavailable",
                                       !.key = k, !.request = q]
    <3>1. s.phase = "answered" /\ s.answer = "unavailable"
      BY <2>0 DEF AttemptState
    <3>2. Become(a, s) /\ UNCHANGED row /\ attempt[a].phase = "idle"
      BY <2>2 DEF ClaimError
    <3> HIDE DEF s
    <3> QED BY <3>1, <3>2, MoveKeepsAnswers DEF AnswerInv
  <2>3. ASSUME NEW a \in Attempts, NEW what \in Answers, NEW from \in Attempts \cup {None},
               Answer(a, what, from), attempt[a].phase \in {"handler", "finalize", "replay"},
               what = "replayed" => Good(from),
               \A k \in Keys : row'[k] # None /\ row'[k].state = "completed"
                 => \/ Good(row'[k].response)
                    \/ row'[k].response = a /\ attempt[a].status \in {"2xx", "4xx"}
        PROVE AnswerInv'
    <3> DEFINE s == [attempt[a] EXCEPT !.phase = "answered", !.answer = what, !.response = from]
    <3>1. /\ s.phase = "answered" /\ s.answer = what /\ s.response = from
          /\ s.status = attempt[a].status
      BY <2>0 DEF AttemptState
    <3>2. Become(a, s)
      BY <2>3 DEF Answer
    <3> HIDE DEF s
    <3> QED BY <2>3, <3>1, <3>2, MoveKeepsAnswers
  <2>4. ASSUME NEW a \in Attempts, Replay(a) PROVE AnswerInv'
    <3>1. attempt[a].phase = "replay" /\ attempt[a].key \in Keys
      BY <2>4 DEF Replay, AnswerInv, TypeOK, AttemptState
    <3>2. row[attempt[a].key] \in Row \cup {None}
      BY <3>1 DEF AnswerInv, TypeOK
    <3>3. PICK what \in Answers, from \in Attempts \cup {None} :
            /\ Answer(a, what, from)
            /\ what = "replayed" => /\ row[attempt[a].key] # None
                                    /\ row[attempt[a].key].state = "completed"
                                    /\ from = row[attempt[a].key].response
      BY <2>4, <3>2 DEF Replay, Answers, Row
    <3>4. UNCHANGED row
      BY <2>4 DEF Replay
    <3> QED BY <2>3, <3>1, <3>3, <3>4 DEF AnswerInv
  <2>5. ASSUME NEW a \in Attempts, ReplayError(a) \/ CompleteError(a) PROVE AnswerInv'
    BY <2>3, <2>5 DEF ReplayError, CompleteError, Answers, AnswerInv
  <2>6. ASSUME NEW a \in Attempts, Handle(a) PROVE AnswerInv'
    <3>1. PICK st \in Statuses :
            Become(a, [attempt[a] EXCEPT !.phase = "finalize", !.status = st])
      BY <2>6 DEF Handle
    <3> DEFINE s == [attempt[a] EXCEPT !.phase = "finalize", !.status = st]
    <3>2. attempt[a].phase = "handler" /\ attempt[a].answer = None /\ UNCHANGED row
      BY <2>6 DEF Handle, AnswerInv, AnswerAt
    <3>3. s.phase = "finalize" /\ s.status = st /\ s.answer = None
      BY <2>0, <3>2 DEF AttemptState
    <3>4. Become(a, s)
      BY <3>1
    <3> HIDE DEF s
    <3> QED BY <3>2, <3>3, <3>4, NoneAssumption, MoveKeepsAnswers DEF AnswerInv, Answers
  <2>7. ASSUME NEW a \in Attempts, Release(a) PROVE AnswerInv'
    <3>1. \A k \in Keys : row'[k] # None => row'[k] = row[k]
      BY <2>7 DEF Release, AnswerInv, TypeOK
    <3> QED BY <2>3, <2>7, <3>1 DEF Release, Answers, AnswerInv
  <2>8. ASSUME NEW a \in Attempts, Complete(a) PROVE AnswerInv'
    <3>1. /\ attempt[a].phase = "finalize" /\ attempt[a].key \in Keys
          /\ attempt[a].status \in {"2xx", "4xx"}
      BY <2>0, <2>8 DEF Complete, AnswerInv, AnswerAt, AttemptState, Statuses
    <3>2. row[attempt[a].key] # None => row[attempt[a].key] \in Row
      BY <3>1 DEF AnswerInv, TypeOK
    <3>3. \A k \in Keys : row'[k] # None => row'[k] = row[k] \/ row'[k].response = a
      BY <2>8, <3>1, <3>2 DEF Complete, AnswerInv, TypeOK, Row
    <3> QED BY <2>3, <2>8, <3>1, <3>3 DEF Complete, Answers, AnswerInv
  <2>9. ASSUME NEW a \in Attempts, Crash(a) PROVE AnswerInv'
    <3> DEFINE s == [attempt[a] EXCEPT !.phase = "crashed"]
    <3>1. /\ attempt[a].phase \in {"handler", "finalize", "replay"}
          /\ attempt[a].answer = None /\ UNCHANGED row
      BY <2>9 DEF Crash, AnswerInv, AnswerAt
    <3>2. s.phase = "crashed" /\ s.answer = None
      BY <2>0, <3>1 DEF AttemptState
    <3>3. Become(a, s)
      BY <2>9 DEF Crash
    <3> HIDE DEF s
    <3> QED BY <3>1, <3>2, <3>3, NoneAssumption, MoveKeepsAnswers DEF AnswerInv, Answers
  <2>10. ASSUME NEW k \in Keys, Age(k) PROVE AnswerInv'
    <3>1. row[k] \in Row /\ row[k] # None /\ UNCHANGED attempt
      BY <2>10 DEF Age, AnswerInv, TypeOK
    <3>2. PICK g \in Ages : row' = [row EXCEPT ![k] = [row[k] EXCEPT !.age = g]]
      BY <2>10 DEF Age, Ages
    <3>3. \A l \in Keys : /\ row'[l] # None => row[l] # None
                          /\ row'[l].state = row[l].state
                          /\ row'[l].response = row[l].response
      BY <3>1, <3>2 DEF Row, AnswerInv, TypeOK
    <3> QED BY <3>1, <3>3 DEF AnswerInv, AnswerAt, Good
  <2>11. CASE UNCHANGED vars
    BY <2>11 DEF vars, AnswerInv, AnswerAt, Good, TypeOK
  <2> QED BY <2>1, <2>2, <2>4, <2>5, <2>6, <2>7, <2>8, <2>9, <2>10, <2>11 DEF Next, Step
<1> QED BY <1>1, <1>2, TypeCorrect, PTL DEF Spec

\* A failed or unfinished answer is never handed to another attempt, whatever
\* goes wrong.
THEOREM FailuresAreNotReplayed == Spec => []NeverReplaysFailure
<1>1. AnswerInv => NeverReplaysFailure
  BY NoneAssumption DEF AnswerInv, AnswerAt, Good, NeverReplaysFailure
<1> QED BY <1>1, AnswerInvariant, PTL

-----------------------------------------------------------------------------
(***************************************************************************)
(* Nothing goes wrong: the row of a key, once completed, is the one answer *)
(* its attempts give, and the attempt that completed it the only one that  *)
(* changed data.                                                           *)
(***************************************************************************)
\* a answered for itself.
Own(a) == attempt[a].answer = "own" /\ attempt[a].response = a
EffectsAt(k) == \A a \in effects[k] : /\ a \in Attempts
                                      /\ attempt[a].key = k
                                      /\ attempt[a].status = "2xx"
                                      /\ attempt[a].phase = "finalize" \/ Own(a)
FinalAt(a) == Final(a) => LET r == row[attempt[a].key]
                          IN /\ r # None
                             /\ r.state = "completed"
                             /\ r.response = attempt[a].response
OnceInv == /\ LockInv
           /\ \A k \in Keys : row[k] # None => row[k].age # "expired"
           /\ \A k \in Keys : EffectsAt(k)
           /\ \A a \in Attempts : FinalAt(a)

\* What is asked of a step that moves attempt a of key k to state s: it leaves
\* the other keys alone, and what it leaves of k agrees with its final answers.
LEMMA MoveKeepsOnce ==
  ASSUME OnceInv, LockInv', NEW a \in Attempts, NEW s, Become(a, s), NEW k \in Keys,
         attempt[a].phase # "answered", s.key = k, attempt[a].phase = "idle" \/ attempt[a].key = k,
         \A l \in Keys \ {k} : row'[l] = row[l] /\ effects'[l] = effects[l],
         row'[k] # None => row'[k].age # "expired",
         effects'[k] \subseteq effects[k] \cup {a},
         a \in effects'[k] => s.status = "2xx" /\ (s.phase = "finalize" \/ Own(a)'),
         \A b \in Attempts : Final(b)' /\ attempt'[b].key = k
            => /\ row'[k] # None
               /\ row'[k].state = "completed"
               /\ row'[k].response = attempt'[b].response
  PROVE  OnceInv'
<1>1. attempt'[a] = s /\ \A b \in Attempts : b # a => attempt'[b] = attempt[b]
  BY BecomeFrame DEF OnceInv, LockInv
<1>2. \A b \in Attempts \ {a} : Final(b)' = Final(b) /\ Own(b)' = Own(b)
  BY <1>1 DEF Final, Own
<1>3. attempt[a].phase = "idle" => ~Final(a) /\ \A l \in Keys : a \notin effects[l]
  BY NoneAssumption DEF OnceInv, LockInv, Settled, SettledAt, Final, Own, EffectsAt, Answers
<1>4. ASSUME NEW l \in Keys PROVE EffectsAt(l)'
  <2>1. CASE l = k
    BY <1>1, <1>2, <2>1 DEF OnceInv, EffectsAt
  <2>2. CASE l # k
    <3>1. a \notin effects[l]
      BY <1>3, <2>2 DEF OnceInv, EffectsAt
    <3> QED BY <1>1, <1>2, <2>2, <3>1 DEF OnceInv, EffectsAt
  <2> QED BY <2>1, <2>2
<1>5. ASSUME NEW b \in Attempts PROVE FinalAt(b)'
  <2>1. CASE attempt'[b].key = k
    BY <2>1 DEF FinalAt
  <2>2. CASE attempt'[b].key # k /\ Final(b)'
    <3>1. b # a /\ attempt'[b] = attempt[b] /\ Final(b)
      BY <1>1, <1>2, <2>2
    <3>2. attempt[b].key \in Keys \ {k}
      <4>1. attempt[b].phase # "idle"
        BY <3>1, NoneAssumption DEF OnceInv, LockInv, Settled, SettledAt, Final, Answers
      <4> QED BY <2>2, <3>1, <4>1 DEF OnceInv, LockInv, TypeOK, AttemptState
    <3>3. row'[attempt[b].key] = row[attempt[b].key]
      BY <3>2
    <3> QED BY <3>1, <3>3 DEF OnceInv, FinalAt
  <2> QED BY <2>1, <2>2 DEF FinalAt
<1> QED BY <1>4, <1>5 DEF OnceInv

\* The facts about one attempt in flight: its key has no final answer yet.
LEMMA NoneFinalInFlight ==
  ASSUME OnceInv, NEW a \in Attempts, attempt[a].phase \in {"handler", "finalize"}
  PROVE  /\ attempt[a].key \in Keys
         /\ row[attempt[a].key] \in Row
         /\ row[attempt[a].key] # None
         /\ row[attempt[a].key].state = "processing"
         /\ row[attempt[a].key].age = "fresh"
         /\ \A b \in Attempts : attempt[b].key = attempt[a].key => ~Final(b)
<1>1. attempt[a].key \in Keys /\ a \in InFlight(attempt[a].key)
  BY DEF OnceInv, LockInv, TypeOK, AttemptState, InFlight
<1>2. /\ row[attempt[a].key] # None
      /\ row[attempt[a].key].state = "processing"
      /\ row[attempt[a].key].age = "fresh"
  BY <1>1 DEF OnceInv, LockInv, Owned
<1> QED BY <1>1, <1>2 DEF OnceInv, FinalAt, LockInv, TypeOK

\* As long as nothing goes wrong, what completed a key is never undone.
LEMMA OnceInvariant == Spec => [](faults = {} => OnceInv)
<1>1. Init => OnceInv
  <2> SUFFICES ASSUME Init PROVE OnceInv
    OBVIOUS
  <2>1. TypeOK
    BY NoneAssumption DEF Init, TypeOK, Row, AttemptState, Phases
  <2>2. \A k \in Keys : InFlight(k) = {}
    BY DEF Init, InFlight
  <2>3. Exclusive /\ Owned /\ Stored /\ Settled
    BY <2>2 DEF Init, Exclusive, Owned, Stored, Settled, SettledAt
  <2>4. \A a \in Attempts : ~Final(a)
    BY NoneAssumption DEF Init, Final, Answers
  <2> QED BY <2>1, <2>3, <2>4 DEF Init, LockInv, OnceInv, EffectsAt, FinalAt
<1>2. /\ faults = {} => OnceInv
      /\ (Prompt => LockInv)'
      /\ [Next]_vars
      => (faults = {} => OnceInv)'
  <2> SUFFICES ASSUME faults = {}, OnceInv, LockInv', [Next]_vars PROVE OnceInv'
    BY DEF Prompt, Next, vars
  <2> USE DEF InPhase
  <2>0. \A a \in Attempts : attempt[a] \in AttemptState
    BY DEF OnceInv, LockInv, TypeOK
  <2>1. ASSUME NEW a \in Attempts, NEW k \in Keys, NEW q \in Requests, Claim(a, k, q)
        PROVE OnceInv'
    <3>1. Purged(row) = row
      BY DEF OnceInv, Purged, LockInv, TypeOK
    <3>2. \/ /\ Claimable(row[k])
             /\ row' = [row EXCEPT ![k] = [request |-> q, state |-> "processing",
                                           age |-> "fresh", response |-> None]]
             /\ Become(a, [attempt[a] EXCEPT !.phase = "handler", !.key = k, !.request = q])
          \/ /\ ~Claimable(row[k])
             /\ row' = row
             /\ Become(a, [attempt[a] EXCEPT !.phase = "replay", !.key = k, !.request = q])
      BY <2>1, <3>1 DEF Claim
    <3>3. /\ attempt[a].phase = "idle" /\ attempt[a].answer = None /\ UNCHANGED effects
          /\ a \notin effects[k]
      BY <2>1, NoneAssumption
         DEF Claim, OnceInv, LockInv, Settled, SettledAt, EffectsAt, Own, Answers
    <3>4. PICK p \in {"handler", "replay"} :
             Become(a, [attempt[a] EXCEPT !.phase = p, !.key = k, !.request = q])
      BY <3>2
    <3> DEFINE s == [attempt[a] EXCEPT !.phase = p, !.key = k, !.request = q]
    <3>5. s.phase = p /\ s.answer = None /\ s.key = k
      BY <2>0, <3>3 DEF AttemptState
    <3>6. Become(a, s)
      BY <3>4
    <3> HIDE DEF s
    <3>7. attempt'[a] = s /\ \A b \in Attempts : b # a => attempt'[b] = attempt[b]
      BY <3>6, BecomeFrame DEF OnceInv, LockInv
    <3>8. row' \in [Keys -> Row \cup {None}] /\ \A l \in Keys \ {k} : row'[l] = row[l]
      BY <3>2 DEF LockInv, TypeOK
    <3>9. row'[k] # None => row'[k].age # "expired"
      BY <3>2 DEF OnceInv, LockInv, TypeOK
    <3>10. ASSUME NEW b \in Attempts, Final(b)', attempt'[b].key = k
           PROVE  /\ row'[k] # None
                  /\ row'[k].state = "completed"
                  /\ row'[k].response = attempt'[b].response
      <4>1. b # a
        BY <3>5, <3>7, <3>10, NoneAssumption DEF Final, Answers
      <4>2. attempt'[b] = attempt[b] /\ Final(b) /\ attempt[b].key = k
        BY <3>7, <3>10, <4>1 DEF Final
      <4>3. /\ row[k] # None /\ row[k].state = "completed"
            /\ row[k].response = attempt[b].response /\ row[k].age # "expired"
        BY <4>2 DEF OnceInv, FinalAt
      <4>4. row' = row
        BY <3>2, <4>3 DEF Claimable
      <4> QED BY <4>2, <4>3, <4>4
    <3> QED BY <3>3, <3>5, <3>6, <3>8, <3>9, <3>10, MoveKeepsOnce
  <2>2. ASSUME NEW a \in Attempts, NEW k \in Keys, NEW q \in Requests, ClaimError(a, k, q)
        PROVE OnceInv'
    BY <2>2 DEF ClaimError
  <2>3. ASSUME NEW a \in Attempts, Replay(a) PROVE OnceInv'
    <3>1. attempt[a].phase = "replay" /\ attempt[a].key \in Keys
      BY <2>0, <2>3 DEF Replay, AttemptState
    <3>2. row[attempt[a].key] \in Row \cup {None}
      BY <3>1 DEF OnceInv, LockInv, TypeOK
    <3>3. PICK what \in Answers \ {"own"}, from \in Attempts \cup {None} :
            /\ Answer(a, what, from)
            /\ what = "replayed" => /\ row[attempt[a].key] # None
                                    /\ row[attempt[a].key].state = "completed"
                                    /\ from = row[attempt[a].key].response
      BY <2>3, <3>2 DEF Replay, Answers, Row
    <3>4. UNCHANGED <<row, effects>>
      BY <2>3 DEF Replay
    <3> DEFINE s == [attempt[a] EXCEPT !.phase = "answered", !.answer = what, !.response = from]
    <3>5. /\ s.phase = "answered" /\ s.answer = what /\ s.response = from
          /\ s.status = attempt[a].status /\ s.key = attempt[a].key
      BY <2>0 DEF AttemptState
    <3>6. Become(a, s)
      BY <3>3 DEF Answer
    <3> HIDE DEF s
    <3>7. attempt'[a] = s /\ \A b \in Attempts : b # a => attempt'[b] = attempt[b]
      BY <3>6, BecomeFrame DEF OnceInv, LockInv
    <3>8. a \notin effects[attempt[a].key]
      <4>1. attempt[a].answer = None
        BY <3>1 DEF OnceInv, LockInv, Settled, SettledAt
      <4> QED BY <3>1, <4>1, NoneAssumption DEF OnceInv, EffectsAt, Own, Answers
    <3>9. ASSUME NEW b \in Attempts, Final(b)', attempt'[b].key = attempt[a].key
          PROVE  /\ row'[attempt[a].key] # None
                 /\ row'[attempt[a].key].state = "completed"
                 /\ row'[attempt[a].key].response = attempt'[b].response
      <4>1. CASE b = a
        BY <3>3, <3>4, <3>5, <3>7, <3>9, <4>1 DEF Final
      <4>2. CASE b # a
        BY <3>4, <3>7, <3>9, <4>2 DEF OnceInv, FinalAt, Final
      <4> QED BY <4>1, <4>2
    <3> QED BY <3>1, <3>4, <3>5, <3>6, <3>8, <3>9, MoveKeepsOnce DEF OnceInv
  <2>4. ASSUME NEW a \in Attempts, ReplayError(a) \/ CompleteError(a) \/ Crash(a) PROVE OnceInv'
    BY <2>4 DEF ReplayError, CompleteError, Crash
  <2>5. ASSUME NEW a \in Attempts, Handle(a) PROVE OnceInv'
    <3>1. PICK st \in Statuses, changed \in BOOLEAN :
            /\ st = "2xx" => changed
            /\ changed => st = "2xx"
            /\ Become(a, [attempt[a] EXCEPT !.phase = "finalize", !.status = st])
            /\ effects' = IF changed
                          THEN [effects EXCEPT ![attempt[a].key] = @ \cup {a}]
                          ELSE effects
      BY <2>5 DEF Handle, Statuses
    <3>2. attempt[a].phase = "handler" /\ UNCHANGED row
      BY <2>5 DEF Handle
    <3>3. attempt[a].answer = None
      BY <3>2 DEF OnceInv, LockInv, Settled, SettledAt
    <3> DEFINE s == [attempt[a] EXCEPT !.phase = "finalize", !.status = st]
    <3>4. s.phase = "finalize" /\ s.status = st /\ s.answer = None /\ s.key = attempt[a].key
      BY <2>0, <3>3 DEF AttemptState
    <3>5. Become(a, s)
      BY <3>1
    <3> HIDE DEF s
    <3>6. attempt'[a] = s /\ \A b \in Attempts : b # a => attempt'[b] = attempt[b]
      BY <3>5, BecomeFrame DEF OnceInv, LockInv
    <3>7. /\ attempt[a].key \in Keys
          /\ row[attempt[a].key].age = "fresh"
          /\ \A b \in Attempts : attempt[b].key = attempt[a].key => ~Final(b)
      BY <3>2, NoneFinalInFlight
    <3>8. \A b \in Attempts : attempt'[b].key = attempt[a].key => ~Final(b)'
      BY <3>4, <3>6, <3>7, NoneAssumption DEF Final, Answers
    <3>9. a \notin effects[attempt[a].key]
      BY <3>2, <3>3, <3>7, NoneAssumption DEF OnceInv, EffectsAt, Own, Answers
    <3>10. /\ \A l \in Keys \ {attempt[a].key} : effects'[l] = effects[l]
           /\ effects'[attempt[a].key] \subseteq effects[attempt[a].key] \cup {a}
           /\ a \in effects'[attempt[a].key] => st = "2xx"
      BY <3>1, <3>7, <3>9 DEF OnceInv, LockInv, TypeOK
    <3> QED BY <3>2, <3>4, <3>5, <3>7, <3>8, <3>10, MoveKeepsOnce
  <2>6. ASSUME NEW a \in Attempts, attempt[a].phase = "finalize", Answer(a, "own", a),
               UNCHANGED effects,
               \A l \in Keys \ {attempt[a].key} : row'[l] = row[l],
               row'[attempt[a].key] # None => row'[attempt[a].key].age # "expired",
               attempt[a].status # "5xx" => /\ row'[attempt[a].key] # None
                                            /\ row'[attempt[a].key].state = "completed"
                                            /\ row'[attempt[a].key].response = a
        PROVE OnceInv'
    <3> DEFINE s == [attempt[a] EXCEPT !.phase = "answered", !.answer = "own", !.response = a]
    <3>1. /\ s.phase = "answered" /\ s.answer = "own" /\ s.response = a
          /\ s.status = attempt[a].status /\ s.key = attempt[a].key
      BY <2>0 DEF AttemptState
    <3>2. Become(a, s)
      BY <2>6 DEF Answer
    <3> HIDE DEF s
    <3>3. attempt'[a] = s /\ \A b \in Attempts : b # a => attempt'[b] = attempt[b]
      BY <3>2, BecomeFrame DEF OnceInv, LockInv
    <3>4. /\ attempt[a].key \in Keys
          /\ \A b \in Attempts : attempt[b].key = attempt[a].key => ~Final(b)
      BY <2>6, NoneFinalInFlight
    <3>5. \A b \in Attempts : Final(b)' /\ attempt'[b].key = attempt[a].key
            => b = a /\ s.status # "5xx"
      BY <3>1, <3>3, <3>4 DEF Final
    <3>6. a \in effects[attempt[a].key] => s.status = "2xx"
      BY <3>1, <3>4 DEF OnceInv, EffectsAt
    <3>7. Own(a)'
      BY <3>1, <3>3 DEF Own
    <3> QED BY <2>6, <3>1, <3>2, <3>3, <3>4, <3>5, <3>6, <3>7, MoveKeepsOnce
  <2>7. ASSUME NEW a \in Attempts, Release(a) PROVE OnceInv'
    <3>1. attempt[a].phase = "finalize" /\ attempt[a].status = "5xx"
      BY <2>7 DEF Release
    <3>2. row' = [row EXCEPT ![attempt[a].key] = None] /\ attempt[a].key \in Keys
      BY <2>7, <3>1, NoneFinalInFlight DEF Release
    <3>3. \A l \in Keys \ {attempt[a].key} : row'[l] = row[l]
      BY <3>2 DEF OnceInv, LockInv, TypeOK
    <3>4. row'[attempt[a].key] = None
      BY <3>2 DEF OnceInv, LockInv, TypeOK
    <3> QED BY <2>6, <2>7, <3>1, <3>3, <3>4 DEF Release
  <2>8. ASSUME NEW a \in Attempts, Complete(a) PROVE OnceInv'
    <3>1. attempt[a].phase = "finalize" /\ attempt[a].status # "5xx"
      BY <2>8 DEF Complete
    <3>2. /\ attempt[a].key \in Keys
          /\ row[attempt[a].key] \in Row
          /\ row[attempt[a].key] # None
          /\ row[attempt[a].key].age = "fresh"
      BY <3>1, NoneFinalInFlight
    <3> DEFINE r == [row[attempt[a].key] EXCEPT !.state = "completed", !.response = a]
    <3>3. r \in Row /\ r.state = "completed" /\ r.response = a /\ r.age = "fresh"
      BY <3>2 DEF Row
    <3>4. row' = [row EXCEPT ![attempt[a].key] = r]
      BY <2>8, <3>2 DEF Complete
    <3> HIDE DEF r
    <3>5. row'[attempt[a].key] = r /\ \A l \in Keys \ {attempt[a].key} : row'[l] = row[l]
      BY <3>2, <3>4 DEF OnceInv, LockInv, TypeOK
    <3>6. r # None
      BY <3>3, NoneAssumption
    <3> QED BY <2>6, <2>8, <3>1, <3>3, <3>5, <3>6 DEF Complete
  <2>9. ASSUME NEW k \in Keys, Age(k) PROVE OnceInv'
    <3>1. /\ row[k] \in Row /\ row[k] # None /\ UNCHANGED <<attempt, effects>>
          /\ row' = [row EXCEPT ![k] = [row[k] EXCEPT !.age = "stale"]]
      BY <2>9 DEF Age, OnceInv, LockInv, TypeOK
    <3>2. \A l \in Keys : /\ row'[l] # None <=> row[l] # None
                          /\ row'[l] # None => row'[l].age # "expired"
                          /\ row'[l].state = row[l].state
                          /\ row'[l].response = row[l].response
      <4>1. [row[k] EXCEPT !.age = "stale"] # None
        <5>1. [row[k] EXCEPT !.age = "stale"] \in Row
          BY <3>1 DEF Row, Ages
        <5> QED BY <5>1, NoneAssumption
      <4> QED BY <3>1, <4>1 DEF Row, OnceInv, LockInv, TypeOK
    <3>3. \A a : Final(a)' = Final(a) /\ Own(a)' = Own(a)
      BY <3>1 DEF Final, Own
    <3>4. \A l \in Keys : EffectsAt(l)'
      BY <3>1, <3>3 DEF OnceInv, EffectsAt
    <3>5. ASSUME NEW a \in Attempts PROVE FinalAt(a)'
      <4>1. Final(a) => attempt[a].key \in Keys
        BY <2>0, NoneAssumption
           DEF OnceInv, LockInv, Settled, SettledAt, Final, Answers, AttemptState
      <4> QED BY <3>1, <3>2, <3>3, <4>1 DEF OnceInv, FinalAt
    <3> QED BY <3>2, <3>4, <3>5 DEF OnceInv
  <2>10. CASE UNCHANGED vars
    BY <2>10 DEF vars, OnceInv, EffectsAt, FinalAt, Final, Own
  <2> QED BY <2>1, <2>2, <2>3, <2>4, <2>5, <2>7, <2>8, <2>9, <2>10 DEF Next, Step
<1> QED BY <1>1, <1>2, LockInvariant, PTL DEF Spec

\* When nothing goes wrong, however many attempts of one key race, one of them
\* changes data and all of them that are done hold the same answer.
THEOREM OnePerKey == Spec => []OncePerKey
<1>1. (faults = {} => OnceInv) => OncePerKey
  <2> SUFFICES ASSUME faults = {}, OnceInv PROVE OncePerKey
    BY DEF OncePerKey, AtMostOneEffect, OneAnswer
  <2>1. ASSUME NEW k \in Keys, NEW a \in effects[k], NEW b \in effects[k] PROVE a = b
    <3>1. /\ a \in Attempts /\ b \in Attempts
          /\ attempt[a].key = k /\ attempt[b].key = k
          /\ attempt[a].status = "2xx" /\ attempt[b].status = "2xx"
          /\ attempt[a].phase = "finalize" \/ Own(a)
          /\ attempt[b].phase = "finalize" \/ Own(b)
          /\ Own(a) => Final(a)
          /\ Own(b) => Final(b)
      BY DEF OnceInv, EffectsAt, Own, Final
    <3>2. CASE attempt[a].phase = "finalize" \/ attempt[b].phase = "finalize"
      <4>1. ~Final(a) /\ ~Final(b)
        BY <3>1, <3>2, NoneFinalInFlight
      <4> QED BY <3>1, <4>1 DEF OnceInv, LockInv, Exclusive, InFlight
    <3>3. CASE Own(a) /\ Own(b)
      <4>1. attempt[a].response = attempt[b].response
        BY <3>1, <3>3 DEF OnceInv, FinalAt
      <4> QED BY <3>3, <4>1 DEF Own
    <3> QED BY <3>1, <3>2, <3>3
  <2>2. OneAnswer
    BY DEF OneAnswer, OnceInv, FinalAt
  <2> QED BY <2>1, <2>2 DEF OncePerKey, AtMostOneEffect
<1> QED BY <1>1, OnceInvariant, PTL

(***************************************************************************)
(* The other end of the write path: theorems about Outbox, for every set   *)
(* of operations, rows, repositories and bounds.                           *)
(***************************************************************************)

(* The invariant of the queue. *)

\* A drain that waits has an operation in flight; an answer is for it.
Sending == /\ stage = "wait" => batch # << >>
           /\ reply # "none" => stage = "wait"
           /\ reply = "ok" => Applied(Current)

\* What is queued, in a batch or at the server was written; what has left the
\* table without being applied does not come back.
Known == /\ ToSet(queue) \cup ToSet(batch) \cup late \subseteq written
         /\ \A op \in Ops : gone[op] # "none" => op \in written /\ ~Queued(op)

\* A backoff and a counted attempt come from an attempt that failed.
Failures == recent \subseteq failed /\ \A op \in Ops : attempts[op] > 0 => op \in failed

\* Nothing on the row of an operation that has not failed is ahead of it: not
\* in the batch, and not at the server.
Clean(a, b) == EntityOf[a] = EntityOf[b] /\ Before(queue, a, b) /\ a \notin failed
InOrder == /\ IsInjective(batch)
           /\ \A a, b \in Ops : Clean(a, b) =>
                /\ b \in ToSet(batch) => Before(batch, a, b)
                /\ b \notin late

IInv == OutboxTypeOK /\ NoLostWrite /\ Sending /\ Known /\ Failures /\ InOrder

LEMMA Constants ==
  /\ Repos \in Nat \ {0} /\ MaxAttempts \in Nat \ {0} /\ BatchLimit \in Nat \ {0}
  /\ Trouble \in Nat /\ Retries \in Nat
  /\ RepoOf \in [Ops -> 1..Repos]
  /\ \A F \in FoldingSets : F \subseteq Ops
BY RepoAssumption, BoundAssumption

\* The operations of the queue that are in K, in the queue's order.
LEMMA AmongKeeps ==
  ASSUME queue \in Seq(Ops), IsInjective(queue), NEW K
  PROVE  /\ Among(K) \in Seq(Ops) /\ IsInjective(Among(K))
         /\ \A a : a \in ToSet(Among(K)) <=> a \in ToSet(queue) /\ a \in K
         /\ \A a, b : Before(Among(K), a, b) <=> Before(queue, a, b) /\ a \in K /\ b \in K
<1> DEFINE p == Only(queue, K)
<1>1. /\ p \in Seq(Ops) /\ IsInjective(p) /\ ToSet(p) = ToSet(queue) \cap K
      /\ \A a, b : Before(p, a, b) <=> Before(queue, a, b) /\ a \in K /\ b \in K
  BY Remaining
<1>2. Among(K) = p
  BY DEF Among
<1> HIDE DEF p
<1>3. \A a : a \in ToSet(p) <=> a \in ToSet(queue) /\ a \in K
  BY <1>1
<1> QED BY <1>1, <1>2, <1>3

\* Taking operations out of the queue.
LEMMA WithoutKeeps ==
  ASSUME queue \in Seq(Ops), IsInjective(queue), NEW K
  PROVE  /\ Without(K) \in Seq(Ops) /\ IsInjective(Without(K))
         /\ \A a : a \in ToSet(Without(K)) <=> a \in ToSet(queue) /\ a \notin K
         /\ \A a, b : Before(Without(K), a, b) <=> Before(queue, a, b) /\ a \notin K /\ b \notin K
<1>1. ToSet(queue) \subseteq Ops
  BY SetOf
<1>2. /\ Among(Ops \ K) \in Seq(Ops) /\ IsInjective(Among(Ops \ K))
      /\ \A a : a \in ToSet(Among(Ops \ K)) <=> a \in ToSet(queue) /\ a \in Ops \ K
      /\ \A a, b : Before(Among(Ops \ K), a, b)
           <=> Before(queue, a, b) /\ a \in Ops \ K /\ b \in Ops \ K
  BY AmongKeeps
<1>3. \A a, b : Before(queue, a, b) => a \in Ops /\ b \in Ops
  <2>1. \A i \in 1..Len(queue) : queue[i] \in Ops
    OBVIOUS
  <2> QED BY <2>1 DEF Before
<1> QED BY <1>1, <1>2, <1>3 DEF Without

LEMMA BatchKeeps ==
  ASSUME queue \in Seq(Ops), IsInjective(queue)
  PROVE  /\ ReadyBatch \in Seq(Ops) /\ IsInjective(ReadyBatch)
         /\ ToSet(ReadyBatch) \subseteq ToSet(queue)
         /\ \A op \in ToSet(ReadyBatch) : op \in Ops /\ Ready(op)
         /\ \A a, b \in Ops : /\ Before(queue, a, b) /\ Ready(a) /\ b \in ToSet(ReadyBatch)
                              => Before(ReadyBatch, a, b)
<1> DEFINE R == {op \in Ops : Ready(op)}
           r == Among(R)
           m == IF Len(r) < BatchLimit THEN Len(r) ELSE BatchLimit
<1>1. /\ r \in Seq(Ops) /\ IsInjective(r)
      /\ \A a : a \in ToSet(r) <=> a \in ToSet(queue) /\ a \in R
      /\ \A a, b : Before(r, a, b) <=> Before(queue, a, b) /\ a \in R /\ b \in R
  BY AmongKeeps
<1>2. m \in 0..Len(r)
  <2> HIDE DEF r
  <2>1. Len(r) \in Nat
    BY <1>1
  <2> QED BY <2>1, Constants
<1>3. ReadyBatch = SubSeq(r, 1, m)
  BY DEF ReadyBatch
<1> HIDE DEF r, m
<1>4. /\ ReadyBatch \in Seq(Ops) /\ IsInjective(ReadyBatch) /\ ToSet(ReadyBatch) \subseteq ToSet(r)
      /\ \A a, b : Before(r, a, b) /\ b \in ToSet(ReadyBatch) => Before(ReadyBatch, a, b)
  BY <1>1, <1>2, <1>3, Beginning
<1> QED BY <1>1, <1>4

\* What a drain does to the types.
LEMMA Flight ==
  ASSUME OutboxTypeOK, Sending, Known, InOrder
  PROVE  /\ batch # << >> =>
              /\ Current \in Ops /\ Current \in ToSet(batch) /\ Current \in written
              /\ Tail(batch) \in Seq(Ops) /\ IsInjective(Tail(batch))
              /\ ToSet(Tail(batch)) \subseteq ToSet(batch)
              /\ \A a : ~Before(batch, a, Current)
              /\ \A a, b : Before(batch, a, b) /\ a # Current => Before(Tail(batch), a, b)
         /\ stage = "wait" => batch # << >>
<1>1. batch \in Seq(Ops) /\ IsInjective(batch) /\ ToSet(batch) \subseteq written
  BY DEF OutboxTypeOK, InOrder, Known
<1>2. batch # << >> =>
         /\ Current \in Ops /\ Current \in ToSet(batch)
         /\ Tail(batch) \in Seq(Ops) /\ IsInjective(Tail(batch))
         /\ ToSet(Tail(batch)) \subseteq ToSet(batch)
         /\ \A a : ~Before(batch, a, Current)
         /\ \A a, b : Before(batch, a, b) /\ a # Current => Before(Tail(batch), a, b)
  BY <1>1, WithoutHead DEF Current
<1> QED BY <1>1, <1>2 DEF Sending

LEMMA Draining ==
  ASSUME OutboxTypeOK, Sending, NEW force \in BOOLEAN, Drain(force)
  PROVE  /\ stage' \in Stages /\ repo' \in 1..Repos /\ batch' = batch /\ reply' = reply
         /\ stage' = "wait" <=> stage = "wait"
         /\ stage # "idle" => stage' = stage
BY Constants DEF OutboxTypeOK, Sending, Drain, coordinator, Stages

LEMMA Ending ==
  ASSUME OutboxTypeOK, EndPass
  PROVE  stage' \in {"fetch", "count"} /\ repo' \in 1..Repos /\ batch' = << >>
<1>1. repo \in 1..Repos /\ Repos \in Nat
  BY Constants DEF OutboxTypeOK
<1>2. /\ repo < Repos => repo' = repo + 1 /\ stage' = "fetch" /\ batch' = << >>
      /\ ~(repo < Repos) => repo' = 1 /\ stage' = "count" /\ batch' = << >>
  BY DEF EndPass
<1> QED BY <1>1, <1>2, Constants

LEMMA Marking ==
  ASSUME OutboxTypeOK, NEW op \in Ops, NEW counts \in BOOLEAN, MarkAttempt(op, counts)
  PROVE  /\ attempts' \in [Ops -> 0..MaxAttempts]
         /\ \A o \in Ops : attempts'[o] # attempts[o] => o = op
         /\ recent' \subseteq recent \cup {op} /\ queue' = queue /\ gone' = gone
BY Constants DEF OutboxTypeOK, MarkAttempt

LEMMA Deleting ==
  ASSUME OutboxTypeOK, NEW K, Delete(K)
  PROVE  /\ queue' = Without(K) /\ recent' \subseteq recent
         /\ attempts' \in [Ops -> 0..MaxAttempts]
         /\ \A op \in Ops : attempts'[op] > 0 => attempts[op] > 0
<1>1. attempts \in [Ops -> 0..MaxAttempts] /\ 0 \in 0..MaxAttempts
  BY Constants DEF OutboxTypeOK
<1>2. attempts' = [op \in Ops |-> IF op \in K THEN 0 ELSE attempts[op]]
  BY DEF Delete
<1> QED BY <1>1, <1>2 DEF Delete

LEMMA Appending ==
  ASSUME NEW s \in Seq(Ops), IsInjective(s), NEW x \in Ops, x \notin ToSet(s)
  PROVE  Append(s, x) \in Seq(Ops) /\ IsInjective(Append(s, x))
<1>1. Append(s, x) \in Seq(Ops)
  OBVIOUS
<1>2. \A a : ~Before(s, a, a)
  BY OnceEach
<1>3. \A a : ~Before(Append(s, x), a, a)
  BY <1>2, AtEnd
<1> QED BY <1>1, <1>3, OnceEach

LEMMA Spending ==
  ASSUME OutboxTypeOK, Spend
  PROVE  trouble' \in 0..Trouble
BY Constants DEF OutboxTypeOK, Spend

LEMMA TypeKept ==
  ASSUME IInv, [OutboxNext]_outboxVars
  PROVE  OutboxTypeOK'
<1>1. OutboxTypeOK /\ Sending /\ Known /\ InOrder
  BY DEF IInv
<1>2. /\ batch # << >> => /\ Current \in Ops /\ Current \in ToSet(batch)
                          /\ Tail(batch) \in Seq(Ops)
      /\ stage = "wait" => batch # << >>
  BY <1>1, Flight
<1>3. /\ queue \in Seq(Ops) /\ IsInjective(queue)
      /\ applied \in Seq(Ops) /\ IsInjective(applied)
  BY <1>1 DEF OutboxTypeOK
<1>4. \A op \in Ops : ~Applied(op)
        => Append(applied, op) \in Seq(Ops) /\ IsInjective(Append(applied, op))
  BY <1>3, Appending DEF Applied
<1>5. \A K : Without(K) \in Seq(Ops) /\ IsInjective(Without(K))
  BY <1>3, WithoutKeeps
<1>6. \A op \in Ops : op \notin written => op \notin ToSet(queue)
  BY <1>1 DEF Known
<1>21. CASE FlushSession
  BY <1>21, <1>1, Draining DEF OutboxTypeOK, FlushSession, table, timers, server, history, budget
<1>22. CASE RetryTimer
  BY <1>22, <1>1, Draining DEF OutboxTypeOK, RetryTimer, table, timers, server, history, budget
<1>23. CASE Poll
  BY <1>23, <1>1, Draining DEF OutboxTypeOK, Poll, table, timers, server, history, budget
<1>24. CASE Probe
  BY <1>24, <1>1, Constants DEF OutboxTypeOK, Probe, table, coordinator, timers, server, history,
        budget, Stages
<1>25. CASE FetchBatch
  BY <1>25, <1>1, <1>3, BatchKeeps DEF OutboxTypeOK, FetchBatch, Stages, table, coordinator,
        timers, server, history, budget
<1>26. CASE BatchDone
  BY <1>26, <1>1, Ending DEF OutboxTypeOK, BatchDone, Stages, table, timers, server, history, budget
<1>27. CASE TakeNext
  BY <1>27, <1>1, <1>2 DEF OutboxTypeOK, TakeNext, Stages, Replies, table, coordinator, timers,
        server, history, budget
<1>28. CASE Serve
  <2>1. trouble' \in 0..Trouble
    BY <1>28, <1>1, Spending DEF Serve, OutboxTypeOK
  <2>2. applied' \in Seq(Ops) /\ IsInjective(applied)'
    BY <1>28, <1>2, <1>3, <1>4 DEF Serve
  <2>3. reply' \in Replies
    BY <1>28 DEF Serve, Replies
  <2> QED BY <1>28, <1>1, <2>1, <2>2, <2>3
        DEF OutboxTypeOK, Serve, table, timers, server, history, budget
<1>29. CASE Succeed
  <2>1. queue' \in Seq(Ops) /\ IsInjective(queue)' /\ recent' \subseteq Ops
    BY <1>29, <1>1, <1>5, Deleting DEF OutboxTypeOK, Succeed
  <2>2. attempts' \in [Ops -> 0..MaxAttempts]
    BY <1>29, <1>1, Deleting DEF Succeed
  <2> QED BY <1>29, <1>1, <1>2, <2>1, <2>2 DEF OutboxTypeOK, Succeed, Stages, Replies, timers,
        server, history, budget
<1>30. CASE StopTransient
  <2>1. Current \in Ops
    BY <1>30, <1>2 DEF StopTransient
  <2>2. /\ attempts' \in [Ops -> 0..MaxAttempts] /\ recent' \subseteq Ops
        /\ queue' = queue /\ gone' = gone /\ failed' \subseteq Ops
    BY <1>30, <1>1, <2>1, Marking DEF StopTransient, OutboxTypeOK
  <2>3. /\ stage' \in Stages /\ repo' \in 1..Repos /\ batch' \in Seq(Ops)
        /\ reply' \in Replies
    BY <1>30, <1>1, Ending DEF StopTransient, Stages, Replies
  <2> QED BY <1>30, <1>1, <2>2, <2>3 DEF OutboxTypeOK, StopTransient, timers, server, budget
<1>31. CASE DeadLetter
  <2>1. Current \in Ops /\ Tail(batch) \in Seq(Ops)
    BY <1>31, <1>2 DEF DeadLetter
  <2>2. attempts' \in [Ops -> 0..MaxAttempts]
    <3>1. MaxAttempts \in 0..MaxAttempts
      BY Constants
    <3>2. attempts \in [Ops -> 0..MaxAttempts]
      BY <1>1 DEF OutboxTypeOK
    <3>3. \/ attempts' = [attempts EXCEPT ![Current] = MaxAttempts]
          \/ attempts' = attempts
      BY <1>31 DEF DeadLetter
    <3> QED BY <2>1, <3>1, <3>2, <3>3
  <2>3. recent' \subseteq Ops /\ failed' \subseteq Ops
    BY <1>31, <1>1, <2>1 DEF OutboxTypeOK, DeadLetter
  <2>4. /\ stage' \in Stages /\ repo' = repo /\ batch' \in Seq(Ops)
        /\ reply' \in Replies /\ retry' = retry
    BY <1>31, <2>1 DEF DeadLetter, Stages, Replies, timers
  <2> QED BY <1>31, <1>1, <2>2, <2>3, <2>4
        DEF OutboxTypeOK, DeadLetter, timers, server, budget
<1>32. CASE RecordConflict
  <2>1. queue' \in Seq(Ops) /\ IsInjective(queue)' /\ recent' \subseteq Ops
    BY <1>32, <1>1, <1>5, Deleting DEF OutboxTypeOK, RecordConflict
  <2>2. attempts' \in [Ops -> 0..MaxAttempts]
    BY <1>32, <1>1, Deleting DEF RecordConflict
  <2>3. gone' \in [Ops -> Endings]
    BY <1>32, <1>1 DEF OutboxTypeOK, RecordConflict, Endings
  <2> QED BY <1>32, <1>1, <1>2, <2>1, <2>2, <2>3 DEF OutboxTypeOK, RecordConflict, Stages,
        Replies, timers, server, history, budget
<1>33. CASE GoOnline
  BY <1>33, <1>1, Draining DEF OutboxTypeOK, GoOnline, table, timers, server, history, budget
<1>34. CASE SignIn
  BY <1>34, <1>1, Constants DEF OutboxTypeOK, SignIn, table, coordinator, timers, server,
        history, budget, Stages
<1>35. CASE RetryFailed
  <2>0. PICK ops \in SUBSET Ops : Retry(ops)
    BY <1>35 DEF RetryFailed
  <2>1. attempts' \in [Ops -> 0..MaxAttempts]
    BY <1>1, <2>0, Constants DEF Retry, OutboxTypeOK
  <2>2. retries' \in 0..Retries
    BY <1>1, <2>0, Constants DEF Retry, OutboxTypeOK
  <2>3. stage' \in Stages /\ repo' \in 1..Repos /\ batch' = batch /\ reply' = reply
    BY <1>1, <2>0, Draining DEF Retry
  <2>4. recent' \subseteq Ops
    BY <1>1, <2>0 DEF Retry, OutboxTypeOK
  <2> QED BY <1>1, <2>0, <2>1, <2>2, <2>3, <2>4 DEF OutboxTypeOK, Retry, timers, server, history
<1>36. CASE NoAnswer
  <2>1. Current \in Ops
    BY <1>36, <1>2 DEF NoAnswer
  <2>2. /\ attempts' \in [Ops -> 0..MaxAttempts] /\ recent' \subseteq Ops
        /\ queue' = queue /\ gone' = gone /\ failed' \subseteq Ops
    BY <1>36, <1>1, <2>1, Marking DEF NoAnswer, OutboxTypeOK
  <2>3. /\ stage' \in Stages /\ repo' \in 1..Repos /\ batch' \in Seq(Ops)
        /\ reply' \in Replies
    BY <1>36, <1>1, Ending DEF NoAnswer, Stages, Replies
  <2>4. trouble' \in 0..Trouble
    BY <1>36, <1>1, Spending DEF NoAnswer, OutboxTypeOK
  <2>5. late' \subseteq Ops
    BY <1>36, <1>1, <2>1 DEF NoAnswer, OutboxTypeOK
  <2> QED BY <1>36, <1>1, <2>2, <2>3, <2>4, <2>5 DEF OutboxTypeOK, NoAnswer, timers
<1>37. CASE GoOffline
  BY <1>37, <1>1, Spending DEF OutboxTypeOK, GoOffline, table, coordinator, timers, server,
        history, budget
<1>38. CASE SignOut
  BY <1>38, <1>1, Spending DEF OutboxTypeOK, SignOut, table, coordinator, timers, server,
        history, budget
<1>39. CASE Restart
  <2>1. trouble' \in 0..Trouble
    BY <1>39, <1>1, Spending DEF Restart
  <2>2. late' \subseteq Ops
    BY <1>39, <1>1, <1>2 DEF Restart, OutboxTypeOK
  <2>3. stage' \in Stages /\ repo' \in 1..Repos
    BY <1>39, Constants DEF Restart, Stages
  <2>4. batch' \in Seq(Ops) /\ reply' \in Replies
    BY <1>39 DEF Restart, Replies
  <2>5. session' \in BOOLEAN /\ retry' \in BOOLEAN /\ awake' \in BOOLEAN
    BY <1>39, Zenon DEF Restart
  <2> QED BY <1>39, <1>1, <2>1, <2>2, <2>3, <2>4, <2>5
        DEF OutboxTypeOK, Restart, table, timers, server, history, budget
<1>40. ASSUME NEW op \in Ops, ServeLate(op) PROVE OutboxTypeOK'
  BY <1>40, <1>1, <1>4 DEF OutboxTypeOK, ServeLate, table, coordinator, timers, server, history,
        budget
<1>41. ASSUME NEW op \in Ops, BackoffElapses(op) PROVE OutboxTypeOK'
  BY <1>41, <1>1, Constants DEF OutboxTypeOK, BackoffElapses, table, coordinator, timers, server,
        history, budget
<1>42. ASSUME NEW op \in Ops, Write(op) PROVE OutboxTypeOK'
  <2>1. PICK K \in SUBSET Ops : /\ queue' = Append(Without(K), op)
                                /\ attempts' = [o \in Ops |-> IF o \in K THEN 0 ELSE attempts[o]]
                                /\ recent' = recent \ K
                                /\ gone' = [o \in Ops |-> IF o \in K THEN "folded" ELSE gone[o]]
    <3>1. folding \subseteq Ops
      BY <1>1, Constants DEF OutboxTypeOK
    <3> QED BY <1>42, <3>1 DEF Write
  <2>2. op \notin ToSet(Without(K))
    BY <1>42, <1>3, <1>6, WithoutKeeps DEF Write
  <2>3. queue' \in Seq(Ops) /\ IsInjective(queue)'
    BY <1>5, <2>1, <2>2, Appending
  <2>4. gone' \in [Ops -> Endings]
    BY <1>1, <2>1 DEF OutboxTypeOK, Endings
  <2>5. attempts' \in [Ops -> 0..MaxAttempts] /\ recent' \subseteq Ops
    BY <1>1, <2>1, Constants DEF OutboxTypeOK
  <2> QED BY <1>42, <1>1, <2>3, <2>4, <2>5 DEF OutboxTypeOK, Write, coordinator, server, budget
<1>43. ASSUME NEW op \in Ops, RetryOp(op) PROVE OutboxTypeOK'
  <2>0. PICK ops \in SUBSET Ops : Retry(ops)
    BY <1>43 DEF RetryOp
  <2>1. attempts' \in [Ops -> 0..MaxAttempts]
    BY <1>1, <2>0, Constants DEF Retry, OutboxTypeOK
  <2>2. retries' \in 0..Retries
    BY <1>1, <2>0, Constants DEF Retry, OutboxTypeOK
  <2>3. stage' \in Stages /\ repo' \in 1..Repos /\ batch' = batch /\ reply' = reply
    BY <1>1, <2>0, Draining DEF Retry
  <2>4. recent' \subseteq Ops
    BY <1>1, <2>0 DEF Retry, OutboxTypeOK
  <2> QED BY <1>1, <2>0, <2>1, <2>2, <2>3, <2>4 DEF OutboxTypeOK, Retry, timers, server, history
<1>44. ASSUME NEW op \in Ops, Discard(op) PROVE OutboxTypeOK'
  <2>1. queue' \in Seq(Ops) /\ IsInjective(queue)' /\ recent' \subseteq Ops
    BY <1>44, <1>1, <1>5, Deleting DEF OutboxTypeOK, Discard
  <2>2. attempts' \in [Ops -> 0..MaxAttempts]
    BY <1>44, <1>1, Deleting DEF Discard
  <2>3. gone' \in [Ops -> Endings]
    BY <1>44, <1>1 DEF OutboxTypeOK, Discard, Endings
  <2> QED BY <1>44, <1>1, <2>1, <2>2, <2>3 DEF OutboxTypeOK, Discard, coordinator, timers,
        server, history, budget
<1>46. CASE CountLeft
  BY <1>46, <1>1 DEF OutboxTypeOK, CountLeft, Stages, table, timers, server, history, budget
<1>47. CASE EndDrain
  <2>1. retry' \in BOOLEAN
    BY <1>47, Zenon DEF EndDrain
  <2> QED BY <1>47, <1>1, <2>1 DEF OutboxTypeOK, EndDrain, Stages, table, server, history, budget
<1>48. CASE Pause
  <2>1. session' \in BOOLEAN /\ awake' \in BOOLEAN
    BY <1>48, Zenon DEF Pause
  <2>2. trouble' \in 0..Trouble
    BY <1>48, <1>1, Spending DEF Pause
  <2>3. stage' \in Stages /\ repo' \in 1..Repos /\ batch' = batch /\ reply' = reply
    BY <1>48, <1>1, Draining DEF Pause
  <2> QED BY <1>48, <1>1, <2>1, <2>2, <2>3 DEF OutboxTypeOK, Pause, table, server, history
<1>49. CASE Resume
  BY <1>49, <1>1, Draining DEF OutboxTypeOK, Resume, table, timers, server, history, budget
<1>50. ASSUME NEW op \in Ops, Resolve(op) PROVE OutboxTypeOK'
  <2>1. session' \in BOOLEAN
    BY <1>50, <1>1, Zenon DEF OutboxTypeOK, Resolve
  <2>2. gone' \in [Ops -> Endings]
    BY <1>50, <1>1 DEF OutboxTypeOK, Resolve, Endings
  <2> QED BY <1>50, <1>1, <2>1, <2>2 DEF OutboxTypeOK, Resolve, coordinator, server, history, budget
<1>51. ASSUME NEW op \in Ops, NEW o \in Ops, KeepMine(op, o) PROVE OutboxTypeOK'
  <2>1. queue' \in Seq(Ops) /\ IsInjective(queue)'
    BY <1>51, <1>3, <1>6, Appending DEF KeepMine
  <2> QED BY <1>51, <1>1, <2>1 DEF OutboxTypeOK, KeepMine, coordinator, timers, server, budget
<1>45. CASE UNCHANGED outboxVars
  BY <1>45, <1>1, Constants DEF OutboxTypeOK, outboxVars, table, coordinator, timers, server,
        history, budget
<1> QED
  BY <1>21, <1>22, <1>23, <1>24, <1>25, <1>26, <1>27, <1>28, <1>29, <1>30, <1>31, <1>32, <1>33,
        <1>34, <1>35, <1>36, <1>37, <1>38, <1>39, <1>40, <1>41, <1>42, <1>43, <1>44,
        <1>45, <1>46, <1>47, <1>48, <1>49, <1>50, <1>51
     DEF OutboxNext, Machine, DrainStep, Environment

LEMMA SendingKept ==
  ASSUME IInv, [OutboxNext]_outboxVars
  PROVE  Sending'
<1>1. OutboxTypeOK /\ Sending /\ Known /\ InOrder
  BY DEF IInv
<1>2. batch # << >> => Current \in Ops
  BY <1>1, Flight
<1>3. applied \in Seq(Ops)
  BY <1>1 DEF OutboxTypeOK
<1>4. \A op \in Ops : ToSet(Append(applied, op)) = ToSet(applied) \cup {op}
  BY <1>3, AtEnd
<1>21. CASE FlushSession
  BY <1>21, <1>1, Draining DEF Sending, Applied, Current, FlushSession, table, timers, server,
        history, budget
<1>22. CASE RetryTimer
  BY <1>22, <1>1, Draining DEF Sending, Applied, Current, RetryTimer, table, timers, server,
        history, budget
<1>23. CASE Poll
  BY <1>23, <1>1, Draining DEF Sending, Applied, Current, Poll, table, timers, server, history,
        budget
<1>24. CASE Probe
  BY <1>24, <1>1 DEF Sending, Applied, Current, Probe, table, coordinator, timers, server,
        history, budget
<1>25. CASE FetchBatch
  BY <1>25, <1>1 DEF Sending, Applied, Current, FetchBatch, table, coordinator, timers, server,
        history, budget
<1>26. CASE BatchDone
  BY <1>26, <1>1, Ending DEF Sending, BatchDone
<1>27. CASE TakeNext
  BY <1>27, <1>1 DEF Sending, Applied, Current, TakeNext, table, coordinator, timers, server,
        history, budget
<1>28. CASE Serve
  <2>1. stage' = stage /\ batch' = batch /\ batch # << >>
    BY <1>28, <1>1 DEF Serve, Sending
  <2>2. reply' = "ok" => Current \in ToSet(applied')
    BY <1>28, <1>2, <1>4, <2>1 DEF Serve, Applied
  <2> QED BY <1>28, <2>1, <2>2 DEF Sending, Serve, Applied, Current
<1>29. CASE Succeed
  BY <1>29, <1>1 DEF Sending, Applied, Current, Succeed, table, coordinator, timers, server,
        history, budget
<1>30. CASE StopTransient
  BY <1>30, <1>1, Ending DEF Sending, StopTransient
<1>31. CASE DeadLetter
  BY <1>31, <1>1 DEF Sending, Applied, Current, DeadLetter, table, coordinator, timers, server,
        history, budget
<1>32. CASE RecordConflict
  BY <1>32, <1>1 DEF Sending, Applied, Current, RecordConflict, table, coordinator, timers,
        server, history, budget
<1>33. CASE GoOnline
  BY <1>33, <1>1, Draining DEF Sending, Applied, Current, GoOnline, table, timers, server,
        history, budget
<1>34. CASE SignIn
  BY <1>34, <1>1 DEF Sending, Applied, Current, SignIn, table, coordinator, timers, server,
        history, budget
<1>35. CASE RetryFailed
  BY <1>35, <1>1, Draining DEF Sending, Applied, Current, RetryFailed, Retry, table, timers,
        server, history, budget
<1>36. CASE NoAnswer
  BY <1>36, <1>1, Ending DEF Sending, NoAnswer
<1>37. CASE GoOffline
  BY <1>37, <1>1 DEF Sending, Applied, Current, GoOffline, table, coordinator, timers, server,
        history, budget
<1>38. CASE SignOut
  BY <1>38, <1>1 DEF Sending, Applied, Current, SignOut, table, coordinator, timers, server,
        history, budget
<1>39. CASE Restart
  BY <1>39, <1>1 DEF Sending, Applied, Current, Restart, table, coordinator, timers, server,
        history, budget
<1>40. ASSUME NEW op \in Ops, ServeLate(op) PROVE Sending'
  BY <1>40, <1>1, <1>4 DEF Sending, Applied, Current, ServeLate, coordinator
<1>41. ASSUME NEW op \in Ops, BackoffElapses(op) PROVE Sending'
  BY <1>41, <1>1 DEF Sending, Applied, Current, BackoffElapses, table, coordinator, timers,
        server, history, budget
<1>42. ASSUME NEW op \in Ops, Write(op) PROVE Sending'
  BY <1>42, <1>1 DEF Sending, Applied, Current, Write, table, coordinator, timers, server,
        history, budget
<1>43. ASSUME NEW op \in Ops, RetryOp(op) PROVE Sending'
  BY <1>43, <1>1, Draining DEF Sending, Applied, Current, RetryOp, Retry, table, timers, server,
        history, budget
<1>44. ASSUME NEW op \in Ops, Discard(op) PROVE Sending'
  BY <1>44, <1>1 DEF Sending, Applied, Current, Discard, table, coordinator, timers, server,
        history, budget
<1>46. CASE CountLeft
  BY <1>46, <1>1 DEF Sending, Applied, Current, CountLeft, server
<1>47. CASE EndDrain
  BY <1>47, <1>1 DEF Sending, Applied, Current, EndDrain, server
<1>48. CASE Pause
  BY <1>48, <1>1, Draining DEF Sending, Applied, Current, Pause, server
<1>49. CASE Resume
  BY <1>49, <1>1, Draining DEF Sending, Applied, Current, Resume, server
<1>50. ASSUME NEW op \in Ops, Resolve(op) PROVE Sending'
  BY <1>50, <1>1 DEF Sending, Applied, Current, Resolve, coordinator, server
<1>51. ASSUME NEW op \in Ops, NEW o \in Ops, KeepMine(op, o) PROVE Sending'
  BY <1>51, <1>1 DEF Sending, Applied, Current, KeepMine, coordinator, server
<1>45. CASE UNCHANGED outboxVars
  BY <1>45, <1>1 DEF Sending, Applied, Current, outboxVars, table, coordinator, timers, server,
        history, budget
<1> QED
  BY <1>21, <1>22, <1>23, <1>24, <1>25, <1>26, <1>27, <1>28, <1>29, <1>30, <1>31, <1>32, <1>33,
        <1>34, <1>35, <1>36, <1>37, <1>38, <1>39, <1>40, <1>41, <1>42, <1>43, <1>44,
        <1>45, <1>46, <1>47, <1>48, <1>49, <1>50, <1>51
     DEF OutboxNext, Machine, DrainStep, Environment

LEMMA KnownKept ==
  ASSUME IInv, [OutboxNext]_outboxVars
  PROVE  Known'
<1>1. OutboxTypeOK /\ Sending /\ Known /\ InOrder
  BY DEF IInv
<1>2. /\ batch # << >> => Current \in Ops /\ Current \in written
           /\ ToSet(Tail(batch)) \subseteq ToSet(batch)
      /\ stage = "wait" => batch # << >>
  BY <1>1, Flight
<1>3. queue \in Seq(Ops) /\ IsInjective(queue) /\ gone \in [Ops -> Endings] /\ written \subseteq Ops
  BY <1>1 DEF OutboxTypeOK
<1>4. \A K, a : a \in ToSet(Without(K)) <=> a \in ToSet(queue) /\ a \notin K
  BY <1>3, WithoutKeeps
<1>5. ToSet(<< >>) = {}
  BY DEF ToSet
<1>6. \A op \in Ops : Queued(op) <=> op \in ToSet(queue)
  BY DEF Queued
<1>21. CASE FlushSession
  BY <1>21, <1>1, Draining DEF Known, Queued, FlushSession, table, timers, server, history, budget
<1>22. CASE RetryTimer
  BY <1>22, <1>1, Draining DEF Known, Queued, RetryTimer, table, timers, server, history, budget
<1>23. CASE Poll
  BY <1>23, <1>1, Draining DEF Known, Queued, Poll, table, timers, server, history, budget
<1>24. CASE Probe
  BY <1>24, <1>1, <1>2, <1>3, <1>4, <1>5 DEF Known, Queued, Probe, table, coordinator, timers,
        server, history, budget
<1>25. CASE FetchBatch
  BY <1>25, <1>1, <1>3, BatchKeeps DEF Known, Queued, FetchBatch, table, coordinator, timers,
        server, history, budget
<1>26. CASE BatchDone
  BY <1>26, <1>1, <1>5, Ending DEF Known, Queued, BatchDone, table, timers, server, history, budget
<1>27. CASE TakeNext
  BY <1>27, <1>1, <1>2, <1>3, <1>4, <1>5 DEF Known, Queued, TakeNext, table, coordinator, timers,
        server, history, budget
<1>28. CASE Serve
  BY <1>28, <1>1, <1>2, <1>3, <1>4, <1>5 DEF Known, Queued, Serve, table, coordinator, timers,
        server, history, budget
<1>29. CASE Succeed
  BY <1>29, <1>1, <1>2, <1>3, <1>4, <1>5 DEF Known, Queued, Succeed, Delete, table, coordinator, timers,
        server, history, budget
<1>30. CASE StopTransient
  BY <1>30, <1>1, <1>2, <1>5, Ending DEF Known, Queued, StopTransient, MarkAttempt, table,
        timers, server, history, budget
<1>31. CASE DeadLetter
  BY <1>31, <1>1, <1>2, <1>3, <1>4, <1>5 DEF Known, Queued, DeadLetter, table, coordinator,
        timers, server, history, budget
<1>32. CASE RecordConflict
  BY <1>32, <1>1, <1>2, <1>3, <1>4, <1>5 DEF Known, Queued, RecordConflict, Delete, table, coordinator,
        timers, server, history, budget
<1>33. CASE GoOnline
  BY <1>33, <1>1, Draining DEF Known, Queued, GoOnline, table, timers, server, history, budget
<1>34. CASE SignIn
  BY <1>34, <1>1, <1>2, <1>3, <1>4, <1>5 DEF Known, Queued, SignIn, table, coordinator, timers,
        server, history, budget
<1>35. CASE RetryFailed
  BY <1>35, <1>1, Draining DEF Known, Queued, RetryFailed, Retry, table, timers, server, history,
        budget
<1>36. CASE NoAnswer
  BY <1>36, <1>1, <1>2, <1>5, Ending DEF Known, Queued, NoAnswer, MarkAttempt, table, timers,
        server, history, budget
<1>37. CASE GoOffline
  BY <1>37, <1>1, <1>2, <1>3, <1>4, <1>5 DEF Known, Queued, GoOffline, table, coordinator,
        timers, server, history, budget
<1>38. CASE SignOut
  BY <1>38, <1>1, <1>2, <1>3, <1>4, <1>5 DEF Known, Queued, SignOut, table, coordinator, timers,
        server, history, budget
<1>39. CASE Restart
  BY <1>39, <1>1, <1>2, <1>3, <1>4, <1>5 DEF Known, Queued, Restart, table, coordinator, timers,
        server, history, budget
<1>40. ASSUME NEW op \in Ops, ServeLate(op) PROVE Known'
  BY <1>40, <1>1, <1>2, <1>3, <1>4, <1>5 DEF Known, Queued, ServeLate, table, coordinator,
        timers, server, history, budget
<1>41. ASSUME NEW op \in Ops, BackoffElapses(op) PROVE Known'
  BY <1>41, <1>1, <1>2, <1>3, <1>4, <1>5 DEF Known, Queued, BackoffElapses, table, coordinator,
        timers, server, history, budget
<1>42. ASSUME NEW op \in Ops, Write(op) PROVE Known'
  <2> DEFINE K == {o \in folding : /\ op \in folding /\ Queued(o) /\ EntityOf[o] = EntityOf[op]}
  <2>1. /\ queue' = Append(Without(K), op)
        /\ gone' = [o \in Ops |-> IF o \in K THEN "folded" ELSE gone[o]]
        /\ written' = written \cup {op} /\ op \notin written
    BY <1>42 DEF Write
  <2>2. \A o \in K : o \in ToSet(queue)
    BY DEF Queued
  <2> HIDE DEF K
  <2>3. Without(K) \in Seq(Ops)
    BY <1>3, WithoutKeeps
  <2>4. ToSet(queue') = ToSet(Without(K)) \cup {op}
    BY <2>1, <2>3, AtEnd
  <2>5. \A o \in Ops : gone'[o] # "none" => o \in written' /\ o \notin ToSet(queue')
    BY <1>1, <1>4, <2>1, <2>2, <2>4 DEF Known, Queued
  <2>6. batch' = batch /\ late' = late
    BY <1>42 DEF Write, coordinator, server
  <2> QED BY <1>1, <1>4, <2>1, <2>4, <2>5, <2>6 DEF Known, Queued
<1>43. ASSUME NEW op \in Ops, RetryOp(op) PROVE Known'
  BY <1>43, <1>1, Draining DEF Known, Queued, RetryOp, Retry, table, timers, server, history, budget
<1>44. ASSUME NEW op \in Ops, Discard(op) PROVE Known'
  BY <1>44, <1>1, <1>2, <1>3, <1>4, <1>5 DEF Known, Queued, Discard, Delete, table, coordinator, timers,
        server, history, budget, DeadLettered
<1>46. CASE CountLeft
  BY <1>46, <1>1 DEF Known, Queued, CountLeft, table, server, history
<1>47. CASE EndDrain
  BY <1>47, <1>1 DEF Known, Queued, EndDrain, table, server, history
<1>48. CASE Pause
  BY <1>48, <1>1, Draining DEF Known, Queued, Pause, table, server, history
<1>49. CASE Resume
  BY <1>49, <1>1, Draining DEF Known, Queued, Resume, table, server, history
<1>50. ASSUME NEW op \in Ops, Resolve(op) PROVE Known'
  BY <1>50, <1>1, <1>3 DEF Known, Queued, Resolve, coordinator, server, history
<1>51. ASSUME NEW op \in Ops, NEW o \in Ops, KeepMine(op, o) PROVE Known'
  <2>1. /\ queue' = Append(queue, o) /\ o \notin written /\ written' = written \cup {o}
        /\ gone' = gone /\ batch' = batch /\ late' = late
    BY <1>51 DEF KeepMine, coordinator, server
  <2>2. ToSet(queue') = ToSet(queue) \cup {o}
    BY <1>3, <2>1, AtEnd
  <2> QED BY <1>1, <2>1, <2>2 DEF Known, Queued
<1>45. CASE UNCHANGED outboxVars
  BY <1>45, <1>1, <1>2, <1>3, <1>4, <1>5 DEF Known, Queued, outboxVars, table, coordinator,
        timers, server, history, budget
<1> QED
  BY <1>21, <1>22, <1>23, <1>24, <1>25, <1>26, <1>27, <1>28, <1>29, <1>30, <1>31, <1>32, <1>33,
        <1>34, <1>35, <1>36, <1>37, <1>38, <1>39, <1>40, <1>41, <1>42, <1>43, <1>44,
        <1>45, <1>46, <1>47, <1>48, <1>49, <1>50, <1>51
     DEF OutboxNext, Machine, DrainStep, Environment

LEMMA FailuresKept ==
  ASSUME IInv, [OutboxNext]_outboxVars
  PROVE  Failures'
<1>1. OutboxTypeOK /\ Sending /\ Known /\ InOrder /\ Failures
  BY DEF IInv
<1>2. /\ batch # << >> => Current \in Ops
      /\ stage = "wait" => batch # << >>
  BY <1>1, Flight
<1>3. attempts \in [Ops -> 0..MaxAttempts]
  BY <1>1 DEF OutboxTypeOK
<1>21. CASE FlushSession
  BY <1>21, <1>1 DEF Failures, FlushSession, table, history
<1>22. CASE RetryTimer
  BY <1>22, <1>1 DEF Failures, RetryTimer, table, history
<1>23. CASE Poll
  BY <1>23, <1>1 DEF Failures, Poll, table, history
<1>24. CASE Probe
  BY <1>24, <1>1 DEF Failures, Probe, table, coordinator, timers, server, history, budget
<1>25. CASE FetchBatch
  BY <1>25, <1>1 DEF Failures, FetchBatch, table, coordinator, timers, server, history, budget
<1>26. CASE BatchDone
  BY <1>26, <1>1 DEF Failures, BatchDone, table, coordinator, timers, server, history, budget
<1>27. CASE TakeNext
  BY <1>27, <1>1 DEF Failures, TakeNext, table, coordinator, timers, server, history, budget
<1>28. CASE Serve
  BY <1>28, <1>1 DEF Failures, Serve, table, coordinator, timers, server, history, budget
<1>29. CASE Succeed
  BY <1>29, <1>1, Deleting DEF Failures, Succeed, history
<1>30. CASE StopTransient
  BY <1>30, <1>1, <1>2, <1>3, Marking DEF Failures, StopTransient
<1>31. CASE DeadLetter
  BY <1>31, <1>1, <1>2, <1>3 DEF Failures, DeadLetter
<1>32. CASE RecordConflict
  BY <1>32, <1>1, Deleting DEF Failures, RecordConflict, history
<1>33. CASE GoOnline
  BY <1>33, <1>1 DEF Failures, GoOnline, table, history
<1>34. CASE SignIn
  BY <1>34, <1>1 DEF Failures, SignIn, table, coordinator, timers, server, history, budget
<1>35. CASE RetryFailed
  BY <1>35, <1>1, <1>3 DEF Failures, RetryFailed, Retry, history
<1>36. CASE NoAnswer
  BY <1>36, <1>1, <1>2, <1>3, Marking DEF Failures, NoAnswer
<1>37. CASE GoOffline
  BY <1>37, <1>1 DEF Failures, GoOffline, table, coordinator, timers, server, history, budget
<1>38. CASE SignOut
  BY <1>38, <1>1 DEF Failures, SignOut, table, coordinator, timers, server, history, budget
<1>39. CASE Restart
  BY <1>39, <1>1 DEF Failures, Restart, table, coordinator, timers, server, history, budget
<1>40. ASSUME NEW op \in Ops, ServeLate(op) PROVE Failures'
  BY <1>40, <1>1 DEF Failures, ServeLate, table, coordinator, timers, server, history, budget
<1>41. ASSUME NEW op \in Ops, BackoffElapses(op) PROVE Failures'
  BY <1>41, <1>1 DEF Failures, BackoffElapses, table, coordinator, timers, server, history, budget
<1>42. ASSUME NEW op \in Ops, Write(op) PROVE Failures'
  <2>1. /\ recent' \subseteq recent /\ failed' = failed
        /\ \A o \in Ops : attempts'[o] > 0 => attempts[o] > 0
    BY <1>42, <1>3 DEF Write
  <2> QED BY <1>1, <2>1 DEF Failures
<1>43. ASSUME NEW op \in Ops, RetryOp(op) PROVE Failures'
  BY <1>43, <1>1, <1>3 DEF Failures, RetryOp, Retry, history
<1>44. ASSUME NEW op \in Ops, Discard(op) PROVE Failures'
  BY <1>44, <1>1, Deleting DEF Failures, Discard, history
<1>46. CASE CountLeft
  BY <1>46, <1>1 DEF Failures, CountLeft, table, history
<1>47. CASE EndDrain
  BY <1>47, <1>1 DEF Failures, EndDrain, table, history
<1>48. CASE Pause
  BY <1>48, <1>1 DEF Failures, Pause, table, history
<1>49. CASE Resume
  BY <1>49, <1>1 DEF Failures, Resume, table, history
<1>50. ASSUME NEW op \in Ops, Resolve(op) PROVE Failures'
  BY <1>50, <1>1 DEF Failures, Resolve, history
<1>51. ASSUME NEW op \in Ops, NEW o \in Ops, KeepMine(op, o) PROVE Failures'
  BY <1>51, <1>1 DEF Failures, KeepMine
<1>45. CASE UNCHANGED outboxVars
  BY <1>45, <1>1 DEF Failures, outboxVars, table, coordinator, timers, server, history, budget
<1> QED
  BY <1>21, <1>22, <1>23, <1>24, <1>25, <1>26, <1>27, <1>28, <1>29, <1>30, <1>31, <1>32, <1>33,
        <1>34, <1>35, <1>36, <1>37, <1>38, <1>39, <1>40, <1>41, <1>42, <1>43, <1>44,
        <1>45, <1>46, <1>47, <1>48, <1>49, <1>50, <1>51
     DEF OutboxNext, Machine, DrainStep, Environment

LEMMA StillThere ==
  ASSUME NoLostWrite, IInv, written' = written, folding' = folding,
         \A o \in Ops : Accounted(o) => Accounted(o)',
         \A o \in Ops : gone[o] = "folded" => gone'[o] = "folded" \/ Accounted(o)'
  PROVE  NoLostWrite'
<1> SUFFICES ASSUME NEW op \in written, ~Accounted(op)'
             PROVE  /\ gone'[op] = "folded"
                    /\ \E o \in (written \cap folding) \ {op} : EntityOf[o] = EntityOf[op]
                         /\ Accounted(o)'
  BY DEF NoLostWrite
<1>1. written \subseteq Ops
  BY DEF IInv, OutboxTypeOK
<1>2. ~Accounted(op)
  BY <1>1
<1>3. gone[op] = "folded"
  BY <1>2 DEF NoLostWrite
<1>4. PICK o \in (written \cap folding) \ {op} : EntityOf[o] = EntityOf[op] /\ Accounted(o)
  BY <1>2 DEF NoLostWrite
<1>5. o \in Ops /\ Accounted(o)'
  BY <1>1, <1>4
<1> QED BY <1>1, <1>3, <1>4, <1>5

LEMMA LostKept ==
  ASSUME IInv, [OutboxNext]_outboxVars
  PROVE  NoLostWrite'
<1>1. OutboxTypeOK /\ Sending /\ Known /\ InOrder /\ NoLostWrite
  BY DEF IInv
<1>2. /\ batch # << >> => Current \in Ops
      /\ stage = "wait" => batch # << >>
  BY <1>1, Flight
<1>3. queue \in Seq(Ops) /\ IsInjective(queue) /\ gone \in [Ops -> Endings] /\ applied \in Seq(Ops)
  BY <1>1 DEF OutboxTypeOK
<1>4. \A K, a : a \in ToSet(Without(K)) <=> a \in ToSet(queue) /\ a \notin K
  BY <1>3, WithoutKeeps
<1>5. \A op \in Ops : ToSet(Append(applied, op)) = ToSet(applied) \cup {op}
  BY <1>3, AtEnd
<1>21. CASE FlushSession
  <2>1. queue' = queue /\ gone' = gone /\ written' = written /\ folding' = folding
    BY <1>21 DEF FlushSession, table, timers, server, history
  <2>2. ToSet(applied) \subseteq ToSet(applied')
    BY <1>21, <1>1, <1>2, <1>5 DEF FlushSession, table, timers, server, history
  <2> QED BY <1>1, <2>1, <2>2, StillThere DEF Accounted, Queued, Applied
<1>22. CASE RetryTimer
  <2>1. queue' = queue /\ gone' = gone /\ written' = written /\ folding' = folding
    BY <1>22 DEF RetryTimer, table, timers, server, history
  <2>2. ToSet(applied) \subseteq ToSet(applied')
    BY <1>22, <1>1, <1>2, <1>5 DEF RetryTimer, table, timers, server, history
  <2> QED BY <1>1, <2>1, <2>2, StillThere DEF Accounted, Queued, Applied
<1>23. CASE Poll
  <2>1. queue' = queue /\ gone' = gone /\ written' = written /\ folding' = folding
    BY <1>23 DEF Poll, table, timers, server, history
  <2>2. ToSet(applied) \subseteq ToSet(applied')
    BY <1>23, <1>1, <1>2, <1>5 DEF Poll, table, timers, server, history
  <2> QED BY <1>1, <2>1, <2>2, StillThere DEF Accounted, Queued, Applied
<1>24. CASE Probe
  <2>1. queue' = queue /\ gone' = gone /\ written' = written /\ folding' = folding
    BY <1>24 DEF Probe, table, coordinator, timers, server, history, budget
  <2>2. ToSet(applied) \subseteq ToSet(applied')
    BY <1>24, <1>1, <1>2, <1>5 DEF Probe, table, coordinator, timers, server, history, budget
  <2> QED BY <1>1, <2>1, <2>2, StillThere DEF Accounted, Queued, Applied
<1>25. CASE FetchBatch
  <2>1. queue' = queue /\ gone' = gone /\ written' = written /\ folding' = folding
    BY <1>25 DEF FetchBatch, table, coordinator, timers, server, history, budget
  <2>2. ToSet(applied) \subseteq ToSet(applied')
    BY <1>25, <1>1, <1>2, <1>5 DEF FetchBatch, table, coordinator, timers, server, history, budget
  <2> QED BY <1>1, <2>1, <2>2, StillThere DEF Accounted, Queued, Applied
<1>26. CASE BatchDone
  <2>1. queue' = queue /\ gone' = gone /\ written' = written /\ folding' = folding
    BY <1>26 DEF BatchDone, table, server, history
  <2>2. ToSet(applied) \subseteq ToSet(applied')
    BY <1>26, <1>1, <1>2, <1>5 DEF BatchDone, table, server, history
  <2> QED BY <1>1, <2>1, <2>2, StillThere DEF Accounted, Queued, Applied
<1>27. CASE TakeNext
  <2>1. queue' = queue /\ gone' = gone /\ written' = written /\ folding' = folding
    BY <1>27 DEF TakeNext, table, coordinator, timers, server, history, budget
  <2>2. ToSet(applied) \subseteq ToSet(applied')
    BY <1>27, <1>1, <1>2, <1>5 DEF TakeNext, table, coordinator, timers, server, history, budget
  <2> QED BY <1>1, <2>1, <2>2, StillThere DEF Accounted, Queued, Applied
<1>28. CASE Serve
  <2>1. queue' = queue /\ gone' = gone /\ written' = written /\ folding' = folding
    BY <1>28 DEF Serve, table, coordinator, timers, server, history, budget
  <2>2. ToSet(applied) \subseteq ToSet(applied')
    BY <1>28, <1>1, <1>2, <1>5 DEF Serve, table, coordinator, timers, server, history, budget
  <2> QED BY <1>1, <2>1, <2>2, StillThere DEF Accounted, Queued, Applied
<1>29. CASE Succeed
  <2>1. Applied(Current)
    BY <1>29, <1>1 DEF Succeed, Sending
  <2>2. /\ queue' = Without({Current}) /\ gone' = gone /\ applied' = applied
        /\ written' = written /\ folding' = folding
    BY <1>29 DEF Succeed, Delete, server, history
  <2> QED BY <1>1, <1>4, <2>1, <2>2, StillThere DEF Accounted, Queued, Applied
<1>30. CASE StopTransient
  <2>1. queue' = queue /\ gone' = gone /\ written' = written /\ folding' = folding
    BY <1>30 DEF StopTransient, MarkAttempt, server, history
  <2>2. ToSet(applied) \subseteq ToSet(applied')
    BY <1>30, <1>1, <1>2, <1>5 DEF StopTransient, MarkAttempt, server, history
  <2> QED BY <1>1, <2>1, <2>2, StillThere DEF Accounted, Queued, Applied
<1>31. CASE DeadLetter
  <2>1. queue' = queue /\ gone' = gone /\ written' = written /\ folding' = folding
    BY <1>31 DEF DeadLetter, table, coordinator, timers, server, history, budget
  <2>2. ToSet(applied) \subseteq ToSet(applied')
    BY <1>31, <1>1, <1>2, <1>5 DEF DeadLetter, table, coordinator, timers, server, history, budget
  <2> QED BY <1>1, <2>1, <2>2, StillThere DEF Accounted, Queued, Applied
<1>32. CASE RecordConflict
  <2>1. /\ queue' = Without({Current}) /\ gone' = [gone EXCEPT ![Current] = "conflict"]
        /\ applied' = applied /\ written' = written /\ folding' = folding /\ Current \in Ops
    BY <1>32, <1>2 DEF RecordConflict, Delete, server, history
  <2>2. \A o \in Ops : o # Current => gone'[o] = gone[o]
    BY <1>3, <2>1
  <2>3. gone'[Current] = "conflict"
    BY <1>3, <2>1
  <2> QED BY <1>1, <1>4, <2>1, <2>2, <2>3, StillThere DEF Accounted, Queued, Applied
<1>33. CASE GoOnline
  <2>1. queue' = queue /\ gone' = gone /\ written' = written /\ folding' = folding
    BY <1>33 DEF GoOnline, table, timers, server, history
  <2>2. ToSet(applied) \subseteq ToSet(applied')
    BY <1>33, <1>1, <1>2, <1>5 DEF GoOnline, table, timers, server, history
  <2> QED BY <1>1, <2>1, <2>2, StillThere DEF Accounted, Queued, Applied
<1>34. CASE SignIn
  <2>1. queue' = queue /\ gone' = gone /\ written' = written /\ folding' = folding
    BY <1>34 DEF SignIn, table, coordinator, timers, server, history, budget
  <2>2. ToSet(applied) \subseteq ToSet(applied')
    BY <1>34, <1>1, <1>2, <1>5 DEF SignIn, table, coordinator, timers, server, history, budget
  <2> QED BY <1>1, <2>1, <2>2, StillThere DEF Accounted, Queued, Applied
<1>35. CASE RetryFailed
  <2>1. queue' = queue /\ gone' = gone /\ written' = written /\ folding' = folding
    BY <1>35 DEF RetryFailed, Retry, table, server, history
  <2>2. ToSet(applied) \subseteq ToSet(applied')
    BY <1>35, <1>1, <1>2, <1>5 DEF RetryFailed, Retry, table, server, history
  <2> QED BY <1>1, <2>1, <2>2, StillThere DEF Accounted, Queued, Applied
<1>36. CASE NoAnswer
  <2>1. queue' = queue /\ gone' = gone /\ written' = written /\ folding' = folding
    BY <1>36 DEF NoAnswer, MarkAttempt, server, history
  <2>2. ToSet(applied) \subseteq ToSet(applied')
    BY <1>36, <1>1, <1>2, <1>5 DEF NoAnswer, MarkAttempt, server, history
  <2> QED BY <1>1, <2>1, <2>2, StillThere DEF Accounted, Queued, Applied
<1>37. CASE GoOffline
  <2>1. queue' = queue /\ gone' = gone /\ written' = written /\ folding' = folding
    BY <1>37 DEF GoOffline, table, coordinator, timers, server, history, budget
  <2>2. ToSet(applied) \subseteq ToSet(applied')
    BY <1>37, <1>1, <1>2, <1>5 DEF GoOffline, table, coordinator, timers, server, history, budget
  <2> QED BY <1>1, <2>1, <2>2, StillThere DEF Accounted, Queued, Applied
<1>38. CASE SignOut
  <2>1. queue' = queue /\ gone' = gone /\ written' = written /\ folding' = folding
    BY <1>38 DEF SignOut, table, coordinator, timers, server, history, budget
  <2>2. ToSet(applied) \subseteq ToSet(applied')
    BY <1>38, <1>1, <1>2, <1>5 DEF SignOut, table, coordinator, timers, server, history, budget
  <2> QED BY <1>1, <2>1, <2>2, StillThere DEF Accounted, Queued, Applied
<1>39. CASE Restart
  <2>1. queue' = queue /\ gone' = gone /\ written' = written /\ folding' = folding
    BY <1>39 DEF Restart, table, coordinator, timers, server, history, budget
  <2>2. ToSet(applied) \subseteq ToSet(applied')
    BY <1>39, <1>1, <1>2, <1>5 DEF Restart, table, coordinator, timers, server, history, budget
  <2> QED BY <1>1, <2>1, <2>2, StillThere DEF Accounted, Queued, Applied
<1>40. ASSUME NEW op \in Ops, ServeLate(op) PROVE NoLostWrite'
  <2>1. queue' = queue /\ gone' = gone /\ written' = written /\ folding' = folding
    BY <1>40 DEF ServeLate, table, coordinator, timers, server, history, budget
  <2>2. ToSet(applied) \subseteq ToSet(applied')
    BY <1>40, <1>1, <1>2, <1>5 DEF ServeLate, table, coordinator, timers, server, history, budget
  <2> QED BY <1>1, <2>1, <2>2, StillThere DEF Accounted, Queued, Applied
<1>41. ASSUME NEW op \in Ops, BackoffElapses(op) PROVE NoLostWrite'
  <2>1. queue' = queue /\ gone' = gone /\ written' = written /\ folding' = folding
    BY <1>41 DEF BackoffElapses, table, coordinator, timers, server, history, budget
  <2>2. ToSet(applied) \subseteq ToSet(applied')
    BY <1>41, <1>1, <1>2, <1>5 DEF BackoffElapses, table, coordinator, timers, server, history,
          budget
  <2> QED BY <1>1, <2>1, <2>2, StillThere DEF Accounted, Queued, Applied
<1>42. ASSUME NEW op \in Ops, Write(op) PROVE NoLostWrite'
  <2> DEFINE K == {o \in folding : /\ op \in folding /\ Queued(o) /\ EntityOf[o] = EntityOf[op]}
  <2>1. /\ queue' = Append(Without(K), op)
        /\ gone' = [o \in Ops |-> IF o \in K THEN "folded" ELSE gone[o]]
        /\ written' = written \cup {op} /\ op \notin written
        /\ applied' = applied /\ folding' = folding
    BY <1>42 DEF Write, server
  <2>2. \A o \in K : /\ op \in folding /\ o \in ToSet(queue) /\ EntityOf[o] = EntityOf[op]
    BY DEF Queued
  <2> HIDE DEF K
  <2>3. Without(K) \in Seq(Ops)
    BY <1>3, WithoutKeeps
  <2>4. ToSet(queue') = ToSet(Without(K)) \cup {op}
    BY <2>1, <2>3, AtEnd
  <2>5. Accounted(op)' /\ op \in written'
    BY <2>1, <2>4 DEF Accounted, Queued
  <2>6. \A o \in Ops : Accounted(o) /\ o \notin K => Accounted(o)'
    BY <1>4, <2>1, <2>4 DEF Accounted, Queued, Applied
  <2>7. written \subseteq Ops
    BY <1>1 DEF OutboxTypeOK
  <2>8. ASSUME NEW w \in written, w \in K
        PROVE  gone'[w] = "folded" /\ op \in folding /\ op # w /\ EntityOf[op] = EntityOf[w]
    BY <2>1, <2>2, <2>7, <2>8
  <2>9. ASSUME NEW w \in written, w \notin K, ~Accounted(w)
        PROVE  /\ gone'[w] = "folded"
               /\ \E o \in (written' \cap folding) \ {w} : EntityOf[o] = EntityOf[w]
                    /\ Accounted(o)'
    <3>1. gone[w] = "folded"
      BY <1>1, <2>9 DEF NoLostWrite
    <3>2. PICK o \in (written \cap folding) \ {w} : EntityOf[o] = EntityOf[w] /\ Accounted(o)
      BY <1>1, <2>9 DEF NoLostWrite
    <3>3. gone'[w] = "folded"
      BY <2>1, <2>7, <2>9, <3>1
    <3>4. CASE o \notin K
      BY <2>1, <2>6, <2>7, <3>2, <3>3, <3>4
    <3>5. CASE o \in K
      <4>1. op \in (written' \cap folding) \ {w} /\ EntityOf[op] = EntityOf[w]
        BY <2>1, <2>2, <3>2, <3>5
      <4> QED BY <2>5, <3>3, <4>1
    <3> QED BY <3>4, <3>5
  <2>10. ASSUME NEW w \in written'
         PROVE  \/ Accounted(w)'
                \/ /\ gone'[w] = "folded"
                   /\ \E o \in (written' \cap folding) \ {w} : EntityOf[o] = EntityOf[w]
                        /\ Accounted(o)'
    <3>1. CASE w = op
      BY <2>5, <3>1
    <3>2. CASE w \in written /\ w \in K
      BY <2>5, <2>8, <3>2
    <3>3. CASE w \in written /\ w \notin K
      BY <2>6, <2>7, <2>9, <3>3
    <3> QED BY <2>1, <3>1, <3>2, <3>3
  <2> QED BY <2>1, <2>10 DEF NoLostWrite
<1>43. ASSUME NEW op \in Ops, RetryOp(op) PROVE NoLostWrite'
  <2>1. queue' = queue /\ gone' = gone /\ written' = written /\ folding' = folding
    BY <1>43 DEF RetryOp, Retry, table, server, history
  <2>2. ToSet(applied) \subseteq ToSet(applied')
    BY <1>43, <1>1, <1>2, <1>5 DEF RetryOp, Retry, table, server, history
  <2> QED BY <1>1, <2>1, <2>2, StillThere DEF Accounted, Queued, Applied
<1>44. ASSUME NEW op \in Ops, Discard(op) PROVE NoLostWrite'
  <2>1. /\ queue' = Without({op}) /\ gone' = [gone EXCEPT ![op] = "discarded"]
        /\ applied' = applied /\ written' = written /\ folding' = folding /\ op \in Ops
    BY <1>44, <1>2 DEF Discard, Delete, server, history
  <2>2. \A o \in Ops : o # op => gone'[o] = gone[o]
    BY <1>3, <2>1
  <2>3. gone'[op] = "discarded"
    BY <1>3, <2>1
  <2> QED BY <1>1, <1>4, <2>1, <2>2, <2>3, StillThere DEF Accounted, Queued, Applied
<1>46. CASE CountLeft
  <2>1. queue' = queue /\ gone' = gone /\ written' = written /\ folding' = folding
    BY <1>46 DEF CountLeft, table, history
  <2>2. ToSet(applied) \subseteq ToSet(applied')
    BY <1>46 DEF CountLeft, server
  <2> QED BY <1>1, <2>1, <2>2, StillThere DEF Accounted, Queued, Applied
<1>47. CASE EndDrain
  <2>1. queue' = queue /\ gone' = gone /\ written' = written /\ folding' = folding
    BY <1>47 DEF EndDrain, table, history
  <2>2. ToSet(applied) \subseteq ToSet(applied')
    BY <1>47 DEF EndDrain, server
  <2> QED BY <1>1, <2>1, <2>2, StillThere DEF Accounted, Queued, Applied
<1>48. CASE Pause
  <2>1. queue' = queue /\ gone' = gone /\ written' = written /\ folding' = folding
    BY <1>48 DEF Pause, table, history
  <2>2. ToSet(applied) \subseteq ToSet(applied')
    BY <1>48 DEF Pause, server
  <2> QED BY <1>1, <2>1, <2>2, StillThere DEF Accounted, Queued, Applied
<1>49. CASE Resume
  <2>1. queue' = queue /\ gone' = gone /\ written' = written /\ folding' = folding
    BY <1>49 DEF Resume, table, history
  <2>2. ToSet(applied) \subseteq ToSet(applied')
    BY <1>49 DEF Resume, server
  <2> QED BY <1>1, <2>1, <2>2, StillThere DEF Accounted, Queued, Applied
<1>50. ASSUME NEW op \in Ops, Resolve(op) PROVE NoLostWrite'
  <2>1. /\ queue' = queue /\ gone' = [gone EXCEPT ![op] = "resolved"] /\ gone[op] = "conflict"
        /\ applied' = applied /\ written' = written /\ folding' = folding
    BY <1>50 DEF Resolve, server, history
  <2>2. gone'[op] = "resolved" /\ \A o \in Ops : o # op => gone'[o] = gone[o]
    BY <1>3, <2>1
  <2> QED BY <1>1, <2>1, <2>2, StillThere DEF Accounted, Queued, Applied
<1>51. ASSUME NEW op \in Ops, NEW o \in Ops, KeepMine(op, o) PROVE NoLostWrite'
  <2>1. /\ queue' = Append(queue, o) /\ written' = written \cup {o} /\ gone' = gone
        /\ applied' = applied /\ folding' = folding
    BY <1>51 DEF KeepMine, server
  <2>2. ToSet(queue') = ToSet(queue) \cup {o}
    BY <1>3, <2>1, AtEnd
  <2>3. Accounted(o)' /\ \A w : Accounted(w) => Accounted(w)'
    BY <2>1, <2>2 DEF Accounted, Queued, Applied
  <2> QED BY <1>1, <2>1, <2>3 DEF NoLostWrite
<1>45. CASE UNCHANGED outboxVars
  BY <1>45, <1>1 DEF outboxVars, NoLostWrite, Accounted, Queued, Applied, table, coordinator,
        timers, server, history, budget
<1> QED
  BY <1>21, <1>22, <1>23, <1>24, <1>25, <1>26, <1>27, <1>28, <1>29, <1>30, <1>31, <1>32, <1>33,
        <1>34, <1>35, <1>36, <1>37, <1>38, <1>39, <1>40, <1>41, <1>42, <1>43, <1>44,
        <1>45, <1>46, <1>47, <1>48, <1>49, <1>50, <1>51
     DEF OutboxNext, Machine, DrainStep, Environment

LEMMA BatchSame ==
  ASSUME InOrder, batch' = batch, late' \subseteq late,
         \A a, b \in Ops : Clean(a, b)' => Clean(a, b)
  PROVE  InOrder'
<1>1. ASSUME NEW a \in Ops, NEW b \in Ops, Clean(a, b)'
      PROVE  (b \in ToSet(batch') => Before(batch', a, b)) /\ b \notin late'
  BY <1>1 DEF InOrder
<1>2. IsInjective(batch')
  BY DEF InOrder
<1> QED BY <1>1, <1>2 DEF InOrder

LEMMA BatchMoves ==
  ASSUME IInv, batch # << >>, batch' = Tail(batch), late' \subseteq late,
         \A a, b \in Ops : Clean(a, b)' => Clean(a, b) /\ a # Current
  PROVE  InOrder'
<1>1. OutboxTypeOK /\ Sending /\ Known /\ InOrder
  BY DEF IInv
<1>2. /\ IsInjective(Tail(batch)) /\ ToSet(Tail(batch)) \subseteq ToSet(batch)
      /\ \A a, b : Before(batch, a, b) /\ a # Current => Before(Tail(batch), a, b)
  BY <1>1, Flight
<1>3. ASSUME NEW a \in Ops, NEW b \in Ops, Clean(a, b)'
      PROVE  (b \in ToSet(batch') => Before(batch', a, b)) /\ b \notin late'
  BY <1>1, <1>2, <1>3 DEF InOrder
<1>4. IsInjective(batch')
  BY <1>2
<1> QED BY <1>3, <1>4 DEF InOrder

LEMMA BatchEnds ==
  ASSUME IInv, batch' = << >>,
         late' \subseteq late \/ (batch # << >> /\ late' \subseteq late \cup {Current}),
         \A a, b \in Ops : Clean(a, b)' => Clean(a, b)
  PROVE  InOrder'
<1>1. OutboxTypeOK /\ Sending /\ Known /\ InOrder
  BY DEF IInv
<1>2. batch # << >> => Current \in ToSet(batch) /\ \A a : ~Before(batch, a, Current)
  BY <1>1, Flight
<1>3. ToSet(<< >>) = {} /\ IsInjective(<< >>)
  BY DEF ToSet, IsInjective
<1>4. ASSUME NEW a \in Ops, NEW b \in Ops, Clean(a, b)'
      PROVE  b \notin ToSet(batch') /\ b \notin late'
  BY <1>1, <1>2, <1>3, <1>4 DEF InOrder
<1>5. IsInjective(batch')
  BY <1>3
<1> QED BY <1>4, <1>5 DEF InOrder

LEMMA OrderKept ==
  ASSUME IInv, [OutboxNext]_outboxVars
  PROVE  InOrder'
<1>1. OutboxTypeOK /\ Sending /\ Known /\ InOrder /\ Failures
  BY DEF IInv
<1>2. /\ batch # << >> => Current \in Ops
      /\ stage = "wait" => batch # << >>
  BY <1>1, Flight
<1>3. queue \in Seq(Ops) /\ IsInjective(queue)
  BY <1>1 DEF OutboxTypeOK
<1>4. \A K, a, b : Before(Without(K), a, b) => Before(queue, a, b) /\ a \notin K
  BY <1>3, WithoutKeeps
<1>21. CASE FlushSession
  <2>1. batch' = batch /\ late' \subseteq late /\ queue' = queue /\ failed' = failed
    BY <1>21, <1>1, Draining DEF FlushSession, table, timers, server, history
  <2> QED BY <1>1, <2>1, BatchSame DEF Clean
<1>22. CASE RetryTimer
  <2>1. batch' = batch /\ late' \subseteq late /\ queue' = queue /\ failed' = failed
    BY <1>22, <1>1, Draining DEF RetryTimer, table, timers, server, history
  <2> QED BY <1>1, <2>1, BatchSame DEF Clean
<1>23. CASE Poll
  <2>1. batch' = batch /\ late' \subseteq late /\ queue' = queue /\ failed' = failed
    BY <1>23, <1>1, Draining DEF Poll, table, timers, server, history
  <2> QED BY <1>1, <2>1, BatchSame DEF Clean
<1>24. CASE Probe
  <2>1. batch' = batch /\ late' \subseteq late /\ queue' = queue /\ failed' = failed
    BY <1>24 DEF Probe, table, coordinator, timers, server, history, budget
  <2> QED BY <1>1, <2>1, BatchSame DEF Clean
<1>25. CASE FetchBatch
  <2>1. batch' = ReadyBatch /\ late' = late /\ queue' = queue /\ failed' = failed
    BY <1>25 DEF FetchBatch, table, server, history
  <2>2. /\ IsInjective(ReadyBatch)
        /\ \A op \in ToSet(ReadyBatch) : op \in Ops /\ Ready(op)
        /\ \A a, b \in Ops : Before(queue, a, b) /\ Ready(a) /\ b \in ToSet(ReadyBatch)
                               => Before(ReadyBatch, a, b)
    BY <1>3, BatchKeeps
  <2>3. \A a \in Ops : a \notin failed => attempts[a] < MaxAttempts /\ a \notin recent
    BY <1>1, Constants DEF Failures, OutboxTypeOK
  <2>4. ASSUME NEW a \in Ops, NEW b \in Ops, Clean(a, b), b \in ToSet(ReadyBatch)
        PROVE  Before(ReadyBatch, a, b)
    <3>1. Ready(a)
      BY <2>2, <2>3, <2>4, RowAssumption DEF Clean, Ready
    <3> QED BY <2>2, <2>4, <3>1 DEF Clean
  <2>5. \A a, b \in Ops : Clean(a, b)' => Clean(a, b)
    BY <2>1 DEF Clean
  <2>6. ASSUME NEW a \in Ops, NEW b \in Ops, Clean(a, b)'
        PROVE  (b \in ToSet(batch') => Before(batch', a, b)) /\ b \notin late'
    BY <1>1, <2>1, <2>4, <2>5, <2>6 DEF InOrder
  <2> QED BY <2>1, <2>2, <2>6 DEF InOrder
<1>26. CASE BatchDone
  <2>1. batch' = << >> /\ queue' = queue /\ failed \subseteq failed'
    BY <1>26, <1>1, Ending DEF BatchDone, table, server, history
  <2>2. late' \subseteq late
    BY <1>26, <1>2 DEF BatchDone, table, server, history
  <2> QED BY <2>1, <2>2, BatchEnds DEF Clean
<1>27. CASE TakeNext
  <2>1. late' \subseteq late /\ queue' = queue /\ failed' = failed
    BY <1>27 DEF TakeNext, table, server, history
  <2>2. CASE Queued(Head(batch))
    <3>1. batch' = batch
      BY <1>27, <2>2 DEF TakeNext
    <3> QED BY <1>1, <2>1, <3>1, BatchSame DEF Clean
  <2>3. CASE ~Queued(Head(batch))
    <3>1. batch' = Tail(batch) /\ batch # << >>
      BY <1>27, <2>3 DEF TakeNext
    <3>2. \A a, b : Before(queue, a, b) => a # Current
      BY <1>3, <2>3, Placed DEF Queued, Current
    <3> QED BY <2>1, <3>1, <3>2, BatchMoves DEF Clean
  <2> QED BY <2>2, <2>3
<1>28. CASE Serve
  <2>1. batch' = batch /\ late' \subseteq late /\ queue' = queue /\ failed' = failed
    BY <1>28 DEF Serve, table, coordinator, timers, server, history, budget
  <2> QED BY <1>1, <2>1, BatchSame DEF Clean
<1>29. CASE Succeed
  <2>1. /\ batch # << >> /\ batch' = Tail(batch) /\ late' \subseteq late
        /\ queue' = Without({Current}) /\ failed' = failed
    BY <1>29, <1>2 DEF Succeed, Delete, server, history
  <2> QED BY <1>4, <2>1, BatchMoves DEF Clean
<1>30. CASE StopTransient
  <2>1. batch' = << >> /\ queue' = queue /\ failed \subseteq failed'
    BY <1>30, <1>1, Ending DEF StopTransient, MarkAttempt, server, history
  <2>2. late' \subseteq late
    BY <1>30, <1>2 DEF StopTransient, MarkAttempt, server, history
  <2> QED BY <2>1, <2>2, BatchEnds DEF Clean
<1>31. CASE DeadLetter
  <2>1. /\ batch # << >> /\ batch' = Tail(batch) /\ late' \subseteq late
        /\ queue' = queue /\ failed' = failed \cup {Current}
    BY <1>31, <1>2 DEF DeadLetter, server
  <2> QED BY <2>1, BatchMoves DEF Clean
<1>32. CASE RecordConflict
  <2>1. /\ batch # << >> /\ batch' = Tail(batch) /\ late' \subseteq late
        /\ queue' = Without({Current}) /\ failed' = failed
    BY <1>32, <1>2 DEF RecordConflict, Delete, server, history
  <2> QED BY <1>4, <2>1, BatchMoves DEF Clean
<1>33. CASE GoOnline
  <2>1. batch' = batch /\ late' \subseteq late /\ queue' = queue /\ failed' = failed
    BY <1>33, <1>1, Draining DEF GoOnline, table, timers, server, history
  <2> QED BY <1>1, <2>1, BatchSame DEF Clean
<1>34. CASE SignIn
  <2>1. batch' = batch /\ late' \subseteq late /\ queue' = queue /\ failed' = failed
    BY <1>34 DEF SignIn, table, coordinator, timers, server, history, budget
  <2> QED BY <1>1, <2>1, BatchSame DEF Clean
<1>35. CASE RetryFailed
  <2>1. batch' = batch /\ late' \subseteq late /\ queue' = queue /\ failed' = failed
    BY <1>35, <1>1, Draining DEF RetryFailed, Retry, server, history
  <2> QED BY <1>1, <2>1, BatchSame DEF Clean
<1>36. CASE NoAnswer
  <2>1. batch' = << >> /\ queue' = queue /\ failed \subseteq failed'
    BY <1>36, <1>1, Ending DEF NoAnswer, MarkAttempt, history
  <2>2. late' \subseteq late \/ (batch # << >> /\ late' \subseteq late \cup {Current})
    BY <1>36, <1>2 DEF NoAnswer, MarkAttempt, history
  <2> QED BY <2>1, <2>2, BatchEnds DEF Clean
<1>37. CASE GoOffline
  <2>1. batch' = batch /\ late' \subseteq late /\ queue' = queue /\ failed' = failed
    BY <1>37 DEF GoOffline, table, coordinator, timers, server, history, budget
  <2> QED BY <1>1, <2>1, BatchSame DEF Clean
<1>38. CASE SignOut
  <2>1. batch' = batch /\ late' \subseteq late /\ queue' = queue /\ failed' = failed
    BY <1>38 DEF SignOut, table, coordinator, timers, server, history, budget
  <2> QED BY <1>1, <2>1, BatchSame DEF Clean
<1>39. CASE Restart
  <2>1. batch' = << >> /\ queue' = queue /\ failed \subseteq failed'
    BY <1>39 DEF Restart, table, history
  <2>2. late' \subseteq late \/ (batch # << >> /\ late' \subseteq late \cup {Current})
    BY <1>39, <1>2 DEF Restart, table, history
  <2> QED BY <2>1, <2>2, BatchEnds DEF Clean
<1>40. ASSUME NEW op \in Ops, ServeLate(op) PROVE InOrder'
  <2>1. batch' = batch /\ late' \subseteq late /\ queue' = queue /\ failed' = failed
    BY <1>40 DEF ServeLate, table, coordinator, timers, server, history, budget
  <2> QED BY <1>1, <2>1, BatchSame DEF Clean
<1>41. ASSUME NEW op \in Ops, BackoffElapses(op) PROVE InOrder'
  <2>1. batch' = batch /\ late' \subseteq late /\ queue' = queue /\ failed' = failed
    BY <1>41 DEF BackoffElapses, table, coordinator, timers, server, history, budget
  <2> QED BY <1>1, <2>1, BatchSame DEF Clean
<1>42. ASSUME NEW op \in Ops, Write(op) PROVE InOrder'
  <2> DEFINE K == {o \in folding : /\ op \in folding /\ Queued(o) /\ EntityOf[o] = EntityOf[op]}
  <2>1. /\ queue' = Append(Without(K), op) /\ op \notin written
        /\ batch' = batch /\ late' = late /\ failed' = failed
    BY <1>42 DEF Write, coordinator, server
  <2> HIDE DEF K
  <2>2. Without(K) \in Seq(Ops)
    BY <1>3, WithoutKeeps
  <2>3. \A a, b : Before(queue', a, b) => Before(queue, a, b) \/ b = op
    BY <1>4, <2>1, <2>2, AtEnd
  <2>4. op \notin ToSet(batch) /\ op \notin late
    BY <1>1, <2>1 DEF Known
  <2>5. ASSUME NEW a \in Ops, NEW b \in Ops, Clean(a, b)'
        PROVE  (b \in ToSet(batch') => Before(batch', a, b)) /\ b \notin late'
    <3>1. CASE b = op
      BY <2>1, <2>4, <3>1
    <3>2. CASE b # op
      <4>1. Clean(a, b)
        BY <2>1, <2>3, <2>5, <3>2 DEF Clean
      <4> QED BY <1>1, <2>1, <4>1 DEF InOrder
    <3> QED BY <3>1, <3>2
  <2>6. IsInjective(batch')
    BY <1>1, <2>1 DEF InOrder
  <2> QED BY <2>5, <2>6 DEF InOrder
<1>43. ASSUME NEW op \in Ops, RetryOp(op) PROVE InOrder'
  <2>1. batch' = batch /\ late' \subseteq late /\ queue' = queue /\ failed' = failed
    BY <1>43, <1>1, Draining DEF RetryOp, Retry, server, history
  <2> QED BY <1>1, <2>1, BatchSame DEF Clean
<1>44. ASSUME NEW op \in Ops, Discard(op) PROVE InOrder'
  <2>1. batch' = batch /\ late' \subseteq late /\ queue' = Without({op}) /\ failed' = failed
    BY <1>44 DEF Discard, Delete, coordinator, server, history
  <2> QED BY <1>1, <1>4, <2>1, BatchSame DEF Clean
<1>46. CASE CountLeft
  <2>1. batch' = batch /\ late' \subseteq late /\ queue' = queue /\ failed' = failed
    BY <1>46 DEF CountLeft, table, server, history
  <2> QED BY <1>1, <2>1, BatchSame DEF Clean
<1>47. CASE EndDrain
  <2>1. batch' = batch /\ late' \subseteq late /\ queue' = queue /\ failed' = failed
    BY <1>47 DEF EndDrain, table, server, history
  <2> QED BY <1>1, <2>1, BatchSame DEF Clean
<1>48. CASE Pause
  <2>1. batch' = batch /\ late' \subseteq late /\ queue' = queue /\ failed' = failed
    BY <1>48, <1>1, Draining DEF Pause, table, server, history
  <2> QED BY <1>1, <2>1, BatchSame DEF Clean
<1>49. CASE Resume
  <2>1. batch' = batch /\ late' \subseteq late /\ queue' = queue /\ failed' = failed
    BY <1>49, <1>1, Draining DEF Resume, table, server, history
  <2> QED BY <1>1, <2>1, BatchSame DEF Clean
<1>50. ASSUME NEW op \in Ops, Resolve(op) PROVE InOrder'
  <2>1. batch' = batch /\ late' \subseteq late /\ queue' = queue /\ failed' = failed
    BY <1>50 DEF Resolve, coordinator, server, history
  <2> QED BY <1>1, <2>1, BatchSame DEF Clean
<1>51. ASSUME NEW op \in Ops, NEW o \in Ops, KeepMine(op, o) PROVE InOrder'
  <2>1. /\ queue' = Append(queue, o) /\ o \notin written
        /\ batch' = batch /\ late' = late /\ failed' = failed
    BY <1>51 DEF KeepMine, coordinator, server
  <2>2. \A a, b : Before(queue', a, b) => Before(queue, a, b) \/ b = o
    BY <1>3, <2>1, AtEnd
  <2>3. o \notin ToSet(batch) /\ o \notin late
    BY <1>1, <2>1 DEF Known
  <2>4. ASSUME NEW a \in Ops, NEW b \in Ops, Clean(a, b)', b # o
        PROVE  Clean(a, b)
    BY <2>1, <2>2, <2>4 DEF Clean
  <2>5. ASSUME NEW a \in Ops, NEW b \in Ops, Clean(a, b)'
        PROVE  (b \in ToSet(batch') => Before(batch', a, b)) /\ b \notin late'
    BY <1>1, <2>1, <2>3, <2>4, <2>5 DEF InOrder
  <2>6. IsInjective(batch')
    BY <1>1, <2>1 DEF InOrder
  <2> QED BY <2>5, <2>6 DEF InOrder
<1>45. CASE UNCHANGED outboxVars
  BY <1>45, <1>1, BatchSame DEF outboxVars, Clean, table, coordinator, timers, server, history,
        budget
<1> QED
  BY <1>21, <1>22, <1>23, <1>24, <1>25, <1>26, <1>27, <1>28, <1>29, <1>30, <1>31, <1>32, <1>33,
        <1>34, <1>35, <1>36, <1>37, <1>38, <1>39, <1>40, <1>41, <1>42, <1>43, <1>44,
        <1>45, <1>46, <1>47, <1>48, <1>49, <1>50, <1>51
     DEF OutboxNext, Machine, DrainStep, Environment

LEMMA InvariantInitially == OutboxInit => IInv
<1> SUFFICES ASSUME OutboxInit PROVE IInv
  OBVIOUS
<1>1. OutboxTypeOK
  <2>1. << >> \in Seq(Ops) /\ IsInjective(<< >>)
    BY DEF IsInjective
  <2>2. attempts \in [Ops -> 0..MaxAttempts] /\ trouble \in 0..Trouble /\ retries \in 0..Retries
    BY Constants DEF OutboxInit
  <2>3. gone \in [Ops -> Endings] /\ stage \in Stages /\ repo \in 1..Repos /\ reply \in Replies
    BY Constants DEF OutboxInit, Endings, Stages, Replies
  <2>4. {session, retry, online, signedIn, awake} \subseteq BOOLEAN
    BY Zenon DEF OutboxInit
  <2> QED BY <2>1, <2>2, <2>3, <2>4 DEF OutboxInit, OutboxTypeOK
<1>2. \A s : Len(s) = 0 => \A a, b : ~Before(s, a, b)
  BY DEF Before
<1>3. ToSet(<< >>) = {} /\ IsInjective(<< >>) /\ \A a, b : ~Before(<< >>, a, b)
  BY <1>2 DEF ToSet, IsInjective
<1>4. NoLostWrite /\ Sending /\ Known /\ Failures
  BY <1>3 DEF OutboxInit, NoLostWrite, Sending, Known, Failures, Queued
<1>5. InOrder
  BY <1>3 DEF OutboxInit, InOrder, Clean
<1> QED BY <1>1, <1>4, <1>5 DEF IInv

LEMMA InvariantKept == IInv /\ [OutboxNext]_outboxVars => IInv'
<1> SUFFICES ASSUME IInv, [OutboxNext]_outboxVars PROVE IInv'
  OBVIOUS
<1> QED BY TypeKept, LostKept, SendingKept, KnownKept, FailuresKept, OrderKept DEF IInv

\* What the user wrote is still queued, was applied, was given up, awaits a
\* decision or got one, or was folded into a write of which this is so; whatever fails,
\* restarts or is written meanwhile (OutboxDrainer.drain, enqueueOutbox).
THEOREM NothingIsLost == OutboxSpec => []Safety
<1>1. IInv => Safety
  BY DEF IInv, Safety
<1> QED BY <1>1, InvariantInitially, InvariantKept, PTL DEF OutboxSpec

\* The server applies no operation ahead of an earlier one on the same row of
\* which no attempt has failed (OutboxDrainer.drain, getOutboxBatchByTypes).
THEOREM OrderIsClean == OutboxSpec => CleanOrder
<1> DEFINE Behind == \A a, b \in Ops :
                       (EntityOf[a] = EntityOf[b] /\ Before(queue, a, b) /\ a \notin failed
                         /\ ~Applied(a))
                          => ~ (Applied(b)' /\ ~Applied(b))
<1>1. ASSUME IInv, [OutboxNext]_outboxVars PROVE Behind
  <2> SUFFICES ASSUME NEW a \in Ops, NEW b \in Ops, Clean(a, b), Applied(b)', ~Applied(b)
               PROVE FALSE
    BY DEF Clean
  <2>1. OutboxTypeOK /\ Sending /\ Known /\ InOrder
    BY <1>1 DEF IInv
  <2>2. b \notin late /\ (b \in ToSet(batch) => Before(batch, a, b))
    BY <2>1 DEF InOrder
  <2>3. batch # << >> => Current \in Ops /\ Current \in ToSet(batch) /\ ~Before(batch, a, Current)
    BY <2>1, Flight
  <2>4. applied \in Seq(Ops)
    BY <2>1 DEF OutboxTypeOK
  <2>5. \A op \in Ops : ToSet(Append(applied, op)) = ToSet(applied) \cup {op}
    BY <2>4, AtEnd
  <2>6. CASE Serve
    <3>1. batch # << >>
      BY <2>1, <2>6 DEF Serve, Sending
    <3>2. b = Current
      BY <2>3, <2>5, <2>6, <3>1 DEF Serve, Applied
    <3> QED BY <2>2, <2>3, <3>1, <3>2
  <2>7. ASSUME NEW op \in Ops, ServeLate(op) PROVE FALSE
    BY <2>2, <2>5, <2>7 DEF ServeLate, Applied
  <2>8. applied' # applied
    BY DEF Applied
  <2>9. Serve \/ \E op \in Ops : ServeLate(op)
    BY <1>1, <2>8 DEF OutboxNext, Machine, DrainStep, Environment, outboxVars, FlushSession, RetryTimer,
          Poll, Probe, CountLeft, EndDrain, Pause, Resume, Resolve, KeepMine,
       FetchBatch, BatchDone, TakeNext, Succeed, StopTransient, DeadLetter, RecordConflict,
       BackoffElapses, GoOnline, SignIn, Write, RetryOp, Discard, RetryFailed, Retry, NoAnswer,
       GoOffline, SignOut, Restart, server
  <2> QED BY <2>6, <2>7, <2>9
<1>2. IInv /\ [OutboxNext]_outboxVars => [Behind]_outboxVars
  BY <1>1
<1>3. OutboxSpec => [][Behind]_outboxVars
  BY <1>2, InvariantInitially, InvariantKept, PTL DEF OutboxSpec
<1> QED BY <1>3 DEF CleanOrder

=============================================================================
