---------------------------- MODULE Idempotency ----------------------------
(***************************************************************************)
(* The replay protection of the API server: the Idempotency middleware of  *)
(* backend/internal/middleware/idempotency.go around one mutating handler, *)
(* with the request_idempotency table it keeps in PostgreSQL.              *)
(*                                                                         *)
(* Every HTTP attempt runs in a goroutine of its own, on any number of     *)
(* server processes.  Each statement it sends to the database is one       *)
(* action; attempts interleave between statements.  A key below stands for *)
(* the pair (user_id, idempotency_key), a request for the hash of method,  *)
(* URI and body.  The clock is abstracted to the age of a row: "fresh",    *)
(* "stale" (claimed more than five minutes ago) or "expired" (more than    *)
(* seven days).                                                            *)
(***************************************************************************)
EXTENDS FiniteSets

CONSTANTS Attempts,   \* HTTP attempts
          Keys,       \* (user, idempotency key) pairs
          Requests,   \* request hashes
          FaultSets,  \* what may go wrong together: subsets of FaultKinds
          None        \* no row, no value

\* "crash": the process dies (or the handler panics) after the claim.
\* "slow": a claim grows stale while its handler is still running.
\* "expiry": a row lives for its seven days while its key is still in use.
\* "dberror": a statement of the middleware fails.
\* "partial": a handler answers 5xx after it has committed its effect.
FaultKinds == {"crash", "slow", "expiry", "dberror", "partial"}

ASSUME FaultsAssumption == FaultSets \subseteq SUBSET FaultKinds

VARIABLES faults,     \* the faults of this behaviour, one of FaultSets
          row,        \* row[k]: the row of the table for key k, or None
          attempt,    \* attempt[a]: the local state of attempt a
          effects     \* effects[k]: the attempts whose handler changed data

vars == <<faults, row, attempt, effects>>

Ages == {"fresh", "stale", "expired"}
Statuses == {"2xx", "4xx", "5xx"}
Phases == {"idle", "handler", "finalize", "replay", "answered", "crashed"}
Answers == {"own", "replayed", "mismatch", "in_progress", "unavailable"}

\* A row: response is the attempt whose answer is stored.
Row == [request : Requests, state : {"processing", "completed"},
        age : Ages, response : Attempts \cup {None}]

ASSUME NoneAssumption == /\ None \notin Attempts \cup Keys \cup Requests
                         /\ None \notin Statuses \cup Answers
                         /\ None \notin Row

\* An attempt; once it has arrived its key and request are known.
AttemptState ==
    {s \in [phase : Phases, key : Keys \cup {None}, request : Requests \cup {None},
            status : Statuses \cup {None}, answer : Answers \cup {None},
            response : Attempts \cup {None}] :
       s.phase # "idle" => s.key \in Keys /\ s.request \in Requests}

TypeOK == /\ faults \in FaultSets
          /\ row \in [Keys -> Row \cup {None}]
          /\ attempt \in [Attempts -> AttemptState]
          /\ effects \in [Keys -> SUBSET Attempts]

Init == /\ faults \in FaultSets
        /\ row = [k \in Keys |-> None]
        /\ attempt = [a \in Attempts |->
             [phase |-> "idle", key |-> None, request |-> None,
              status |-> None, answer |-> None, response |-> None]]
        /\ effects = [k \in Keys |-> {}]

-----------------------------------------------------------------------------
InPhase(a, p) == attempt[a].phase = p

\* The attempts between their claim of k and the end of their finalisation.
InFlight(k) == {a \in Attempts : /\ attempt[a].phase \in {"handler", "finalize"}
                                 /\ attempt[a].key = k}

Become(a, state) == attempt' = [attempt EXCEPT ![a] = state]

Answer(a, what, from) ==
    Become(a, [attempt[a] EXCEPT !.phase = "answered", !.answer = what, !.response = from])

\* Mutant of Claimable: the five-minute condition is missing.
ClaimableAtOnce(r) == r = None \/ r.age = "expired" \/ r.state = "processing"

\* INSERT .. ON CONFLICT DO UPDATE .. WHERE: the rows a claim may take.
Claimable(r) == \/ r = None
                \/ r.age = "expired"
                \/ r.state = "processing" /\ r.age = "stale"

\* DELETE .. WHERE expires_at < NOW() clears every user's expired rows.
Purged(rows) == [k \in Keys |-> IF rows[k] # None /\ rows[k].age = "expired"
                                THEN None ELSE rows[k]]

\* The attempt arrives and claimIdempotency runs.  The purge's error is
\* ignored by the code, so it may be skipped when the database fails.
Claim(a, k, q) ==
    /\ InPhase(a, "idle")
    /\ \E kept \in {Purged(row)} \cup (IF "dberror" \in faults THEN {row} ELSE {}) :
         IF Claimable(kept[k])
         THEN /\ row' = [kept EXCEPT ![k] = [request |-> q, state |-> "processing",
                                             age |-> "fresh", response |-> None]]
              /\ Become(a, [attempt[a] EXCEPT !.phase = "handler", !.key = k, !.request = q])
         ELSE /\ row' = kept
              /\ Become(a, [attempt[a] EXCEPT !.phase = "replay", !.key = k, !.request = q])
    /\ UNCHANGED effects

\* claimIdempotency returns an error: 503, nothing was reserved.
ClaimError(a, k, q) ==
    /\ "dberror" \in faults
    /\ InPhase(a, "idle")
    /\ Become(a, [attempt[a] EXCEPT !.phase = "answered", !.answer = "unavailable",
                                    !.key = k, !.request = q])
    /\ UNCHANGED <<row, effects>>

\* Mutant of Replay: the request hash is not compared.
ReplayAnyRequest(a) ==
    /\ InPhase(a, "replay")
    /\ LET r == row[attempt[a].key]
       IN IF r = None THEN Answer(a, "unavailable", None)
          ELSE IF r.state # "completed" THEN Answer(a, "in_progress", None)
          ELSE Answer(a, "replayed", r.response)
    /\ UNCHANGED <<row, effects>>

\* Mutant of Replay: the row's state is not looked at.
ReplayUnfinished(a) ==
    /\ InPhase(a, "replay")
    /\ LET r == row[attempt[a].key]
       IN IF r = None THEN Answer(a, "unavailable", None)
          ELSE IF r.request # attempt[a].request THEN Answer(a, "mismatch", None)
          ELSE Answer(a, "replayed", r.response)
    /\ UNCHANGED <<row, effects>>

\* replayIdempotency: read the row another attempt claimed.
Replay(a) ==
    /\ InPhase(a, "replay")
    /\ LET r == row[attempt[a].key]
       IN IF r = None THEN Answer(a, "unavailable", None)
          ELSE IF r.request # attempt[a].request THEN Answer(a, "mismatch", None)
          ELSE IF r.state # "completed" THEN Answer(a, "in_progress", None)
          ELSE Answer(a, "replayed", r.response)
    /\ UNCHANGED <<row, effects>>

\* The SELECT of replayIdempotency fails: 503.
ReplayError(a) ==
    /\ "dberror" \in faults
    /\ InPhase(a, "replay")
    /\ Answer(a, "unavailable", None)
    /\ UNCHANGED <<row, effects>>

\* The wrapped handler runs into the buffered response.
Handle(a) ==
    /\ InPhase(a, "handler")
    /\ \E status \in Statuses, changed \in BOOLEAN :
         /\ status = "2xx" => changed
         /\ status = "4xx" => ~changed
         /\ status = "5xx" /\ changed => "partial" \in faults
         /\ Become(a, [attempt[a] EXCEPT !.phase = "finalize", !.status = status])
         /\ effects' = IF changed
                       THEN [effects EXCEPT ![attempt[a].key] = @ \cup {a}]
                       ELSE effects
    /\ UNCHANGED row

\* Mutant of Release: the row's state is passed off as the answer.
ReleaseMistyped(a) ==
    /\ InPhase(a, "finalize")
    /\ attempt[a].status = "5xx"
    /\ row' = [row EXCEPT ![attempt[a].key] = None]
    /\ Answer(a, "processing", a)
    /\ UNCHANGED effects

\* status >= 500: the row is deleted, whoever claimed it last.
Release(a) ==
    /\ InPhase(a, "finalize")
    /\ attempt[a].status = "5xx"
    /\ \/ row' = [row EXCEPT ![attempt[a].key] = None]
       \/ "dberror" \in faults /\ row' = row    \* the error is ignored
    /\ Answer(a, "own", a)
    /\ UNCHANGED effects

\* status < 500: UPDATE .. SET state = 'completed' WHERE user and key match.
\* No row, no update, and no error either.
Complete(a) ==
    /\ InPhase(a, "finalize")
    /\ attempt[a].status # "5xx"
    /\ LET k == attempt[a].key
       IN row' = IF row[k] = None THEN row
                 ELSE [row EXCEPT ![k] = [@ EXCEPT !.state = "completed", !.response = a]]
    /\ Answer(a, "own", a)
    /\ UNCHANGED effects

\* The UPDATE fails: 503, and the row stays 'processing'.
CompleteError(a) ==
    /\ "dberror" \in faults
    /\ InPhase(a, "finalize")
    /\ attempt[a].status # "5xx"
    /\ Answer(a, "unavailable", None)
    /\ UNCHANGED <<row, effects>>

\* The process dies, or the handler panics, with the claim held.
Crash(a) ==
    /\ "crash" \in faults
    /\ attempt[a].phase \in {"handler", "finalize", "replay"}
    /\ Become(a, [attempt[a] EXCEPT !.phase = "crashed"])
    /\ UNCHANGED <<row, effects>>

\* Time passes: five minutes over a claim, or seven days over a row.
Age(k) ==
    /\ row[k] # None
    /\ row[k].age # "expired"
    /\ "slow" \notin faults => InFlight(k) = {}
    /\ \/ /\ row[k].age = "fresh"
          /\ row' = [row EXCEPT ![k] = [@ EXCEPT !.age = "stale"]]
       \/ /\ "expiry" \in faults
          /\ row' = [row EXCEPT ![k] = [@ EXCEPT !.age = "expired"]]
    /\ UNCHANGED <<attempt, effects>>

Step == \/ \E a \in Attempts, k \in Keys, q \in Requests :
             Claim(a, k, q) \/ ClaimError(a, k, q)
        \/ \E a \in Attempts : \/ Replay(a) \/ ReplayError(a) \/ Handle(a)
                               \/ Release(a) \/ Complete(a) \/ CompleteError(a)
                               \/ Crash(a)
        \/ \E k \in Keys : Age(k)

Next == Step /\ UNCHANGED faults

Spec == Init /\ [][Next]_vars

-----------------------------------------------------------------------------
(* Properties *)

\* Every handler ends within five minutes of its claim.  Without that nothing
\* fences a handler whose claim was taken over.
Prompt == "slow" \notin faults

\* At most one attempt of a key is between its claim and its finalisation.
Exclusive == \A k \in Keys : \A a, b \in InFlight(k) : a = b

\* With prompt handlers, the claim statement is the lock under which the
\* handlers of one key run, crashes and database errors included.
MutualExclusion == Prompt => Exclusive

\* With prompt handlers, a replayed answer is the answer of an attempt made
\* with the same key for the same request, never that of another request that
\* reused the key.
ReplayFaithful ==
    Prompt => \A a \in Attempts :
       attempt[a].answer = "replayed" =>
          /\ attempt[a].response \in Attempts
          /\ attempt[attempt[a].response].key = attempt[a].key
          /\ attempt[attempt[a].response].request = attempt[a].request

\* A 5xx answer, or the empty answer of a handler that has not finished, is
\* never replayed: a failed attempt can always be retried.
NeverReplaysFailure ==
    \A a \in Attempts :
       attempt[a].answer = "replayed" =>
          /\ attempt[a].response # None
          /\ attempt[attempt[a].response].status \in {"2xx", "4xx"}

\* With prompt handlers, once an answer is stored for a key no handler changes
\* data under that key for as long as the row lives.
NoEffectAfterCompletion ==
    [][Prompt => \A k \in Keys :
         (row[k] # None /\ row[k].state = "completed" /\ row[k].age # "expired")
            => effects'[k] = effects[k]]_vars

\* The comment on Idempotency (idempotency.go:31-34): later attempts receive
\* the first result "without executing the handler again", so a key changes
\* data at most once.  That is so when nothing goes wrong ...
AtMostOneEffect == faults = {} => \A k \in Keys : \A a, b \in effects[k] : a = b

\* ... and then "that exact result" holds as well: all attempts of a key that
\* get a final answer (not a 5xx, not a request to come back later) get the
\* same one.
Final(a) == \/ attempt[a].answer = "replayed"
            \/ attempt[a].answer = "own" /\ attempt[a].status # "5xx"
OneAnswer ==
    faults = {} => \A a, b \in Attempts :
       (Final(a) /\ Final(b) /\ attempt[a].key = attempt[b].key)
          => attempt[a].response = attempt[b].response

\* What a client may build on when nothing goes wrong: one key, one change of
\* data, one answer (idempotency.go:31-34).
OncePerKey == AtMostOneEffect /\ OneAnswer
=============================================================================
