------------------------------ MODULE Sessions ------------------------------
(***************************************************************************)
(* One account, its refresh sessions and the requests that change them:    *)
(* sign-in, refresh-token rotation, logout, password change and reset,     *)
(* profile edits, guest conversion and verification, account deletion, and *)
(* the job that locks and retires guests (services/jwt/jwt.go,             *)
(* services/user_service.go, services/guest_service.go,                    *)
(* repositories/auth_repo.go, repositories/user_repo.go,                   *)
(* jobs/guest_cleanup.go, api/handlers/auth.go).                           *)
(*                                                                         *)
(* The database runs at READ COMMITTED: a statement sees the rows          *)
(* committed when it starts, waits for rows another transaction has        *)
(* locked, and looks at those again, but never at rows inserted meanwhile. *)
(* A statement that revokes many sessions is therefore two steps here, the *)
(* one that takes its snapshot and the one that applies it.                *)
(***************************************************************************)
EXTENDS Naturals, FiniteSets, FiniteSetsExt

CONSTANTS
    Workers,       \* requests in flight
    MaxSessions,   \* bound: refresh sessions ever stored
    MaxPasswords   \* bound: passwords ever set

ASSUME SessionsAssumption ==
    /\ MaxSessions \in Nat \ {0}
    /\ MaxPasswords \in Nat \ {0}

VARIABLES
    user,      \* the account's row
    sess,      \* auth_sessions, by the number of the token that names each
    reset,     \* the newest password reset code can still be used
    verify,    \* the account's email verification code can still be used
    work,      \* worker -> the request it is running
    lastPw,    \* history: the newest password anyone chose
    ended,     \* history: families whose end was committed
    excused    \* history: sessions that slipped past a revocation

sessionVars == <<user, sess, reset, verify, work, lastPw, ended, excused>>

Sids == 1..MaxSessions
NoPassword == 0

UserType == [pw : 0..MaxPasswords, active : BOOLEAN, verified : BOOLEAN,
             guest : BOOLEAN, deleted : BOOLEAN]
SessionType == [st : {"none", "live", "revoked", "gone"}, fam : Sids,
                pw : 0..MaxPasswords]
WorkType == [pc : {"idle", "issue", "validated", "ready", "rotating", "family",
                   "logout", "sweep", "locked", "scanned", "softdelete",
                   "update", "convert", "code"},
             op : {"none", "change", "reset", "delete", "convert"},
             sid : Sids, snap : SUBSET Sids, row : UserType]

SessionsTypeOK ==
    /\ user \in UserType
    /\ sess \in [Sids -> SessionType]
    /\ reset \in BOOLEAN /\ verify \in BOOLEAN
    /\ work \in [Workers -> WorkType]
    /\ lastPw \in 0..MaxPasswords
    /\ ended \subseteq Sids
    /\ excused \subseteq Sids

Registered == [pw |-> 1, active |-> TRUE, verified |-> TRUE, guest |-> FALSE,
               deleted |-> FALSE]
Guest == [Registered EXCEPT !.pw = NoPassword, !.guest = TRUE]

NoWork == [pc |-> "idle", op |-> "none", sid |-> 1, snap |-> {}, row |-> Registered]

\* A registered account or a fresh guest, signed in on one device.
SessionsInit ==
    /\ user \in {Registered, Guest}
    /\ sess = [s \in Sids |-> [st |-> IF s = 1 THEN "live" ELSE "none", fam |-> s,
                               pw |-> IF s = 1 THEN user.pw ELSE NoPassword]]
    /\ reset = FALSE /\ verify = FALSE
    /\ work = [w \in Workers |-> NoWork]
    /\ lastPw = user.pw
    /\ ended = {}
    /\ excused = {}

---------------------------------------------------------------------------
(* Rows, locks and the sessions they guard.                                *)

Live == {s \in Sids : sess[s].st = "live"}
Stored == {s \in Sids : sess[s].st # "none"}
Family(f) == {s \in Stored : sess[s].fam = f}

\* Session rows another transaction than w's has locked.
LockedBut(w) == {work[v].sid : v \in {x \in Workers \ {w} : work[x].pc = "rotating"}}

\* No other transaction holds the account's row.
RowFree(w) == \A v \in Workers \ {w} : work[v].pc \notin {"locked", "scanned"}

At(w, job) == work' = [work EXCEPT ![w] = job]
Continue(w, pc) == work' = [work EXCEPT ![w].pc = pc]
Stop(w) == At(w, NoWork)

\* The request goes on to issue a pair of tokens, by a row read with pw.
Issuing(w, pw) == At(w, [NoWork EXCEPT !.pc = "issue", !.row.pw = pw])

Revoked(S) ==
    sess' = [s \in Sids |-> IF s \in S /\ sess[s].st = "live"
                            THEN [sess[s] EXCEPT !.st = "revoked", !.pw = NoPassword]
                            ELSE sess[s]]

\* History: the sessions of S slipped away; the dead ones need no excuse.
Excused(S) == excused' = (excused \cup S) \cap Live'

\* A revocation of every session has its snapshot but has not committed: a
\* session stored now is not in it.
SweepUnderWay == \E v \in Workers : work[v].pc = "scanned"

\* A revocation that will reach the row of s, but not its replacement.
Chased(s) ==
    \E v \in Workers :
        \/ work[v].pc \in {"scanned", "family"} /\ s \in work[v].snap
        \/ work[v].pc = "logout" /\ work[v].sid = s

---------------------------------------------------------------------------
(* Sign-in.                                                                *)

\* The password is checked on a row read without a lock; tokens come later.
Login(w) ==
    /\ work[w].pc = "idle"
    /\ user.active /\ user.verified /\ user.pw # NoPassword
    /\ Issuing(w, user.pw)
    /\ UNCHANGED <<user, sess, reset, verify, lastPw, ended, excused>>

\* GenerateTokenPair stores the refresh session of a new family.
GenerateTokenPair(w) ==
    LET s == Min(Sids \ Stored) IN
    /\ work[w].pc = "issue"
    /\ Stored # Sids
    /\ sess' = [sess EXCEPT ![s] = [st |-> "live", fam |-> s, pw |-> work[w].row.pw]]
    /\ Excused(IF SweepUnderWay \/ work[w].row.pw # user.pw THEN {s} ELSE {})
    /\ Stop(w)
    /\ UNCHANGED <<user, reset, verify, lastPw, ended>>

---------------------------------------------------------------------------
(* Refresh: three calls of the handler, the last one a transaction.        *)

ValidateRefreshToken(w, s) ==
    /\ work[w].pc = "idle"
    /\ s \in Live
    /\ At(w, [NoWork EXCEPT !.pc = "validated", !.sid = s])
    /\ UNCHANGED <<user, sess, reset, verify, lastPw, ended, excused>>

\* A locked guest is unlocked; any other inactive account ends the request.
ReactivateGuestForRefresh(w) ==
    /\ work[w].pc = "validated"
    /\ IF user.deleted \/ (~user.guest /\ ~user.active)
       THEN Stop(w) /\ UNCHANGED user
       ELSE /\ Continue(w, "ready")
            /\ \/ user.active /\ UNCHANGED user
               \/ ~user.active /\ RowFree(w) /\ user' = [user EXCEPT !.active = TRUE]
    /\ UNCHANGED <<sess, reset, verify, lastPw, ended, excused>>

\* Mutant: the presented session is read without FOR UPDATE.
Rotate_LockWithoutWaiting(w) ==
    LET s == work[w].sid IN
    /\ work[w].pc = "ready"
    /\ work' = CASE sess[s].st = "live" -> [work EXCEPT ![w].pc = "rotating"]
                 [] sess[s].st = "revoked" ->
                      [work EXCEPT ![w].pc = "family",
                                   ![w].snap = Family(sess[s].fam)]
                 [] OTHER -> [work EXCEPT ![w] = NoWork]
    /\ UNCHANGED <<user, sess, reset, verify, lastPw, ended, excused>>

\* SELECT ... FOR UPDATE of the presented session.  One that was consumed
\* meanwhile condemns its family.
Rotate_Lock(w) ==
    LET s == work[w].sid IN
    /\ work[w].pc = "ready"
    /\ s \notin LockedBut(w)
    /\ work' = CASE sess[s].st = "live" -> [work EXCEPT ![w].pc = "rotating"]
                 [] sess[s].st = "revoked" ->
                      [work EXCEPT ![w].pc = "family",
                                   ![w].snap = Family(sess[s].fam)]
                 [] OTHER -> [work EXCEPT ![w] = NoWork]
    /\ UNCHANGED <<user, sess, reset, verify, lastPw, ended, excused>>

\* The presented session is consumed and its replacement stored.
Rotate_Commit(w) ==
    LET old == work[w].sid
        new == Min(Sids \ Stored)
    IN  /\ work[w].pc = "rotating"
        /\ Stored # Sids
        /\ sess' = [sess EXCEPT ![old].st = "revoked", ![old].pw = NoPassword,
                                ![new] = [sess[old] EXCEPT !.st = "live"]]
        /\ Excused(IF old \in excused \/ Chased(old) \/ SweepUnderWay
                   THEN {new} ELSE {})
        /\ Stop(w)
        /\ UNCHANGED <<user, reset, verify, lastPw, ended>>

\* The family UPDATE, once no row of its snapshot is locked.
Rotate_RevokeFamily(w) ==
    /\ work[w].pc = "family"
    /\ work[w].snap \cap LockedBut(w) = {}
    /\ Revoked(work[w].snap)
    /\ ended' = ended \cup {sess[work[w].sid].fam}
    /\ Excused({})
    /\ Stop(w)
    /\ UNCHANGED <<user, reset, verify, lastPw>>

Logout_Validate(w, s) ==
    /\ work[w].pc = "idle"
    /\ s \in Live
    /\ At(w, [NoWork EXCEPT !.pc = "logout", !.sid = s])
    /\ UNCHANGED <<user, sess, reset, verify, lastPw, ended, excused>>

\* The replacement of a session that was rotated since its validation has
\* slipped away.
Logout_Revoke(w) ==
    LET s == work[w].sid IN
    /\ work[w].pc = "logout"
    /\ s \notin LockedBut(w)
    /\ Revoked({s})
    /\ ended' = ended \cup {sess[s].fam}
    /\ Excused({})
    /\ Stop(w)
    /\ UNCHANGED <<user, reset, verify, lastPw>>

---------------------------------------------------------------------------
(* Requests that revoke every session of the account.  Each reads or       *)
(* checks something first and then runs one transaction: it updates the    *)
(* account's row, revokes the sessions, commits.                           *)

ChangePassword(w) ==
    /\ work[w].pc = "idle"
    /\ user.active /\ user.verified /\ user.pw # NoPassword
    /\ At(w, [NoWork EXCEPT !.pc = "sweep", !.op = "change"])
    /\ UNCHANGED <<user, sess, reset, verify, lastPw, ended, excused>>

ConfirmPasswordReset(w) ==
    /\ work[w].pc = "idle"
    /\ reset
    /\ At(w, [NoWork EXCEPT !.pc = "sweep", !.op = "reset"])
    /\ UNCHANGED <<user, sess, reset, verify, lastPw, ended, excused>>

StartDeleteMe(w) ==
    /\ work[w].pc = "idle"
    /\ user.active /\ user.verified
    /\ At(w, [NoWork EXCEPT !.pc = "sweep", !.op = "delete"])
    /\ UNCHANGED <<user, sess, reset, verify, lastPw, ended, excused>>

\* The first statements: the reset code is consumed if it still can be, and
\* the account's row is updated and stays locked.  What it will say is in
\* work[w].row until the commit.
Sweep_Lock(w) ==
    LET op == work[w].op IN
    /\ work[w].pc = "sweep"
    /\ RowFree(w)
    /\ IF (op = "reset" /\ ~reset) \/ (op = "change" /\ user.deleted)
       THEN Stop(w) /\ UNCHANGED lastPw
       ELSE IF op \in {"change", "reset"}
       THEN /\ lastPw < MaxPasswords
            /\ lastPw' = lastPw + 1
            /\ work' = [work EXCEPT ![w].pc = "locked",
                                    ![w].row = [user EXCEPT !.pw = lastPw + 1]]
       ELSE /\ work' = [work EXCEPT ![w].pc = "locked", ![w].row = user]
            /\ UNCHANGED lastPw
    /\ UNCHANGED <<user, sess, reset, verify, ended, excused>>

\* The UPDATE of the sessions starts.
Sweep_Scan(w) ==
    /\ work[w].pc = "locked"
    /\ work' = [work EXCEPT ![w].pc = "scanned", ![w].snap = Live]
    /\ UNCHANGED <<user, sess, reset, verify, lastPw, ended, excused>>

\* It has every row it waited for; the transaction commits.  All but the
\* deletion go on to issue a new pair.
Sweep_Commit(w) ==
    /\ work[w].pc = "scanned"
    /\ work[w].snap \cap LockedBut(w) = {}
    /\ user' = work[w].row
    /\ Revoked(work[w].snap)
    /\ reset' = (reset /\ work[w].op # "reset")
    /\ Excused({})
    /\ IF work[w].op = "delete" THEN At(w, [NoWork EXCEPT !.pc = "softdelete"])
       ELSE Issuing(w, user'.pw)
    /\ UNCHANGED <<verify, lastPw, ended>>

Tombstone == [pw |-> NoPassword, active |-> FALSE, verified |-> FALSE,
              guest |-> FALSE, deleted |-> TRUE]

\* The account becomes a tombstone and its rows go.
Retired(S) ==
    /\ user' = Tombstone
    /\ sess' = [s \in Sids |-> IF s \in S THEN [sess[s] EXCEPT !.st = "gone", !.pw = NoPassword] ELSE sess[s]]
    /\ reset' = FALSE /\ verify' = FALSE
    /\ Excused({})

\* DeleteMe's second transaction.
SoftDelete(w) ==
    /\ work[w].pc = "softdelete"
    /\ RowFree(w)
    /\ Stop(w)
    /\ IF user.deleted THEN UNCHANGED <<user, sess, reset, verify, excused>>
       ELSE Stored \cap LockedBut(w) = {} /\ Retired(Stored)
    /\ UNCHANGED <<lastPw, ended>>

---------------------------------------------------------------------------
(* Profile edits and guests.                                               *)

UpdateMe(w) ==
    /\ work[w].pc = "idle"
    /\ user.active /\ user.verified
    /\ At(w, [NoWork EXCEPT !.pc = "update", !.row = user])
    /\ UNCHANGED <<user, sess, reset, verify, lastPw, ended, excused>>

\* Mutant: the row of a deleted account is written too.
UpdateDeleted(w) ==
    /\ work[w].pc = "update"
    /\ RowFree(w)
    /\ user' = work[w].row
    /\ excused' = IF work[w].row.pw # user.pw THEN excused \cup Live ELSE excused
    /\ Stop(w)
    /\ UNCHANGED <<sess, reset, verify, lastPw, ended>>

\* UserRepository.Update writes the row as it was read, every column of it,
\* to an account that is not deleted.  A password that goes back takes the
\* claim of every live session with it.
Update(w) ==
    /\ work[w].pc = "update"
    /\ RowFree(w)
    /\ IF user.deleted THEN UNCHANGED <<user, excused>>
       ELSE /\ user' = work[w].row
            /\ excused' = IF work[w].row.pw # user.pw THEN excused \cup Live ELSE excused
    /\ Stop(w)
    /\ UNCHANGED <<sess, reset, verify, lastPw, ended>>

ConvertGuest(w) ==
    /\ work[w].pc = "idle"
    /\ user.guest /\ user.active
    /\ At(w, [NoWork EXCEPT !.pc = "convert", !.op = "convert",
                                                !.row = user])
    /\ UNCHANGED <<user, sess, reset, verify, lastPw, ended, excused>>

\* The same full-row write, with the address and password the guest chose.
ConvertGuest_Update(w) ==
    /\ work[w].pc = "convert"
    /\ RowFree(w)
    /\ IF user.deleted THEN Stop(w) /\ UNCHANGED <<user, lastPw, excused>>
       ELSE /\ lastPw < MaxPasswords
            /\ lastPw' = lastPw + 1
            /\ user' = [work[w].row EXCEPT !.pw = lastPw + 1, !.verified = FALSE]
            /\ excused' = excused \cup {s \in Live : sess[s].pw # NoPassword}
            /\ Continue(w, "code")
    /\ UNCHANGED <<sess, reset, verify, ended>>

\* CreateEmailVerification replaces the code; then the sessions are revoked.
ConvertGuest_Code(w) ==
    /\ work[w].pc = "code"
    /\ verify' = TRUE
    /\ Continue(w, "sweep")
    /\ UNCHANGED <<user, sess, reset, lastPw, ended, excused>>

\* The code is consumed together with what it proves.
VerifyEmail(w) ==
    /\ work[w].pc = "idle"
    /\ verify /\ user.active
    /\ RowFree(w)
    /\ verify' = FALSE
    /\ user' = [user EXCEPT !.verified = TRUE, !.guest = FALSE]
    /\ Issuing(w, user.pw)
    /\ UNCHANGED <<sess, reset, lastPw, ended, excused>>

ResendEmailVerification ==
    /\ ~user.verified /\ user.active
    /\ ~verify /\ verify' = TRUE
    /\ UNCHANGED <<user, sess, reset, work, lastPw, ended, excused>>

RequestPasswordReset ==
    /\ user.active /\ user.verified
    /\ ~reset /\ reset' = TRUE
    /\ UNCHANGED <<user, sess, verify, work, lastPw, ended, excused>>

\* Thirty idle days lock a guest; any request of its own but a refresh counts
\* as activity, so none is in flight.
GuestCleanup_Lock ==
    /\ user.guest /\ user.active
    /\ \A w \in Workers : work[w].pc \in {"idle", "validated", "ready", "rotating"}
    /\ user' = [user EXCEPT !.active = FALSE]
    /\ UNCHANGED <<sess, reset, verify, work, lastPw, ended, excused>>

\* After 180 more locked days the guest is retired, in one transaction that
\* waits for the rows it deletes.
GuestCleanup_Retire ==
    /\ user.guest /\ ~user.active
    /\ \A w \in Workers : work[w].pc \in {"idle", "validated", "ready"}
    /\ Retired(Stored)
    /\ UNCHANGED <<work, lastPw, ended>>

\* Any call may fail: its transaction rolls back, what was committed stays.
Fail(w) ==
    /\ work[w].pc # "idle"
    /\ Stop(w)
    /\ UNCHANGED <<user, sess, reset, verify, lastPw, ended, excused>>

SessionsNext ==
    \/ \E w \in Workers :
          \/ Login(w) \/ GenerateTokenPair(w)
          \/ ReactivateGuestForRefresh(w) \/ Rotate_Lock(w) \/ Rotate_Commit(w)
          \/ Rotate_RevokeFamily(w) \/ Logout_Revoke(w)
          \/ ChangePassword(w) \/ ConfirmPasswordReset(w) \/ StartDeleteMe(w)
          \/ Sweep_Lock(w) \/ Sweep_Scan(w) \/ Sweep_Commit(w) \/ SoftDelete(w)
          \/ UpdateMe(w) \/ Update(w) \/ ConvertGuest(w) \/ ConvertGuest_Update(w)
          \/ ConvertGuest_Code(w) \/ VerifyEmail(w) \/ Fail(w)
    \/ \E w \in Workers, s \in Sids : ValidateRefreshToken(w, s) \/ Logout_Validate(w, s)
    \/ ResendEmailVerification \/ RequestPasswordReset
    \/ GuestCleanup_Lock \/ GuestCleanup_Retire

SessionsSpec == SessionsInit /\ [][SessionsNext]_sessionVars

---------------------------------------------------------------------------
(* Properties.                                                             *)

\* A refresh token is spent once: whatever races for it, one family never
\* has two live sessions.
OneLivePerFamily ==
    \A s, t \in Live : sess[s].fam = sess[t].fam => s = t

\* A family that a logout or a replayed token ended stays without a live
\* session, but for one rotated between the revocation's look and its write.
EndedFamiliesStayEnded ==
    \A s \in Live : sess[s].fam \in ended => s \in excused

\* A live session that was opened with a password rests on the current one,
\* unless it was stored during the change, by a sign-in that had checked the
\* old password, or the password itself was put back by a stale profile edit.
OnlyRacesOutliveThePassword ==
    \A s \in Live : sess[s].pw \notin {NoPassword, user.pw} => s \in excused

\* A deleted or retired account stays a tombstone, whatever requests were
\* under way: no write of theirs revives it.
DeletedIsFinal == [][user.deleted => user' = user]_sessionVars

\* The password and the standing of an account move only forward: nothing
\* brings back an older password or turns a member back into a guest.  The code
\* does not keep it: a profile edit writes back the columns it read (Update).
AccountStands ==
    [][/\ user'.pw < user.pw => user'.deleted
       /\ user'.guest => user.guest]_sessionVars

\* What a user may rely on at any moment, whatever raced: a spent, logged out
\* or outdated credential opens nothing, but for the named races
\* (RefreshTokenStore, PasswordReset, UserService).
Safety ==
    SessionsTypeOK /\ OneLivePerFamily /\ EndedFamiliesStayEnded /\ OnlyRacesOutliveThePassword
=============================================================================
