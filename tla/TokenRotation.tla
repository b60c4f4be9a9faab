---------------------------- MODULE TokenRotation ----------------------------
(***************************************************************************)
(* Refresh-token rotation: POST /auth/token and POST /auth/refresh against *)
(* the users and refresh_tokens tables, one action per database statement. *)
(*                                                                         *)
(* Every request runs in a transaction of its own (get_session) at READ    *)
(* COMMITTED, the server's default, since the engine sets no isolation     *)
(* level: a SELECT sees what is committed when it runs, and an UPDATE or   *)
(* DELETE waits for the transaction that holds the row.  Requests          *)
(* interleave at every await.  What a transaction wrote is derived from    *)
(* where its request stands (Revoked, Inserted) and from `deletes`; Commit *)
(* applies it to the tables and leaving the transaction drops it.          *)
(*                                                                         *)
(* A request mints at most one token, so the token minted by request r is  *)
(* named r; Sessions are tokens stored before the behaviour starts.        *)
(***************************************************************************)
EXTENDS Integers, FiniteSets

CONSTANTS
  Users, NoUser,
  Sessions,             \* refresh tokens already stored, unspent
  Requests,             \* login and refresh requests, one-shot
  NoToken,              \* what a login presents
  TTL,                  \* JWT_REFRESH_TOKEN_EXPIRE_DAYS, in ticks
  MaxTime,              \* bound of the clock
  RespondBeforeCommit,  \* the dependency's exit code runs after the response
  EvaluateRaises,       \* the ORM's evaluation of the cleanup criterion raises
  Serialised,           \* clients never have two refreshes of a token under way
  Faults                \* statements may fail, workers may die

Tokens == Sessions \cup Requests

ASSUME NamesAssumption ==
  /\ Sessions \cap Requests = {}
  /\ NoToken \notin Tokens
  /\ NoUser \notin Users

ASSUME TimeAssumption == TTL \in Nat \ {0} /\ MaxTime \in Nat

ASSUME ModesAssumption ==
  /\ RespondBeforeCommit \in BOOLEAN
  /\ EvaluateRaises \in BOOLEAN
  /\ Serialised \in BOOLEAN
  /\ Faults \in BOOLEAN

VARIABLES
  now,         \* the clock every datetime.now() reads
  users,       \* committed users rows: active, inactive or deleted
  row,         \* committed refresh_tokens rows: none, live or revoked
  owner,       \* the sub claim / user_id of a token; a request's user
  exp,         \* the exp claim / expires_at of a token
  pc,          \* the statement a request is about to run
  presented,   \* the refresh token a request sent
  cutoff,      \* the instant captured by the cleanup statement
  deletes,     \* rows the cleanup of an open transaction deleted
  answer,      \* what the client was answered
  committed,   \* requests whose transaction committed
  removed,     \* tokens staff deleted one by one (history)
  replays,     \* refreshes sent after a 200 for the same token (history)
  lockedOut    \* refreshes whose account has been unavailable since they
               \* were sent (history)

vars == <<now, users, row, owner, exp, pc, presented, cutoff, deletes, answer,
          committed, removed, replays, lockedOut>>
tables == <<users, row>>
history == <<committed, removed, replays, lockedOut>>

Reading   == {"select", "user"}
Writing   == {"revoke", "cleanup", "cleaning", "insert"}
Finishing == {"respond", "commit"}
InFlight  == Reading \cup Writing \cup Finishing

TypeOK ==
  /\ now \in 0..MaxTime
  /\ users \in [Users -> {"active", "inactive", "deleted"}]
  /\ row \in [Tokens -> {"none", "live", "revoked"}]
  /\ owner \in [Tokens -> Users \cup {NoUser}]
  /\ exp \in [Tokens -> Nat]
  /\ pc \in [Requests -> InFlight \cup {"idle", "done"}]
  /\ presented \in [Requests -> Tokens \cup {NoToken}]
  /\ cutoff \in [Requests -> 0..MaxTime]
  /\ deletes \in [Requests -> SUBSET Tokens]
  /\ answer \in [Requests -> {"none", "ok", "unauthorized", "error"}]
  /\ committed \subseteq Requests
  /\ removed \subseteq Tokens
  /\ replays \subseteq Requests
  /\ lockedOut \subseteq Requests

Init ==
  /\ now = 0
  /\ users = [u \in Users |-> "active"]
  /\ row = [t \in Tokens |-> IF t \in Sessions THEN "live" ELSE "none"]
  /\ \E f \in [Sessions -> Users] :
        owner = [t \in Tokens |-> IF t \in Sessions THEN f[t] ELSE NoUser]
  /\ \E f \in [Sessions -> 1..TTL] :
        exp = [t \in Tokens |-> IF t \in Sessions THEN f[t] ELSE 0]
  /\ pc = [r \in Requests |-> "idle"]
  /\ presented = [r \in Requests |-> NoToken]
  /\ cutoff = [r \in Requests |-> 0]
  /\ deletes = [r \in Requests |-> {}]
  /\ answer = [r \in Requests |-> "none"]
  /\ committed = {}
  /\ removed = {}
  /\ replays = {}
  /\ lockedOut = {}

------------------------------------------------------------------------------
(* The open transaction of a request, its row locks and its waits.         *)

\* The UPDATE of revoke() has been flushed and is not committed yet.
Revoked(r) ==
  /\ presented[r] # NoToken
  /\ pc[r] \in {"cleanup", "cleaning", "insert"} \cup Finishing
  /\ r \notin committed

\* The INSERT of create() has been flushed and is not committed yet: it
\* holds a key-share lock on the user's row.
Inserted(r) == pc[r] \in Finishing /\ r \notin committed

Holds(r, t) == (Revoked(r) /\ presented[r] = t) \/ t \in deletes[r]

LockedAgainst(r, t) == \E q \in Requests \ {r} : Holds(q, t)

\* Mutant: the cleanup takes the tokens that expire at its very instant too.
ExpiredTooSoon(r) ==
  {t \in Tokens : row[t] # "none" /\ exp[t] <= cutoff[r] /\ t \notin deletes[r]}

\* Rows the cleanup statement of r still has to delete.
Expired(r) ==
  {t \in Tokens : row[t] # "none" /\ exp[t] < cutoff[r] /\ t \notin deletes[r]}

WaitsFor(r, q) ==
  /\ q # r
  /\ \/ pc[r] = "revoke" /\ Holds(q, presented[r])
     \/ pc[r] = "cleaning" /\ \E t \in Expired(r) : Holds(q, t)

\* A cycle of lock waits: S has no part that waits for nobody in the rest.
Deadlocked(S) ==
  /\ Cardinality(S) > 1
  /\ \A T \in (SUBSET S) \ {{}, S} : \E r \in T, q \in S \ T : WaitsFor(r, q)

\* The client can only send a token it was given.
Known(t) == t \in Sessions \/ (t \in Requests /\ answer[t] = "ok")

\* Mutant: the rollback of get_session is missing, so the locks stay.
LeaveWithoutRollback(r, a) ==
  /\ pc' = [pc EXCEPT ![r] = "done"]
  /\ answer' = [answer EXCEPT ![r] = a]
  /\ UNCHANGED <<now, tables, owner, exp, presented, cutoff, deletes, history>>

\* The request leaves its transaction, with nothing written, and answers a.
Leave(r, a) ==
  /\ pc' = [pc EXCEPT ![r] = "done"]
  /\ answer' = [answer EXCEPT ![r] = a]
  /\ deletes' = [deletes EXCEPT ![r] = {}]
  /\ cutoff' = [cutoff EXCEPT ![r] = 0]
  /\ UNCHANGED <<now, tables, owner, exp, presented, history>>

Goto(r, label) == pc' = [pc EXCEPT ![r] = label]

------------------------------------------------------------------------------
(* Login: POST /auth/token.                                                *)

\* AuthenticateUser finds an active account and the password matches.
Login(r, u) ==
  /\ pc[r] = "idle"
  /\ users[u] = "active"
  /\ Goto(r, "insert")
  /\ owner' = [owner EXCEPT ![r] = u]
  /\ UNCHANGED <<now, tables, exp, presented, cutoff, deletes, answer, history>>

\* Refused at the door: bad credentials or an inactive account at login; a
\* token that is not one of ours, not a refresh token or expired at refresh.
Refuse(r) == pc[r] = "idle" /\ Leave(r, "unauthorized")

------------------------------------------------------------------------------
(* Refresh: POST /auth/refresh.                                            *)

\* The token decodes: it is one of ours and its exp claim is in the future.
Present(r, t) ==
  /\ pc[r] = "idle"
  /\ Known(t)
  /\ exp[t] > now
  /\ Serialised => \A q \in Requests :
       presented[q] = t => pc[q] = "done" \/ answer[q] # "none"
  /\ Goto(r, "select")
  /\ presented' = [presented EXCEPT ![r] = t]
  /\ owner' = [owner EXCEPT ![r] = owner[t]]
  /\ replays' = IF \E q \in Requests : presented[q] = t /\ answer[q] = "ok"
                THEN replays \cup {r} ELSE replays
  /\ lockedOut' = IF users[owner[t]] # "active"
                  THEN lockedOut \cup {r} ELSE lockedOut
  /\ UNCHANGED <<now, tables, exp, cutoff, deletes, answer, committed, removed>>

\* Mutant: revoked_at is not looked at.
ReadTokenEvenRevoked(r) ==
  /\ pc[r] = "select"
  /\ IF row[presented[r]] # "none" /\ exp[presented[r]] >= now
     THEN /\ Goto(r, "user")
          /\ UNCHANGED <<now, tables, owner, exp, presented, cutoff, deletes,
                         answer, history>>
     ELSE Leave(r, "unauthorized")

\* get_by_jti_hash, then the checks on the row it returned.
ReadToken(r) ==
  /\ pc[r] = "select"
  /\ IF row[presented[r]] = "live" /\ exp[presented[r]] >= now
     THEN /\ Goto(r, "user")
          /\ UNCHANGED <<now, tables, owner, exp, presented, cutoff, deletes,
                         answer, history>>
     ELSE Leave(r, "unauthorized")

\* Mutant: is_active is not looked at.
ReadUserEvenInactive(r) ==
  /\ pc[r] = "user"
  /\ IF users[owner[r]] # "deleted"
     THEN /\ Goto(r, "revoke")
          /\ UNCHANGED <<now, tables, owner, exp, presented, cutoff, deletes,
                         answer, history>>
     ELSE Leave(r, "unauthorized")

\* get_by_id, then the check on the account it returned.
ReadUser(r) ==
  /\ pc[r] = "user"
  /\ IF users[owner[r]] = "active"
     THEN /\ Goto(r, "revoke")
          /\ UNCHANGED <<now, tables, owner, exp, presented, cutoff, deletes,
                         answer, history>>
     ELSE Leave(r, "unauthorized")

\* Mutant: the token is written back as a whole (a merge), also when its row
\* is gone.
RevokeByMerge(r) ==
  /\ pc[r] = "revoke"
  /\ ~LockedAgainst(r, presented[r])
  /\ Goto(r, "cleanup")
  /\ UNCHANGED <<now, tables, owner, exp, presented, cutoff, deletes, answer,
                 history>>

\* revoke(): UPDATE ... WHERE id = ..., which waits for the row.  It does not
\* look at revoked_at again, so a row another refresh revoked in the meantime
\* is revoked once more; a row that is gone matches nothing and the flush
\* raises.
Revoke(r) ==
  /\ pc[r] = "revoke"
  /\ ~LockedAgainst(r, presented[r])
  /\ IF row[presented[r]] # "none"
     THEN /\ Goto(r, "cleanup")
          /\ UNCHANGED <<now, tables, owner, exp, presented, cutoff, deletes,
                         answer, history>>
     ELSE Leave(r, "error")

\* Mutant: the cutoff lies in the future.
BeginCleanupAhead(r) ==
  /\ pc[r] = "cleanup"
  /\ Goto(r, "cleaning")
  /\ cutoff' = [cutoff EXCEPT ![r] = now + 1]
  /\ UNCHANGED <<now, tables, owner, exp, presented, deletes, answer, history>>

\* cleanup_expired() reads the clock and sends its DELETE.
BeginCleanup(r) ==
  /\ pc[r] = "cleanup"
  /\ Goto(r, "cleaning")
  /\ cutoff' = [cutoff EXCEPT ![r] = now]
  /\ UNCHANGED <<now, tables, owner, exp, presented, deletes, answer, history>>

\* The DELETE takes one expired row, waiting while another transaction has it.
CleanupRow(r, t) ==
  /\ pc[r] = "cleaning"
  /\ t \in Expired(r)
  /\ ~LockedAgainst(r, t)
  /\ deletes' = [deletes EXCEPT ![r] = @ \cup {t}]
  /\ UNCHANGED <<now, tables, owner, exp, pc, presented, cutoff, answer, history>>

\* The DELETE is done; the ORM then evaluates its criterion on the objects of
\* the session, where the spent token still is.
EndCleanup(r) ==
  /\ pc[r] = "cleaning"
  /\ Expired(r) = {}
  /\ IF EvaluateRaises
     THEN Leave(r, "error")
     ELSE /\ Goto(r, "insert")
          /\ cutoff' = [cutoff EXCEPT ![r] = 0]
          /\ UNCHANGED <<now, tables, owner, exp, presented, deletes, answer,
                         history>>

------------------------------------------------------------------------------
(* The end of both requests: IssueTokenPair, get_session and the response. *)

\* create(): the INSERT, which the foreign key refuses once the user is gone.
Insert(r) ==
  /\ pc[r] = "insert"
  /\ IF users[owner[r]] # "deleted"
     THEN /\ Goto(r, IF RespondBeforeCommit THEN "respond" ELSE "commit")
          /\ exp' = [exp EXCEPT ![r] = now + TTL]
          /\ UNCHANGED <<now, tables, owner, presented, cutoff, deletes, answer,
                         history>>
     ELSE Leave(r, "error")

Respond(r) ==
  /\ pc[r] = "respond"
  /\ answer' = [answer EXCEPT ![r] = "ok"]
  /\ Goto(r, IF RespondBeforeCommit THEN "commit" ELSE "done")
  /\ UNCHANGED <<now, tables, owner, exp, presented, cutoff, deletes, history>>

\* Mutant: the new token is stored but the old one is not revoked.
AppliedUnrevoked(r) ==
  [t \in Tokens |-> IF t = r THEN "live"
                    ELSE IF t \in deletes[r] THEN "none"
                    ELSE row[t]]

\* The tables once the writes of r are applied.
Applied(r) ==
  [t \in Tokens |-> IF t = r THEN "live"
                    ELSE IF t \in deletes[r] THEN "none"
                    ELSE IF t = presented[r] THEN "revoked"
                    ELSE row[t]]

Commit(r) ==
  /\ pc[r] = "commit"
  /\ row' = Applied(r)
  /\ committed' = committed \cup {r}
  /\ deletes' = [deletes EXCEPT ![r] = {}]
  /\ Goto(r, IF RespondBeforeCommit THEN "done" ELSE "respond")
  /\ UNCHANGED <<now, users, owner, exp, presented, cutoff, answer, removed,
                 replays, lockedOut>>

------------------------------------------------------------------------------
(* What goes wrong around a request.                                       *)

\* A statement, or the COMMIT, raises: get_session rolls back and re-raises.
\* A response that already went out stands.
Fail(r) ==
  /\ Faults
  /\ pc[r] \in InFlight /\ r \notin committed
  /\ Leave(r, IF answer[r] = "none" THEN "error" ELSE answer[r])

\* The worker dies or the task is cancelled: nobody answers, the server rolls
\* the transaction back.
Abandon(r) ==
  /\ Faults
  /\ pc[r] \in InFlight
  /\ Leave(r, answer[r])

\* The database ends a cycle of lock waits by failing one of the waiters.
BreakDeadlock(r) ==
  /\ \E S \in SUBSET Requests : r \in S /\ Deadlocked(S)
  /\ Leave(r, "error")

------------------------------------------------------------------------------
(* The clock, and staff in the admin interface.                            *)

Tick ==
  /\ now < MaxTime
  /\ now' = now + 1
  /\ UNCHANGED <<tables, owner, exp, pc, presented, cutoff, deletes, answer,
                 history>>

\* UserAdmin edits is_active, in a transaction of its own.
SetActive(u, s) ==
  /\ users[u] # "deleted" /\ users[u] # s
  /\ users' = [users EXCEPT ![u] = s]
  /\ lockedOut' = IF s = "active"
                  THEN {r \in lockedOut : owner[r] # u} ELSE lockedOut
  /\ UNCHANGED <<now, row, owner, exp, pc, presented, cutoff, deletes, answer,
                 committed, removed, replays>>

\* Mutant: no cascade to the tokens.
DeleteUserOnly(u) ==
  /\ users[u] # "deleted"
  /\ \A r \in Requests : owner[r] = u => ~Inserted(r)
  /\ users' = [users EXCEPT ![u] = "deleted"]
  /\ UNCHANGED <<now, row, owner, exp, pc, presented, cutoff, deletes, answer,
                 history>>

\* UserAdmin deletes an account, and the cascade its tokens; both wait for
\* the transactions that hold a lock on those rows.
DeleteUser(u) ==
  /\ users[u] # "deleted"
  /\ \A r \in Requests : owner[r] = u => ~Inserted(r)
  /\ \A r \in Requests, t \in Tokens : owner[t] = u => ~Holds(r, t)
  /\ users' = [users EXCEPT ![u] = "deleted"]
  /\ row' = [t \in Tokens |-> IF owner[t] = u THEN "none" ELSE row[t]]
  /\ UNCHANGED <<now, owner, exp, pc, presented, cutoff, deletes, answer, history>>

\* RefreshTokenAdmin deletes a row.
DeleteToken(t) ==
  /\ row[t] # "none"
  /\ \A r \in Requests : ~Holds(r, t)
  /\ row' = [row EXCEPT ![t] = "none"]
  /\ removed' = removed \cup {t}
  /\ UNCHANGED <<now, users, owner, exp, pc, presented, cutoff, deletes, answer,
                 committed, replays, lockedOut>>

------------------------------------------------------------------------------
\* What the event loop and the database do next for a request under way.
Advance(r) ==
  \/ ReadToken(r)
  \/ ReadUser(r)
  \/ Revoke(r)
  \/ BeginCleanup(r)
  \/ \E t \in Tokens : CleanupRow(r, t)
  \/ EndCleanup(r)
  \/ Insert(r)
  \/ Respond(r)
  \/ Commit(r)
  \/ BreakDeadlock(r)

Client(r) ==
  \/ \E u \in Users : Login(r, u)
  \/ Refuse(r)
  \/ \E t \in Tokens : Present(r, t)

Staff ==
  \/ \E u \in Users, s \in {"active", "inactive"} : SetActive(u, s)
  \/ \E u \in Users : DeleteUser(u)
  \/ \E t \in Tokens : DeleteToken(t)

Next ==
  \/ \E r \in Requests : Client(r) \/ Advance(r) \/ Fail(r) \/ Abandon(r)
  \/ Staff
  \/ Tick

Spec == Init /\ [][Next]_vars

\* The event loop runs every ready task and the database answers every
\* statement that waits for no lock.
FairSpec == Spec /\ \A r \in Requests : WF_vars(Advance(r))

------------------------------------------------------------------------------
(* Properties.                                                             *)

\* docs/api-contract.md: "the second attempt returns 401".  A refresh sent
\* after another refresh of the same token was answered 200 never gets a pair,
\* whatever else is under way (refresh_access_token.py:42-45).
ReplayRejected == \A r \in replays : answer[r] # "ok" /\ r \notin committed

\* Spending a token and issuing its successor are one transaction: a revoked
\* row always has a committed refresh that presented it, and a committed
\* refresh leaves no usable row behind, whatever failed or was abandoned.
RotationAtomic ==
  /\ \A t \in Tokens : row[t] = "revoked" =>
       \E r \in committed : presented[r] = t
  /\ \A r \in committed : presented[r] # NoToken => row[presented[r]] # "live"

\* A token a client was given and has not spent keeps its row until it
\* expires: no other request's cleanup, rollback or failure takes it away,
\* only staff do.
GivenTokenStands ==
  \A t \in Tokens :
    /\ Known(t)
    /\ exp[t] >= now
    /\ users[owner[t]] # "deleted"
    /\ t \notin removed
    /\ \A r \in committed : presented[r] # t
    => row[t] = "live"

\* While an account is inactive or deleted, no refresh sent in that time ever
\* gets a pair (refresh_access_token.py:58-61), however its statements
\* interleave with staff.
UnavailableLocksOut == \A r \in lockedOut : answer[r] # "ok" /\ r \notin committed

\* No refresh token outlives its account: the cascade and the foreign key
\* leave no row of a deleted user, also when a pair is being issued meanwhile.
NoOrphanRow == \A t \in Tokens : row[t] # "none" => users[owner[t]] # "deleted"

\* A spent or deleted token never comes back: a row only appears with the
\* commit of the request that minted it, and no late write of a concurrent
\* refresh restores one that was revoked, purged or deleted meanwhile.
NeverRevived ==
  [][\A t \in Tokens :
       /\ row[t] = "none" /\ row'[t] # "none" => t \in committed' \ committed
       /\ row[t] = "revoked" => row'[t] # "live"]_vars

\* Every request that got past the door is finished: the lock waits of
\* concurrent refreshes and their cleanups end.
EveryRequestEnds == \A r \in Requests : pc[r] \in InFlight ~> pc[r] = "done"

\* docs/api-contract.md: "a refresh token is single-use".
SingleUse ==
  \A q, r \in Requests :
    /\ presented[q] = presented[r] /\ presented[q] # NoToken
    /\ answer[q] = "ok" /\ answer[r] = "ok"
    => q = r

\* docs/api-contract.md: "Every refresh returns a new pair".  With no fault,
\* a refresh whose token is still unspent and whose account is available is
\* not answered 500.
RefreshReturnsPair ==
  \A r \in Requests :
    /\ presented[r] # NoToken
    /\ row[presented[r]] = "live"
    /\ users[owner[r]] = "active"
    => answer[r] # "error"

------------------------------------------------------------------------------
(* The abstract specification.                                             *)

Status ==
  [t \in Tokens |-> IF row[t] = "live" THEN "valid"
                    ELSE IF row[t] = "revoked" THEN "spent"
                    ELSE IF t \in Sessions \cup committed THEN "gone"
                    ELSE "unissued"]

Contract == INSTANCE SingleUseTokens
              WITH Stored <- Sessions, status <- Status

\* With clients that serialise their refreshes, every step is a step of
\* SingleUseTokens or changes nothing a client can tell.
ImplementsContract == Contract!Spec
==============================================================================
