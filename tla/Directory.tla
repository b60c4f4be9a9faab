------------------------------ MODULE Directory ------------------------------
(***************************************************************************)
(* The accounts as the users API and the admin interface see them.         *)
(*                                                                         *)
(* An access token says who its bearer is and nothing about the account,   *)
(* so every request reads the account again (deps.py).  A request of the   *)
(* list is three statements, the account, COUNT and the page, each reading *)
(* what is committed at its own time; a client walks the list with one     *)
(* request per page as long as has_next is true.  A session of the admin   *)
(* interface is a signed cookie with a user's id (admin_auth.py); every    *)
(* request under it reads is_superuser, and edits in another transaction.  *)
(*                                                                         *)
(* Accounts are numbered by created_at, which is set before the COMMIT, so *)
(* that they appear in any order.  Statements are atomic; a request that   *)
(* fails altogether reads and answers nothing and is left out.             *)
(***************************************************************************)
EXTENDS Pagination

CONSTANTS
  Accounts,    \* by created_at
  Founders,    \* those there at first
  Staff,       \* the superusers among them
  Callers,     \* clients of the users API, one get, me or walk each
  Browsers,    \* clients of the admin interface
  Edited       \* the accounts staff edit (bound)

ASSUME DirectoryAssumption ==
  /\ Accounts \subseteq Nat /\ IsFiniteSet(Accounts)
  /\ Staff \subseteq Founders /\ Founders \subseteq Accounts /\ Edited \subseteq Accounts
  /\ Callers \cap Browsers = {}

VARIABLES
  status,      \* of an account: future, active, inactive or deleted
  supers,      \* accounts with is_superuser
  user,        \* whose token a caller has, whose cookie a browser has
  pc,          \* what a request waits for
  call,        \* me, get or list
  target,      \* the id a get asks for
  page,        \* the page a list asks for
  total,       \* what its COUNT said
  answer       \* the last status a caller was answered

requestVars == <<user, pc, call, target, page, total, answer>>

VARIABLES      \* history
  entitled,    \* requests whose user had the rights they need at some moment
               \* since they were sent
  stayed,      \* accounts there since a walk of the list began
  appeared,    \* accounts that appeared during it
  since,       \* and those that did since its last COUNT
  left,        \* accounts deleted during it
  listed,      \* accounts it has listed
  repeated     \* and those it has listed again

walkVars == <<stayed, appeared, since, left, listed, repeated>>
vars == <<status, supers, requestVars, entitled, walkVars>>

Nobody == 0 - 1   \* no account
Clients == Callers \cup Browsers
Rows == {u \in Accounts : status[u] \in {"active", "inactive"}}
Edits == [of : Edited, status : {"active", "inactive", "deleted"}, super : BOOLEAN]

TypeOK ==
  /\ status \in [Accounts -> {"future", "active", "inactive", "deleted"}]
  /\ supers \subseteq Rows
  /\ user \in [Clients -> Accounts \cup {Nobody}]
  /\ pc \in [Clients -> {"idle", "sent", "fetch", "count", "page", "turn", "edit", "done"}]
  /\ call \in [Callers -> {"me", "get", "list"}]
  /\ target \in [Callers -> Accounts \cup {Nobody}]
  /\ page \in [Callers -> Nat \ {0}]
  /\ total \in [Callers -> Nat]
  /\ answer \in [Callers -> {0, 200, 401, 403, 404}]
  /\ entitled \subseteq Clients
  /\ \A H \in {stayed, appeared, since, left, listed, repeated} :
       H \in [Callers -> SUBSET Accounts]

None == [c \in Callers |-> {}]

Init ==
  /\ status = [u \in Accounts |-> IF u \in Founders THEN "active" ELSE "future"]
  /\ supers = Staff
  /\ user = [x \in Clients |-> Nobody]
  /\ pc = [x \in Clients |-> "idle"]
  /\ call = [c \in Callers |-> "me"]
  /\ target = [c \in Callers |-> Nobody]
  /\ page = [c \in Callers |-> 1]
  /\ total = [c \in Callers |-> 0]
  /\ answer = [c \in Callers |-> 0]
  /\ entitled = {}
  /\ stayed = None /\ appeared = None /\ since = None
  /\ left = None /\ listed = None /\ repeated = None

------------------------------------------------------------------------------
(* Requests of the users API.                                              *)

Goto(x, step) == pc' = [pc EXCEPT ![x] = step]

\* What a request needs its user to be.
Entitled(x) ==
  IF x \in Browsers THEN user[x] \in supers
  ELSE user[x] \in (IF call[x] = "me" THEN Rows ELSE supers) /\ status[user[x]] = "active"

\* A request is sent: its history begins.
Sent(x) ==
  /\ Goto(x, "sent")
  /\ entitled' = IF Entitled(x)' THEN entitled \cup {x} ELSE entitled \ {x}

\* Mutant: pages counted from zero.
SendFromZero(c, k, u, t) ==
  /\ pc[c] = "idle"
  /\ status[u] # "future"
  /\ user' = [user EXCEPT ![c] = u]
  /\ call' = [call EXCEPT ![c] = k]
  /\ target' = [target EXCEPT ![c] = t]
  /\ page' = [page EXCEPT ![c] = 0]
  /\ stayed' = [stayed EXCEPT ![c] = IF k = "list" THEN Rows ELSE {}]
  /\ UNCHANGED <<status, supers, total, answer, appeared, since, left, listed, repeated>>
  /\ Sent(c)

\* A call under the token of an account that exists or existed.
Send(c, k, u, t) ==
  /\ pc[c] = "idle"
  /\ status[u] # "future"
  /\ user' = [user EXCEPT ![c] = u]
  /\ call' = [call EXCEPT ![c] = k]
  /\ target' = [target EXCEPT ![c] = t]
  /\ stayed' = [stayed EXCEPT ![c] = IF k = "list" THEN Rows ELSE {}]
  /\ UNCHANGED <<status, supers, page, total, answer, appeared, since, left, listed, repeated>>
  /\ Sent(c)

Answer(c, code) ==
  /\ Goto(c, "done")
  /\ answer' = [answer EXCEPT ![c] = code]
  /\ UNCHANGED <<status, supers, user, call, target, page, total, entitled>>

\* get_current_user: the token has expired, or the account is not there or not
\* active.
Reject(c) ==
  /\ pc[c] = "sent"
  /\ \E expired \in BOOLEAN : expired \/ status[user[c]] # "active"
  /\ Answer(c, 401)
  /\ UNCHANGED walkVars

\* require_superuser, on the row that was just read.
Forbid(c) ==
  /\ pc[c] = "sent" /\ call[c] # "me"
  /\ status[user[c]] = "active" /\ user[c] \notin supers
  /\ Answer(c, 403)
  /\ UNCHANGED walkVars

\* me answers with the row get_current_user has read.
Me(c) ==
  /\ pc[c] = "sent" /\ call[c] = "me"
  /\ status[user[c]] = "active"
  /\ Answer(c, 200)
  /\ UNCHANGED walkVars

\* Mutant: is_active is looked at when tokens are issued.
AuthorizeEvenInactive(c) ==
  /\ pc[c] = "sent" /\ call[c] # "me"
  /\ user[c] \in supers
  /\ Goto(c, IF call[c] = "get" THEN "fetch" ELSE "count")
  /\ UNCHANGED <<status, supers, user, call, target, page, total, answer,
                 entitled, walkVars>>

Authorize(c) ==
  /\ pc[c] = "sent" /\ call[c] # "me"
  /\ status[user[c]] = "active" /\ user[c] \in supers
  /\ Goto(c, IF call[c] = "get" THEN "fetch" ELSE "count")
  /\ UNCHANGED <<status, supers, user, call, target, page, total, answer,
                 entitled, walkVars>>

\* Mutant: every get is a SELECT.
FoundByStatement(c) == target[c] \in Rows

\* session.get finds the caller's own row in the identity map, where
\* get_current_user left it, and sends no second statement.
Found(c) == target[c] = user[c] \/ target[c] \in Rows

Get(c) ==
  /\ pc[c] = "fetch"
  /\ Answer(c, IF Found(c) THEN 200 ELSE 404)
  /\ UNCHANGED walkVars

\* list: SELECT count(*).
Count(c) ==
  /\ pc[c] = "count"
  /\ Goto(c, "page")
  /\ total' = [total EXCEPT ![c] = Cardinality(Rows)]
  /\ since' = [since EXCEPT ![c] = {}]
  /\ UNCHANGED <<status, supers, user, call, target, page, answer, entitled,
                 stayed, appeared, left, listed, repeated>>

\* list: the page, answered with the pagination of the total counted before.
ListPage(c) ==
  /\ pc[c] = "page"
  /\ listed' = [listed EXCEPT ![c] = @ \cup Page(Rows, page[c])]
  /\ repeated' = [repeated EXCEPT ![c] = @ \cup (listed[c] \cap Page(Rows, page[c]))]
  /\ Goto(c, IF HasNext(page[c], total[c]) THEN "turn" ELSE "done")
  /\ answer' = [answer EXCEPT ![c] = 200]
  /\ UNCHANGED <<status, supers, user, call, target, page, total, entitled,
                 stayed, appeared, since, left>>

\* The client goes on to the next page, as has_next told it.
Turn(c) ==
  /\ pc[c] = "turn"
  /\ page' = [page EXCEPT ![c] = @ + 1]
  /\ answer' = [answer EXCEPT ![c] = 0]
  /\ UNCHANGED <<status, supers, user, call, target, total, walkVars>>
  /\ Sent(c)

------------------------------------------------------------------------------
(* The admin interface.                                                    *)

\* login: the password is right and the account is a superuser's, be it active
\* or not; the cookie gets its id.
SignIn(b, u) ==
  /\ pc[b] = "idle" /\ user[b] = Nobody
  /\ u \in supers
  /\ user' = [user EXCEPT ![b] = u]
  /\ UNCHANGED <<status, supers, pc, call, target, page, total, answer, entitled, walkVars>>

\* logout clears the cookie of this browser.
SignOut(b) ==
  /\ pc[b] = "idle" /\ user[b] # Nobody
  /\ user' = [user EXCEPT ![b] = Nobody]
  /\ UNCHANGED <<status, supers, pc, call, target, page, total, answer, entitled, walkVars>>

\* A save or a deletion is posted.
Post(b) ==
  /\ pc[b] = "idle" /\ user[b] # Nobody
  /\ UNCHANGED <<status, supers, user, call, target, page, total, answer, walkVars>>
  /\ Sent(b)

\* Mutant: the cookie is taken at its word.
AuthenticateByCookie(b) ==
  /\ pc[b] = "sent"
  /\ Goto(b, "edit")
  /\ UNCHANGED <<status, supers, user, call, target, page, total, answer,
                 entitled, walkVars>>

\* authenticate reads the account in a session of its own; without the rights
\* the request ends at the login page.
Authenticate(b) ==
  /\ pc[b] = "sent"
  /\ Goto(b, IF user[b] \in supers THEN "edit" ELSE "idle")
  /\ UNCHANGED <<status, supers, user, call, target, page, total, answer, entitled, walkVars>>

------------------------------------------------------------------------------
(* Accounts come, change and go.                                           *)

\* What the calls and sessions under way see of it.
Witnessed ==
  LET Walking == {c \in Callers : call[c] = "list" /\ pc[c] \notin {"idle", "done"}}
      More(H, S) == [c \in Callers |-> IF c \in Walking THEN H[c] \cup S ELSE H[c]]
  IN /\ entitled' = {x \in Clients :
                        /\ pc'[x] # "idle"
                        /\ x \in entitled \/ (pc[x] \notin {"turn", "done"} /\ Entitled(x)')}
     /\ stayed' = [c \in Callers |-> IF c \in Walking THEN stayed[c] \cap Rows' ELSE stayed[c]]
     /\ appeared' = More(appeared, Rows' \ Rows)
     /\ since' = More(since, Rows' \ Rows)
     /\ left' = More(left, Rows \ Rows')
     /\ UNCHANGED <<listed, repeated>>

\* The COMMIT of a registration, or of the seed command, which creates the
\* accounts of its fixtures that are missing in one transaction.
Appear(S) ==
  /\ S # {}
  /\ \A u \in S : status[u] = "future"
  /\ status' = [u \in Accounts |-> IF u \in S THEN "active" ELSE status[u]]
  /\ UNCHANGED <<supers, requestVars>>
  /\ Witnessed

\* The edit's own transaction: UserAdmin deletes the row, or writes both flags
\* as the form has them, which was opened any time before, if the row is still
\* there.
Edit(b, e) ==
  /\ pc[b] = "edit"
  /\ Goto(b, "idle")
  /\ IF e.of \in Rows
     THEN /\ status' = [status EXCEPT ![e.of] = e.status]
          /\ supers' = IF e.super /\ e.status # "deleted"
                       THEN supers \cup {e.of} ELSE supers \ {e.of}
     ELSE UNCHANGED <<status, supers>>
  /\ UNCHANGED <<user, call, target, page, total, answer>>
  /\ Witnessed

Call(c) ==
  \/ Reject(c) \/ Forbid(c) \/ Me(c) \/ Authorize(c) \/ Get(c)
  \/ Count(c) \/ ListPage(c) \/ Turn(c)

Next ==
  \/ \E c \in Callers, u \in Accounts :
       \/ \E k \in {"me", "list"} : Send(c, k, u, Nobody)
       \/ \E t \in Accounts : Send(c, "get", u, t)
  \/ \E c \in Callers : Call(c)
  \/ \E b \in Browsers : Post(b) \/ Authenticate(b) \/ SignOut(b)
  \/ \E b \in Browsers, u \in Accounts : SignIn(b, u)
  \/ \E b \in Browsers, e \in Edits : Edit(b, e)
  \/ \E S \in SUBSET Accounts : Appear(S)

Spec == Init /\ [][Next]_vars

------------------------------------------------------------------------------
(* Properties.                                                             *)

\* A token says nothing about its bearer's rights (get_current_user,
\* require_superuser): a request is answered 200 only if its account was
\* there, active and, but for me, a superuser's, at some moment after it was
\* sent.  Deactivation, demotion and deletion end with the requests under way,
\* page by page of a walk, however long the token lives.
OnlyTheEntitled == \A c \in Callers : answer[c] = 200 => c \in entitled

\* The same for the admin interface (AdminAuth.authenticate): accounts change
\* by the hand of somebody who was a superuser at some moment after the edit
\* was posted.
EditorsHaveRights ==
  [][\A u \in Accounts :
       u \in Rows /\ (status[u] # status'[u] \/ (u \in supers) # (u \in supers'))
         => \E b \in Browsers : pc[b] = "edit" /\ b \in entitled]_vars

\* docs/api-contract.md: "Use has_next for load more".  A client that does so
\* until has_next is false has seen every account that was there all along,
\* unless a younger one was deleted meanwhile or appeared between the last
\* COUNT and the SELECT of its page.
WalkMissesLittle ==
  \A c \in Callers :
    pc[c] = "done" /\ call[c] = "list" /\ answer[c] = 200 =>
      \A u \in stayed[c] \ listed[c] : \E v \in left[c] \cup since[c] : v > u

\* An account is listed twice only if a younger one appeared during the walk.
WalkRepeatsLittle ==
  \A c \in Callers : \A u \in repeated[c] : \E v \in appeared[c] : v > u

\* A superuser that asks for its own id is never told it does not exist, not
\* even when it is deleted between the two reads of the request.
OwnRecordIsFound ==
  \A c \in Callers : answer[c] = 404 => target[c] # user[c]
==============================================================================
