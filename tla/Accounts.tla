------------------------------- MODULE Accounts -------------------------------
(***************************************************************************)
(* Accounts and their addresses: POST /auth/register against the users     *)
(* table, and staff who rename and delete accounts meanwhile.              *)
(*                                                                         *)
(* The lookup that refuses a taken address ignores letter case             *)
(* (stmt_by_email); the unique index does not.  An address is therefore    *)
(* modelled as a pair: what is left once the case is folded, and the       *)
(* spelling.  Every request runs in a transaction of its own at READ       *)
(* COMMITTED: a lookup sees committed rows, and an INSERT waits for the    *)
(* transaction that inserted the same key before it fails or goes on.      *)
(*                                                                         *)
(* A request creates at most one account, so the account created by        *)
(* request r is named r; Existing accounts are there from the start.       *)
(***************************************************************************)
EXTENDS Integers, FiniteSets

CONSTANTS
  Addresses, Spellings,
  NoEmail,
  Existing,             \* accounts already stored
  Requests,             \* registrations, one-shot
  RespondBeforeCommit,  \* the dependency's exit code runs after the response
  Faults                \* statements may fail, workers may die

Accounts == Existing \cup Requests
Emails == Addresses \X Spellings

\* User.email.lower()
Lower(e) == e[1]

ASSUME AccountNamesAssumption == Existing \cap Requests = {} /\ NoEmail \notin Emails
ASSUME AccountModesAssumption == RespondBeforeCommit \in BOOLEAN /\ Faults \in BOOLEAN

VARIABLES
  email,      \* committed users rows: the address, or NoEmail without a row
  asked,      \* the address a registration asks for
  pc,         \* what the registration is about to do
  answer,     \* what its client was answered
  committed,  \* registrations whose transaction committed
  counted,    \* registrations user_registrations_total counted
  announced,  \* registrations published as USER_REGISTERED
  late        \* registrations sent for an address whose owner knew it was
              \* theirs, and that staff have not touched since (history)

vars == <<email, asked, pc, answer, committed, counted, announced, late>>

InFlight == {"lookup", "insert", "publish", "respond", "commit"}

TypeOK ==
  /\ email \in [Accounts -> Emails \cup {NoEmail}]
  /\ asked \in [Requests -> Emails \cup {NoEmail}]
  /\ pc \in [Requests -> InFlight \cup {"idle", "done"}]
  /\ answer \in [Requests -> {"none", "created", "conflict", "error"}]
  /\ committed \subseteq Requests
  /\ counted \subseteq Requests
  /\ announced \subseteq Requests
  /\ late \subseteq Requests

Init ==
  /\ \E f \in [Existing -> Emails] :
       /\ \A a, b \in Existing : Lower(f[a]) = Lower(f[b]) => a = b
       /\ email = [a \in Accounts |-> IF a \in Existing THEN f[a] ELSE NoEmail]
  /\ asked = [r \in Requests |-> NoEmail]
  /\ pc = [r \in Requests |-> "idle"]
  /\ answer = [r \in Requests |-> "none"]
  /\ committed = {}
  /\ counted = {}
  /\ announced = {}
  /\ late = {}

------------------------------------------------------------------------------
Stored(a) == email[a] # NoEmail

\* The INSERT of r has been flushed and is not committed yet.
Inserted(r) == pc[r] \in {"publish", "respond", "commit"} /\ r \notin committed

\* Mutant: the lookup compares spellings.
MatchesExactly(e) == {a \in Accounts : Stored(a) /\ email[a] = e}

\* The rows stmt_by_email returns.
Matches(e) == {a \in Accounts : Stored(a) /\ Lower(email[a]) = Lower(e)}

\* The unique index: somebody else's row, or an INSERT that may still commit.
TakenKey(e, a) == \E b \in Accounts \ {a} : email[b] = e
PendingKey(e, a) == \E q \in Requests \ {a} : Inserted(q) /\ asked[q] = e

\* What the owner of an account knows to be theirs.
OwnerOf(a) == a \in Existing \/ (a \in Requests /\ answer[a] = "created")

Goto(r, label) == pc' = [pc EXCEPT ![r] = label]

Leave(r, a) ==
  /\ Goto(r, "done")
  /\ answer' = [answer EXCEPT ![r] = a]
  /\ UNCHANGED <<email, asked, committed, counted, announced, late>>

------------------------------------------------------------------------------
(* Registration.                                                           *)

Register(r, e) ==
  /\ pc[r] = "idle"
  /\ Goto(r, "lookup")
  /\ asked' = [asked EXCEPT ![r] = e]
  /\ late' = IF \E a \in Accounts : OwnerOf(a) /\ Stored(a) /\ Lower(email[a]) = Lower(e)
             THEN late \cup {r} ELSE late
  /\ UNCHANGED <<email, answer, committed, counted, announced>>

\* get_by_email: scalar_one_or_none raises when two rows match.
Lookup(r) ==
  /\ pc[r] = "lookup"
  /\ \/ /\ Matches(asked[r]) = {}
        /\ Goto(r, "insert")
        /\ UNCHANGED <<email, asked, answer, committed, counted, announced, late>>
     \/ /\ Cardinality(Matches(asked[r])) = 1
        /\ Leave(r, "conflict")
     \/ /\ Cardinality(Matches(asked[r])) > 1
        /\ Leave(r, "error")

\* Mutant: the unique index is missing.
InsertAnyway(r) ==
  /\ pc[r] = "insert"
  /\ Goto(r, "publish")
  /\ counted' = counted \cup {r}
  /\ UNCHANGED <<email, asked, answer, committed, announced, late>>

\* create() flushes the INSERT.  IntegrityError is not caught: a duplicate key
\* becomes a 500.  The counter follows without an await in between.
Insert(r) ==
  /\ pc[r] = "insert"
  /\ ~PendingKey(asked[r], r)
  /\ IF TakenKey(asked[r], r)
     THEN Leave(r, "error")
     ELSE /\ Goto(r, "publish")
          /\ counted' = counted \cup {r}
          /\ UNCHANGED <<email, asked, answer, committed, announced, late>>

\* Mutant: on some path the route forgets to dispatch.
PublishMaybe(r) ==
  /\ pc[r] = "publish"
  /\ Goto(r, IF RespondBeforeCommit THEN "respond" ELSE "commit")
  /\ announced' \in {announced, announced \cup {r}}
  /\ UNCHANGED <<email, asked, answer, committed, counted, late>>

\* dispatch_events runs every handler; one that raises is only logged.
Publish(r) ==
  /\ pc[r] = "publish"
  /\ Goto(r, IF RespondBeforeCommit THEN "respond" ELSE "commit")
  /\ announced' = announced \cup {r}
  /\ UNCHANGED <<email, asked, answer, committed, counted, late>>

\* Mutant: the default status code.
RespondOk(r) ==
  /\ pc[r] = "respond"
  /\ Goto(r, IF RespondBeforeCommit THEN "commit" ELSE "done")
  /\ answer' = [answer EXCEPT ![r] = "ok"]
  /\ UNCHANGED <<email, asked, committed, counted, announced, late>>

Respond(r) ==
  /\ pc[r] = "respond"
  /\ Goto(r, IF RespondBeforeCommit THEN "commit" ELSE "done")
  /\ answer' = [answer EXCEPT ![r] = "created"]
  /\ UNCHANGED <<email, asked, committed, counted, announced, late>>

\* Mutant: an account with the same address is replaced.
CommitReplacing(r) ==
  /\ pc[r] = "commit"
  /\ email' = [a \in Accounts |-> IF a = r THEN asked[r]
                                  ELSE IF a \in Matches(asked[r]) THEN NoEmail
                                  ELSE email[a]]
  /\ committed' = committed \cup {r}
  /\ Goto(r, IF RespondBeforeCommit THEN "done" ELSE "respond")
  /\ UNCHANGED <<asked, answer, counted, announced, late>>

Commit(r) ==
  /\ pc[r] = "commit"
  /\ email' = [email EXCEPT ![r] = asked[r]]
  /\ committed' = committed \cup {r}
  /\ Goto(r, IF RespondBeforeCommit THEN "done" ELSE "respond")
  /\ UNCHANGED <<asked, answer, counted, announced, late>>

\* A statement, or the COMMIT, raises: rollback.  What was counted and
\* announced stays so, and a response that already went out stands.
Fail(r) ==
  /\ Faults
  /\ pc[r] \in InFlight /\ r \notin committed
  /\ Leave(r, IF answer[r] = "none" THEN "error" ELSE answer[r])

\* The worker dies or the task is cancelled: nobody answers.
Abandon(r) ==
  /\ Faults
  /\ pc[r] \in InFlight
  /\ Leave(r, answer[r])

------------------------------------------------------------------------------
(* Staff in the admin interface, each edit in a transaction of its own.    *)

Untouched(a) == late' = {r \in late : Lower(asked[r]) # Lower(email[a])}

\* UserAdmin edits the address without any lookup; the unique index refuses
\* one that is taken and makes the edit wait for a registration under way.
Rename(a, e) ==
  /\ Stored(a) /\ email[a] # e
  /\ ~TakenKey(e, a) /\ ~PendingKey(e, a)
  /\ email' = [email EXCEPT ![a] = e]
  /\ Untouched(a)
  /\ UNCHANGED <<asked, pc, answer, committed, counted, announced>>

Delete(a) ==
  /\ Stored(a)
  /\ email' = [email EXCEPT ![a] = NoEmail]
  /\ Untouched(a)
  /\ UNCHANGED <<asked, pc, answer, committed, counted, announced>>

------------------------------------------------------------------------------
Advance(r) == Lookup(r) \/ Insert(r) \/ Publish(r) \/ Respond(r) \/ Commit(r)

Staff ==
  \/ \E a \in Accounts, e \in Emails : Rename(a, e)
  \/ \E a \in Accounts : Delete(a)

Next ==
  \/ \E r \in Requests, e \in Emails : Register(r, e)
  \/ \E r \in Requests : Advance(r) \/ Fail(r) \/ Abandon(r)
  \/ Staff

Spec == Init /\ [][Next]_vars

------------------------------------------------------------------------------
(* Properties.                                                             *)

\* No two accounts share a spelling, however registrations, their rollbacks
\* and staff edits interleave between a lookup and its INSERT.
OnePerSpelling ==
  \A a, b \in Accounts : Stored(a) /\ email[a] = email[b] => a = b

\* A registration sent for an address somebody already owns, in any spelling,
\* never creates an account (register_user.py:25), as long as staff leave the
\* address alone.
LateDuplicateRefused ==
  \A r \in late : answer[r] # "created" /\ r \notin committed

\* An account that exists stays as it is unless staff edit it: no
\* registration, rollback or crash takes an address away from its owner.
OnlyStaffChangeAccounts ==
  [][\A a \in Accounts : Stored(a) /\ email'[a] # email[a] => Staff]_vars

\* Every account a registration stored was counted and announced before,
\* whatever failed on the way; the reverse does not hold, since both happen
\* before the COMMIT.
StoredIsAnnounced == committed \subseteq counted \cap announced

\* register_user.py: "Create an account, rejecting an email that is already
\* taken".  Addresses are compared without case, so one address has one
\* account; get_by_email relies on it and raises otherwise.
OneAccountPerAddress ==
  \A a, b \in Accounts :
    Stored(a) /\ Stored(b) /\ Lower(email[a]) = Lower(email[b]) => a = b
==============================================================================
