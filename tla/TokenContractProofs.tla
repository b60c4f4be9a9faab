------------------------- MODULE TokenContractProofs -------------------------
(***************************************************************************)
(* When clients have no two refreshes of a token under way and the         *)
(* response follows the COMMIT, the statements, locks and failures of      *)
(* TokenRotation implement the one-step rotation of SingleUseTokens, and a *)
(* token is spent at most once: for every set of users, tokens and         *)
(* requests.                                                               *)
(***************************************************************************)
EXTENDS TokenLocksProofs

(* A login has no token to look up, to revoke or to clean up after.        *)

LoginInv ==
  \A r \in Requests :
    presented[r] = NoToken =>
      pc[r] \in {"idle", "insert", "done"} \cup Finishing /\ deletes[r] = {}

LEMMA NextLoginInv == TypeOK /\ LoginInv /\ [Next]_vars => LoginInv'
<1> SUFFICES ASSUME TypeOK, LoginInv, [Next]_vars PROVE LoginInv'
  OBVIOUS
<1> USE DEF LoginInv, TypeOK, tables, history, Finishing
<1>1. ASSUME NEW r \in Requests, NEW a, Leave(r, a) PROVE LoginInv'
  BY <1>1 DEF Leave
<1>2. ASSUME NEW r \in Requests, NEW label, Goto(r, label),
             presented[r] # NoToken \/ label \in {"insert", "done"} \cup Finishing,
             UNCHANGED <<presented, deletes>>
      PROVE  LoginInv'
  BY <1>2 DEF Goto
<1>3. ASSUME NEW r \in Requests, Client(r) PROVE LoginInv'
  <2>1. ASSUME NEW u \in Users, Login(r, u) PROVE LoginInv'
    BY <1>2, <2>1 DEF Login
  <2>2. CASE Refuse(r)
    BY <1>1, <2>2 DEF Refuse
  <2>3. ASSUME NEW t \in Tokens, Present(r, t) PROVE LoginInv'
    BY <2>3, NamesAssumption DEF Present, Goto
  <2> QED
    BY <1>3, <2>1, <2>2, <2>3 DEF Client
<1>4. ASSUME NEW r \in Requests, Advance(r) PROVE LoginInv'
  <2>1. ASSUME NEW t \in Tokens, CleanupRow(r, t) PROVE LoginInv'
    BY <2>1 DEF CleanupRow
  <2>2. CASE ReadToken(r) \/ ReadUser(r) \/ Revoke(r) \/ BeginCleanup(r)
    BY <1>1, <1>2, <2>2 DEF ReadToken, ReadUser, Revoke, BeginCleanup
  <2>3. CASE EndCleanup(r) \/ Insert(r) \/ Respond(r) \/ BreakDeadlock(r)
    BY <1>1, <1>2, <2>3 DEF EndCleanup, Insert, Respond, BreakDeadlock
  <2>4. CASE Commit(r)
    BY <2>4 DEF Commit, Goto
  <2> QED
    BY <1>4, <2>1, <2>2, <2>3, <2>4 DEF Advance
<1>5. ASSUME NEW r \in Requests, Fail(r) \/ Abandon(r) PROVE LoginInv'
  BY <1>1, <1>5 DEF Fail, Abandon
<1>6. CASE Staff \/ Tick \/ UNCHANGED vars
  BY <1>6 DEF Staff, SetActive, DeleteUser, DeleteToken, Tick, vars
<1> QED
  BY <1>3, <1>4, <1>5, <1>6 DEF Next

------------------------------------------------------------------------------
(* One refresh of a token at a time.                                       *)

\* A refresh under way that has found its token.
Found(r) == pc[r] \in {"user"} \cup Writing \cup Finishing /\ r \notin committed

\* Why a COMMIT always spends a token that is still live: nobody else can have
\* spent it since the SELECT found it, for its refresh would be under way too.
SerialInv ==
  /\ \A r \in Requests : answer[r] # "none" => pc[r] = "done"
  /\ \A q, r \in Requests :
       presented[q] = presented[r] /\ presented[q] # NoToken /\ q # r
         => pc[q] = "done" \/ pc[r] = "done"
  /\ \A r \in Requests :
       Found(r) /\ presented[r] \in Tokens => row[presented[r]] # "revoked"

\* A step that sends nothing, spends nothing and finds no token.
LEMMA QuietSerialInv ==
  ASSUME SerialInv, UNCHANGED presented,
         \A t \in Tokens : row'[t] = "revoked" => row[t] = "revoked",
         \A q \in Requests : pc[q] = "done" => pc'[q] = "done",
         \A q \in Requests : answer'[q] = answer[q] \/ pc'[q] = "done",
         \A q \in Requests : Found(q)' => Found(q)
  PROVE  SerialInv'
BY DEF SerialInv

LEMMA LeaveSerialInv ==
  ASSUME TypeOK, SerialInv, NEW r \in Requests, NEW a, Leave(r, a)
  PROVE  SerialInv'
<1> USE DEF Leave, tables, history, TypeOK
<1>1. \A q \in Requests : Found(q)' => Found(q)
  BY DEF Found, Writing, Finishing
<1>2. \A q \in Requests : answer'[q] = answer[q] \/ pc'[q] = "done"
  OBVIOUS
<1>3. \A q \in Requests : pc[q] = "done" => pc'[q] = "done"
  OBVIOUS
<1> QED
  BY <1>1, <1>2, <1>3, QuietSerialInv

\* A request that has found its token, or that is a login, moves on.
LEMMA GotoSerialInv ==
  ASSUME TypeOK, SerialInv, NEW r \in Requests, NEW label, Goto(r, label),
         pc[r] # "done", Found(r) \/ presented[r] = NoToken,
         UNCHANGED <<row, presented, answer, committed>>
  PROVE  SerialInv'
<1> USE DEF Goto, TypeOK
<1>1. \A q \in Requests \ {r} : Found(q)' => Found(q)
  BY DEF Found
<1>2. \A q \in Requests : pc[q] = "done" => pc'[q] = "done"
  OBVIOUS
<1>3. NoToken \notin Tokens
  BY NamesAssumption
<1>4. \A q \in Requests : answer[q] # "none" => pc'[q] = "done"
  BY DEF SerialInv
<1> QED
  BY <1>1, <1>2, <1>3, <1>4 DEF SerialInv

LEMMA ClientSerialInv ==
  ASSUME Serialised, RotationInv, SerialInv, NEW r \in Requests, Client(r)
  PROVE  SerialInv'
<1>1. TypeOK
  BY DEF RotationInv
<1>2. ASSUME NEW u \in Users, Login(r, u) PROVE SerialInv'
  <2>1. presented[r] = NoToken /\ pc[r] # "done"
    BY <1>2 DEF Login, RotationInv
  <2> QED
    BY <1>1, <1>2, <2>1, GotoSerialInv DEF Login, tables, history
<1>3. CASE Refuse(r)
  BY <1>1, <1>3, LeaveSerialInv DEF Refuse
<1>4. ASSUME NEW t \in Tokens, Present(r, t) PROVE SerialInv'
  <2> USE <1>1, <1>4 DEF Present, Goto, tables, TypeOK
  <2>1. \A q \in Requests : presented[q] = t => pc[q] = "done"
    BY DEF SerialInv
  <2>2. ASSUME NEW p \in Requests, NEW q \in Requests, p # q,
               presented'[p] = presented'[q], presented'[p] # NoToken
        PROVE  pc'[p] = "done" \/ pc'[q] = "done"
    BY <2>1, <2>2 DEF SerialInv
  <2>3. \A q \in Requests : Found(q)' => Found(q) /\ q # r
    BY DEF Found, Writing, Finishing
  <2>4. \A q \in Requests : answer'[q] # "none" => pc'[q] = "done"
    BY DEF SerialInv
  <2>5. \A q \in Requests :
          Found(q)' /\ presented'[q] \in Tokens => row'[presented'[q]] # "revoked"
    BY <2>3 DEF SerialInv
  <2> HIDE DEF Present
  <2> QED
    BY <2>2, <2>4, <2>5 DEF SerialInv
<1> QED
  BY <1>2, <1>3, <1>4 DEF Client

LEMMA AdvanceSerialInv ==
  ASSUME ~RespondBeforeCommit, LockInv, LoginInv, SerialInv,
         NEW r \in Requests, Advance(r)
  PROVE  SerialInv'
<1>1. TypeOK
  BY DEF LockInv, RotationInv
<1> USE DEF tables, history, Writing, Finishing
<1>2. CASE ReadToken(r)
  <2>1. CASE Leave(r, "unauthorized")
    BY <1>1, <2>1, LeaveSerialInv
  <2>2. CASE /\ pc[r] = "select" /\ Goto(r, "user") /\ row[presented[r]] = "live"
             /\ UNCHANGED <<row, presented, answer, committed>>
    <3> USE <1>1, <2>2 DEF Goto, TypeOK
    <3>1. \A q \in Requests \ {r} : Found(q)' => Found(q)
      BY DEF Found
    <3>2. \A q \in Requests : pc[q] = "done" => pc'[q] = "done"
      OBVIOUS
    <3> QED
      BY <3>1, <3>2 DEF SerialInv
  <2> QED
    BY <1>2, <2>1, <2>2 DEF ReadToken
<1>3. CASE pc[r] \in {"user"} \cup Writing
  <2>1. Found(r)
    BY <1>3 DEF Found, LockInv, RotationInv, Settled
  <2>2. CASE ReadUser(r) \/ Revoke(r) \/ BeginCleanup(r)
    BY <1>1, <1>3, <2>1, <2>2, LeaveSerialInv, GotoSerialInv
    DEF ReadUser, Revoke, BeginCleanup
  <2>3. CASE EndCleanup(r) \/ Insert(r) \/ BreakDeadlock(r)
    BY <1>1, <1>3, <2>1, <2>3, LeaveSerialInv, GotoSerialInv
    DEF EndCleanup, Insert, BreakDeadlock
  <2>4. ASSUME NEW t \in Tokens, CleanupRow(r, t) PROVE SerialInv'
    BY <2>4, QuietSerialInv DEF CleanupRow, Found
  <2> QED
    BY <1>3, <2>2, <2>3, <2>4 DEF Advance, ReadToken, Respond, Commit
<1>4. CASE Respond(r)
  <2> USE <1>1, <1>4 DEF Respond, Goto, TypeOK
  <2>1. \A q \in Requests : Found(q)' => Found(q)
    BY DEF Found
  <2>2. \A q \in Requests : answer'[q] = answer[q] \/ pc'[q] = "done"
    OBVIOUS
  <2>3. \A q \in Requests : pc[q] = "done" => pc'[q] = "done"
    OBVIOUS
  <2> QED
    BY <2>1, <2>2, <2>3, QuietSerialInv
<1>5. CASE Commit(r)
  <2> USE <1>1, <1>5 DEF Commit, Goto, TypeOK
  <2>1. \A q \in Requests : Found(q)' => Found(q) /\ q # r
    BY DEF Found
  <2>2. \A q \in Requests : answer'[q] # "none" => pc'[q] = "done"
    BY DEF SerialInv
  <2>3. \A q \in Requests : pc[q] = "done" => pc'[q] = "done"
    OBVIOUS
  <2>4. ASSUME NEW q \in Requests, Found(q)', presented'[q] \in Tokens
        PROVE  row'[presented'[q]] # "revoked"
    <3>1. Found(q) /\ q # r /\ pc[q] # "done" /\ pc[r] # "done"
      BY <2>1, <2>4 DEF Found
    <3>2. presented[q] # presented[r]
      BY <2>4, <3>1, NamesAssumption DEF SerialInv
    <3>3. row[presented[q]] # "revoked"
      BY <2>4, <3>1 DEF SerialInv
    <3> QED
      BY <2>4, <3>2, <3>3 DEF Applied
  <2>5. UNCHANGED presented
    OBVIOUS
  <2> HIDE DEF Commit
  <2> QED
    BY <2>2, <2>3, <2>4, <2>5 DEF SerialInv
<1>6. CASE BreakDeadlock(r)
  BY <1>1, <1>6, LeaveSerialInv DEF BreakDeadlock
<1> QED
  BY <1>2, <1>3, <1>4, <1>5, <1>6 DEF Advance, ReadUser, Revoke, BeginCleanup,
     CleanupRow, EndCleanup, Insert

LEMMA NextSerialInv ==
  ASSUME Serialised, ~RespondBeforeCommit, LockInv, LoginInv, SerialInv, [Next]_vars
  PROVE  SerialInv'
<1>1. RotationInv /\ TypeOK
  BY DEF LockInv, RotationInv
<1>2. ASSUME NEW r \in Requests, Fail(r) \/ Abandon(r) PROVE SerialInv'
  BY <1>1, <1>2, LeaveSerialInv DEF Fail, Abandon
<1>3. CASE Staff
  <2>1. UNCHANGED <<pc, presented, answer, committed>>
    BY <1>3 DEF Staff, SetActive, DeleteUser, DeleteToken, history
  <2>2. \A t \in Tokens : row'[t] = "revoked" => row[t] = "revoked"
    BY <1>1, <1>3 DEF Staff, SetActive, DeleteUser, DeleteToken, TypeOK
  <2> QED
    BY <2>1, <2>2, QuietSerialInv DEF Found
<1>4. CASE Tick \/ UNCHANGED vars
  BY <1>4, QuietSerialInv DEF Tick, vars, tables, history, Found
<1> QED
  BY <1>1, <1>2, <1>3, <1>4, ClientSerialInv, AdvanceSerialInv DEF Next

\* The invariants of serialised clients, together.
ContractInv == LockInv /\ LoginInv /\ SerialInv

LEMMA ContractInvariant ==
  ASSUME Serialised, ~RespondBeforeCommit
  PROVE  Spec => []ContractInv
<1>1. Init => LoginInv
  BY DEF Init, LoginInv
<1>2. Init => SerialInv
  BY DEF Init, SerialInv, Found, Writing, Finishing
<1>3. LockInv /\ LoginInv /\ SerialInv /\ [Next]_vars => SerialInv'
  BY NextSerialInv
<1>4. Spec => []LoginInv
  BY <1>1, NextLoginInv, TypeCorrect, PTL DEF Spec
<1>5. Spec => []SerialInv
  BY <1>2, <1>3, <1>4, RowLocksExclude, PTL DEF Spec
<1> QED
  BY <1>4, <1>5, RowLocksExclude, PTL DEF ContractInv

\* A COMMIT of a refresh spends a token that is live until then.
LEMMA CommitSpendsLive ==
  ASSUME ContractInv, NEW r \in Requests, Commit(r), presented[r] # NoToken
  PROVE  presented[r] \in Tokens /\ row[presented[r]] = "live"
<1>1. r \notin committed /\ pc[r] = "commit" /\ presented[r] \in Tokens
  BY DEF Commit, ContractInv, LockInv, RotationInv, Settled, TypeOK
<1>2. Holds(r, presented[r])
  BY <1>1 DEF Holds, Revoked, Finishing
<1>3. row[presented[r]] # "none"
  BY <1>1, <1>2 DEF ContractInv, LockInv
<1>4. row[presented[r]] # "revoked"
  BY <1>1 DEF ContractInv, SerialInv, Found, Finishing
<1> QED
  BY <1>1, <1>3, <1>4 DEF ContractInv, LockInv, RotationInv, TypeOK

\* No two committed refreshes presented the same token.
SpentOnce ==
  \A q, r \in committed :
    presented[q] = presented[r] /\ presented[q] # NoToken => q = r

LEMMA NextSpentOnce ==
  ASSUME ContractInv, SpentOnce, [Next]_vars
  PROVE  SpentOnce'
<1>1. RotationInv /\ TypeOK
  BY DEF ContractInv, LockInv, RotationInv
<1>2. \A q \in committed : q \in Requests /\ pc[q] # "idle" /\ presented'[q] = presented[q]
  BY <1>1, HistoryStep DEF RotationInv, TypeOK, Settled
<1>3. CASE committed' = committed
  BY <1>2, <1>3 DEF SpentOnce
<1>4. ASSUME NEW r \in Requests, Commit(r) PROVE SpentOnce'
  <2>1. presented' = presented /\ committed' = committed \cup {r}
    BY <1>4 DEF Commit
  <2>2. ASSUME NEW q \in committed, presented[q] = presented[r], presented[q] # NoToken
        PROVE  FALSE
    <3>1. row[presented[r]] = "live"
      BY <1>4, <2>2, CommitSpendsLive
    <3> QED
      BY <1>1, <2>2, <3>1 DEF RotationInv, RotationAtomic
  <2> QED
    BY <2>1, <2>2 DEF SpentOnce
<1>5. committed \subseteq committed'
  BY <1>1, HistoryStep
<1> QED
  BY <1>3, <1>4, <1>5, CommittedStep

\* A refresh token is single-use (docs/api-contract.md) for clients that
\* serialise their refreshes: of all the refreshes that present a token, at
\* most one is ever answered 200.
THEOREM SerialisedSingleUse ==
  ASSUME Serialised, ~RespondBeforeCommit
  PROVE  Spec => []SingleUse
<1>1. Init => SpentOnce
  BY DEF Init, SpentOnce
<1>2. ContractInv /\ SpentOnce /\ [Next]_vars => SpentOnce'
  BY NextSpentOnce
<1>3. ReplayInv /\ SpentOnce => SingleUse
  BY DEF ReplayInv, SpentOnce, SingleUse
<1>4. ReplayInv /\ RotationInv' /\ [Next]_vars => ReplayInv'
  BY NextReplayInv
<1>5. Spec => []ContractInv
  BY ContractInvariant
<1>6. Spec => []SpentOnce
  BY <1>1, <1>2, <1>5, PTL DEF Spec
<1>7. Spec => []ReplayInv
  BY <1>4, InitReplayInv, RotationInvariant, PTL DEF Spec
<1> QED
  BY <1>3, <1>6, <1>7, PTL

------------------------------------------------------------------------------
(* The refinement.                                                         *)

LEMMA InitContract == Init => Contract!Init
<1> SUFFICES ASSUME Init PROVE Contract!Init
  OBVIOUS
<1>1. \A t \in Tokens : t \in Sessions => row[t] = "live"
  BY DEF Init
<1>2. \A t \in Tokens : t \notin Sessions => row[t] = "none" /\ t \notin committed
  BY DEF Init
<1> QED
  BY <1>1, <1>2 DEF Contract!Init, Status

\* A step that deletes rows, or that leaves rows and commits alone.
LEMMA WithdrawStep ==
  ASSUME ContractInv, UNCHANGED committed,
         \A t \in Tokens : row'[t] = row[t] \/ row'[t] = "none"
  PROVE  Contract!Withdraw
<1>1. \A t \in Tokens : row[t] # "none" => t \in Sessions \cup committed
  BY DEF ContractInv, LockInv, RotationInv, Tokens
<1>2. Status' \in [Tokens -> Contract!States]
  BY DEF Status, Contract!States
<1>3. ASSUME NEW t \in Tokens
      PROVE  Status'[t] = Status[t] \/ Contract!Forgotten(t)
  BY <1>1, <1>3 DEF Status, Contract!Forgotten, ContractInv, LockInv, RotationInv, TypeOK
<1> QED
  BY <1>2, <1>3 DEF Contract!Withdraw

\* The COMMIT of a login issues a token.
LEMMA LoginCommitIssues ==
  ASSUME ContractInv, NEW r \in Requests, Commit(r), presented[r] = NoToken
  PROVE  Contract!Issue(r)
<1>1. r \in Tokens /\ r \notin Sessions /\ r \notin committed /\ row[r] = "none"
  BY NamesAssumption
  DEF Commit, ContractInv, LockInv, RotationInv, Settled, Tokens
<1>2. deletes[r] = {} /\ NoToken \notin Tokens
  BY NamesAssumption DEF ContractInv, LoginInv
<1>3. row' = Applied(r) /\ committed' = committed \cup {r}
  BY DEF Commit
<1>4. \A t \in Tokens : row'[t] = IF t = r THEN "live" ELSE row[t]
  BY <1>2, <1>3 DEF Applied
<1>5. Status[r] = "unissued"
  BY <1>1 DEF Status
<1>6. \A t \in Tokens : Status'[t] = IF t = r THEN "valid" ELSE Status[t]
  BY <1>3, <1>4 DEF Status
<1>7. Status' = [Status EXCEPT ![r] = "valid"]
  BY <1>1, <1>6 DEF Status
<1> QED
  BY <1>5, <1>7 DEF Contract!Issue

\* The COMMIT of a refresh spends a token and issues its successor.
LEMMA RefreshCommitRotates ==
  ASSUME ContractInv, NEW r \in Requests, Commit(r), presented[r] # NoToken
  PROVE  Contract!Rotate(presented[r], r)
<1> DEFINE old == presented[r]
<1>1. old \in Tokens /\ row[old] = "live"
  BY CommitSpendsLive
<1>2. r \in Tokens /\ r \notin Sessions /\ r \notin committed /\ row[r] = "none"
  BY NamesAssumption
  DEF Commit, ContractInv, LockInv, RotationInv, Settled, Tokens
<1>3. \A t \in Tokens : row[t] # "none" => t \in Sessions \cup committed
  BY DEF ContractInv, LockInv, RotationInv, Tokens
<1>4. row' = Applied(r) /\ committed' = committed \cup {r}
  BY DEF Commit
<1>5. \A t \in deletes[r] : t \in Tokens /\ row[t] # "none"
  BY DEF ContractInv, LockInv, RotationInv, TypeOK, Holds
<1>6. Status[old] = "valid" /\ Status'[old] \in {"spent", "gone"}
  BY <1>1, <1>2, <1>3, <1>4 DEF Status, Applied
<1>7. Status[r] = "unissued" /\ Status'[r] = "valid"
  BY <1>2, <1>4 DEF Status, Applied
<1>8. ASSUME NEW t \in Tokens \ {old, r}
      PROVE  Status'[t] = Status[t] \/ Contract!Forgotten(t)
  <2>1. CASE t \in deletes[r]
    <3>1. row'[t] = "none" /\ row[t] \in {"live", "revoked"} /\ t \in Sessions \cup committed'
      BY <1>3, <1>4, <1>5, <1>8, <2>1
      DEF Applied, ContractInv, LockInv, RotationInv, TypeOK
    <3> QED
      BY <1>8, <3>1 DEF Status, Contract!Forgotten
  <2>2. CASE t \notin deletes[r]
    <3>1. row'[t] = row[t] /\ (t \in committed' <=> t \in committed)
      BY <1>4, <1>8, <2>2 DEF Applied
    <3> QED
      BY <1>8, <3>1 DEF Status
  <2> QED
    BY <2>1, <2>2
<1>9. Status' \in [Tokens -> Contract!States]
  BY DEF Status, Contract!States
<1> HIDE DEF old
<1>10. Contract!Rotate(old, r)
  BY <1>6, <1>7, <1>8, <1>9 DEF Contract!Rotate
<1> QED
  BY <1>10 DEF old

\* Every step is one of the contract's, or changes nothing a client can tell.
LEMMA NextContract ==
  ASSUME ContractInv, [Next]_vars
  PROVE  [Contract!Next]_Status
<1>1. ASSUME NEW r \in Requests, Commit(r) PROVE Contract!Next
  <2>1. CASE presented[r] = NoToken
    BY <1>1, <2>1, LoginCommitIssues DEF Contract!Next, Tokens
  <2>2. CASE presented[r] # NoToken
    BY <1>1, <2>2, RefreshCommitRotates, CommitSpendsLive DEF Contract!Next, Tokens
  <2> QED
    BY <2>1, <2>2
<1>2. CASE UNCHANGED committed
      /\ \A t \in Tokens : row'[t] = row[t] \/ row'[t] = "none"
  BY <1>2, WithdrawStep DEF Contract!Next
<1>3. CASE UNCHANGED committed /\ UNCHANGED row
  BY <1>2, <1>3
<1>4. ASSUME NEW u \in Users, DeleteUser(u) PROVE Contract!Next
  BY <1>4, WithdrawStep DEF Contract!Next, DeleteUser, history
<1>5. ASSUME NEW t \in Tokens, DeleteToken(t) PROVE Contract!Next
  BY <1>5, WithdrawStep
  DEF Contract!Next, DeleteToken, ContractInv, LockInv, RotationInv, TypeOK
<1>6. UNCHANGED committed \/ \E r \in Requests : Commit(r)
  BY CommittedStep, HistoryStep DEF ContractInv, LockInv, RotationInv
<1> QED
  BY <1>1, <1>3, <1>4, <1>5, <1>6, RowStep

\* For clients that serialise their refreshes, the requests, statements, locks
\* and failures of the code implement the one-step rotation of SingleUseTokens.
THEOREM ContractImplemented ==
  ASSUME Serialised, ~RespondBeforeCommit
  PROVE  Spec => ImplementsContract
<1>1. ContractInv /\ [Next]_vars => [Contract!Next]_Status
  BY NextContract
<1>2. Spec => []ContractInv
  BY ContractInvariant
<1> QED
  BY <1>1, <1>2, InitContract, PTL DEF Spec, ImplementsContract, Contract!Spec
==============================================================================
