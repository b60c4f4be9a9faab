------------------------- MODULE TokenRotationProofs -------------------------
(***************************************************************************)
(* Theorems about TokenRotation, for every set of users, tokens and        *)
(* requests and every value of the clock's bound.                          *)
(***************************************************************************)
EXTENDS TokenRotation, TLAPS

LEMMA InitTypeOK == Init => TypeOK
<1> SUFFICES ASSUME Init PROVE TypeOK
  OBVIOUS
<1> USE DEF Init
<1>1. PICK f \in [Sessions -> Users] :
        owner = [t \in Tokens |-> IF t \in Sessions THEN f[t] ELSE NoUser]
  OBVIOUS
<1>2. owner \in [Tokens -> Users \cup {NoUser}]
  BY <1>1
<1>3. PICK g \in [Sessions -> 1..TTL] :
        exp = [t \in Tokens |-> IF t \in Sessions THEN g[t] ELSE 0]
  OBVIOUS
<1>4. exp \in [Tokens -> Nat]
  BY <1>3, TimeAssumption
<1>5. now \in 0..MaxTime /\ cutoff \in [Requests -> 0..MaxTime]
  BY TimeAssumption
<1> QED
  BY <1>2, <1>4, <1>5 DEF TypeOK

\* Leaving a transaction, with any of the answers, keeps the types.
LEMMA LeaveTypeOK ==
  ASSUME TypeOK, NEW r \in Requests,
         NEW a \in {"none", "ok", "unauthorized", "error"}, Leave(r, a)
  PROVE  TypeOK'
<1>1. 0 \in 0..MaxTime
  BY TimeAssumption
<1> QED
  BY <1>1 DEF TypeOK, Leave, tables, history

\* A step that moves a request on and writes nothing else.
LEMMA GotoTypeOK ==
  ASSUME TypeOK, NEW r \in Requests, NEW label \in InFlight \cup {"idle", "done"},
         Goto(r, label),
         UNCHANGED <<now, tables, owner, exp, presented, cutoff, deletes, answer,
                     history>>
  PROVE  TypeOK'
BY DEF TypeOK, Goto, tables, history

LEMMA ClientTypeOK ==
  ASSUME TypeOK, NEW r \in Requests, Client(r)
  PROVE  TypeOK'
<1>1. ASSUME NEW u \in Users, Login(r, u) PROVE TypeOK'
  BY <1>1 DEF TypeOK, Login, Goto, Tokens, tables, history, InFlight, Writing
<1>2. CASE Refuse(r)
  BY <1>2, LeaveTypeOK DEF Refuse
<1>3. ASSUME NEW t \in Tokens, Present(r, t) PROVE TypeOK'
  BY <1>3 DEF TypeOK, Present, Goto, Tokens, tables, InFlight, Reading
<1> QED
  BY <1>1, <1>2, <1>3 DEF Client

LEMMA AdvanceTypeOK ==
  ASSUME TypeOK, NEW r \in Requests, Advance(r)
  PROVE  TypeOK'
<1> USE DEF InFlight, Reading, Writing, Finishing
<1>1. CASE ReadToken(r)
  BY <1>1, GotoTypeOK, LeaveTypeOK DEF ReadToken
<1>2. CASE ReadUser(r)
  BY <1>2, GotoTypeOK, LeaveTypeOK DEF ReadUser
<1>3. CASE Revoke(r)
  BY <1>3, GotoTypeOK, LeaveTypeOK DEF Revoke
<1>4. CASE BeginCleanup(r)
  BY <1>4 DEF BeginCleanup, TypeOK, Goto, tables, history
<1>5. ASSUME NEW t \in Tokens, CleanupRow(r, t) PROVE TypeOK'
  BY <1>5 DEF CleanupRow, TypeOK, tables, history
<1>6. CASE EndCleanup(r)
  <2>1. CASE EvaluateRaises
    BY <1>6, <2>1, LeaveTypeOK DEF EndCleanup
  <2>2. CASE ~EvaluateRaises
    BY <1>6, <2>2, TimeAssumption DEF EndCleanup, TypeOK, Goto, tables, history
  <2> QED
    BY <2>1, <2>2
<1>7. CASE Insert(r)
  <2>1. CASE users[owner[r]] = "deleted"
    BY <1>7, <2>1, LeaveTypeOK DEF Insert
  <2>2. CASE users[owner[r]] # "deleted"
    <3>1. now + TTL \in Nat
      BY TimeAssumption DEF TypeOK
    <3> QED
      BY <1>7, <2>2, <3>1 DEF Insert, TypeOK, Goto, tables, history
  <2> QED
    BY <2>1, <2>2
<1>8. CASE Respond(r)
  BY <1>8 DEF Respond, TypeOK, Goto, tables, history
<1>9. CASE Commit(r)
  <2>1. Applied(r) \in [Tokens -> {"none", "live", "revoked"}]
    BY DEF Applied, TypeOK
  <2> QED
    BY <1>9, <2>1 DEF Commit, TypeOK, Goto, tables, history
<1>10. CASE BreakDeadlock(r)
  BY <1>10, LeaveTypeOK DEF BreakDeadlock
<1> QED
  BY <1>1, <1>2, <1>3, <1>4, <1>5, <1>6, <1>7, <1>8, <1>9, <1>10 DEF Advance

LEMMA StaffTypeOK == ASSUME TypeOK, Staff PROVE TypeOK'
<1>1. ASSUME NEW u \in Users, NEW s \in {"active", "inactive"}, SetActive(u, s)
      PROVE  TypeOK'
  BY <1>1 DEF SetActive, TypeOK
<1>2. ASSUME NEW u \in Users, DeleteUser(u) PROVE TypeOK'
  BY <1>2 DEF DeleteUser, TypeOK, history
<1>3. ASSUME NEW t \in Tokens, DeleteToken(t) PROVE TypeOK'
  BY <1>3 DEF DeleteToken, TypeOK
<1> QED
  BY <1>1, <1>2, <1>3 DEF Staff

LEMMA NextTypeOK == TypeOK /\ [Next]_vars => TypeOK'
<1> SUFFICES ASSUME TypeOK, [Next]_vars PROVE TypeOK'
  OBVIOUS
<1>1. ASSUME NEW r \in Requests, Fail(r) PROVE TypeOK'
  BY <1>1, LeaveTypeOK DEF Fail, TypeOK
<1>2. ASSUME NEW r \in Requests, Abandon(r) PROVE TypeOK'
  BY <1>2, LeaveTypeOK DEF Abandon, TypeOK
<1>3. CASE Tick
  BY <1>3, TimeAssumption DEF Tick, TypeOK, tables, history
<1>4. CASE UNCHANGED vars
  BY <1>4 DEF vars, TypeOK
<1> QED
  BY <1>1, <1>2, <1>3, <1>4, ClientTypeOK, AdvanceTypeOK, StaffTypeOK DEF Next

\* Every variable keeps its type, whatever requests, staff and clock do.
THEOREM TypeCorrect == Spec => []TypeOK
BY InitTypeOK, NextTypeOK, PTL DEF Spec

------------------------------------------------------------------------------
(* Rotation is atomic, whichever side of the COMMIT the response is on.    *)

\* The requests whose SELECT has found their token, and the committed ones.
PastSelect(r) == pc[r] \in {"user"} \cup Writing \cup Finishing \/ r \in committed

\* Where a committed request can be: done, or about to send its response.
Settled(r) == pc[r] = "done" \/ (pc[r] = "respond" /\ ~RespondBeforeCommit)

\* Why RotationAtomic is inductive: a row of a minted token is there only
\* once its request committed, so a request that found its token presents one
\* whose own commit is over and cannot make it live again.
RotationInv ==
  /\ TypeOK
  /\ \A r \in committed : Settled(r)
  /\ \A r \in Requests : pc[r] = "idle" => presented[r] = NoToken
  /\ \A t \in Requests : row[t] # "none" => t \in committed
  /\ \A r \in Requests :
       PastSelect(r) /\ presented[r] \in Requests => presented[r] \in committed
  /\ RotationAtomic

LEMMA InitRotationInv == Init => RotationInv
<1> SUFFICES ASSUME Init PROVE RotationInv
  OBVIOUS
<1>1. TypeOK
  BY InitTypeOK
<1>2. \A r \in Requests : presented[r] = NoToken
  BY DEF Init
<1>3. \A t \in Requests : row[t] = "none"
  BY NamesAssumption DEF Init, Tokens
<1>4. NoToken \notin Requests
  BY NamesAssumption DEF Tokens
<1>5. RotationAtomic
  BY DEF Init, RotationAtomic, Tokens
<1> QED
  BY <1>1, <1>2, <1>3, <1>4, <1>5 DEF RotationInv, Init

\* A step that leaves the tables alone, commits nothing and sends no token.
LEMMA QuietRotationInv ==
  ASSUME RotationInv, TypeOK',
         UNCHANGED <<row, presented, committed>>,
         \A r \in committed : Settled(r)',
         \A r \in Requests : pc'[r] = "idle" => pc[r] = "idle",
         \A r \in Requests : PastSelect(r)' => PastSelect(r)
  PROVE  RotationInv'
BY DEF RotationInv, RotationAtomic

LEMMA LeaveRotationInv ==
  ASSUME RotationInv, TypeOK', NEW r \in Requests, NEW a, Leave(r, a)
  PROVE  RotationInv'
<1>1. \A q \in committed : Settled(q)'
  BY DEF RotationInv, TypeOK, Leave, Settled
<1>2. \A q \in Requests : PastSelect(q)' => PastSelect(q)
  BY DEF RotationInv, TypeOK, Leave, PastSelect, Writing, Finishing, history
<1>3. \A q \in Requests : pc'[q] = "idle" => pc[q] = "idle"
  BY DEF RotationInv, TypeOK, Leave
<1> QED
  BY <1>1, <1>2, <1>3, QuietRotationInv DEF Leave, tables, history

\* A request that found its token goes on to another statement.
LEMMA GotoRotationInv ==
  ASSUME RotationInv, TypeOK', NEW r \in Requests, NEW label,
         PastSelect(r), label # "idle", r \notin committed \/ label = "done", Goto(r, label),
         UNCHANGED <<row, presented, committed>>
  PROVE  RotationInv'
<1>1. \A q \in committed : Settled(q)'
  BY DEF RotationInv, TypeOK, Goto, Settled
<1>2. \A q \in Requests : PastSelect(q)' => PastSelect(q)
  BY DEF RotationInv, TypeOK, Goto, PastSelect
<1>3. \A q \in Requests : pc'[q] = "idle" => pc[q] = "idle"
  BY DEF RotationInv, TypeOK, Goto
<1> QED
  BY <1>1, <1>2, <1>3, QuietRotationInv

LEMMA CommitRotationInv ==
  ASSUME RotationInv, TypeOK', NEW r \in Requests, Commit(r)
  PROVE  RotationInv'
<1> USE DEF Commit
<1>1. r \notin committed /\ pc[r] = "commit"
  BY DEF RotationInv, Settled
<1>2. PastSelect(r)
  BY <1>1 DEF PastSelect, Finishing
<1>3. \A q \in committed' : Settled(q)'
  BY ModesAssumption DEF RotationInv, TypeOK, Goto, Settled
<1>4. ASSUME NEW t \in Requests, row'[t] # "none" PROVE t \in committed'
  <2>1. CASE t = r
    BY <2>1
  <2>2. CASE t # r /\ t = presented[r]
    BY <1>2, <2>2 DEF RotationInv
  <2>3. CASE t # r /\ t # presented[r]
    BY <1>4, <2>3 DEF RotationInv, TypeOK, Applied, Tokens
  <2> QED
    BY <2>1, <2>2, <2>3
<1>5. ASSUME NEW q \in Requests, PastSelect(q)', presented'[q] \in Requests
      PROVE  presented'[q] \in committed'
  <2>1. PastSelect(q)
    BY <1>2, <1>5 DEF PastSelect, Goto, TypeOK, RotationInv
  <2> QED
    BY <2>1, <1>5 DEF RotationInv
<1>6. ASSUME NEW t \in Tokens, row'[t] = "revoked"
      PROVE  \E q \in committed' : presented'[q] = t
  <2>1. CASE t = presented[r]
    BY <2>1
  <2>2. CASE t # presented[r]
    BY <1>6, <2>2 DEF RotationInv, RotationAtomic, Applied
  <2> QED
    BY <2>1, <2>2
<1>7. ASSUME NEW q \in committed', presented'[q] # NoToken
      PROVE  row'[presented'[q]] # "live"
  <2>1. presented[q] \in Tokens /\ q \in Requests
    BY <1>7 DEF RotationInv, TypeOK
  <2>2. presented[q] # r
    <3>1. PastSelect(q)
      BY <1>2, <1>7 DEF PastSelect
    <3> QED
      BY <3>1, <2>1, <1>1 DEF RotationInv
  <2>3. CASE q = r
    BY <2>1, <2>2, <2>3 DEF Applied
  <2>4. CASE q # r
    <3>1. row[presented[q]] # "live"
      BY <1>7, <2>4 DEF RotationInv, RotationAtomic
    <3> QED
      BY <2>1, <2>2, <3>1 DEF Applied
  <2> QED
    BY <2>3, <2>4
<1>8. \A q \in Requests : pc'[q] = "idle" => presented'[q] = NoToken
  BY DEF RotationInv, TypeOK, Goto
<1> QED
  BY <1>3, <1>4, <1>5, <1>6, <1>7, <1>8 DEF RotationInv, RotationAtomic

LEMMA ClientRotationInv ==
  ASSUME RotationInv, TypeOK', NEW r \in Requests, Client(r)
  PROVE  RotationInv'
<1>1. ASSUME NEW u \in Users, Login(r, u) PROVE RotationInv'
  <2>1. r \notin committed /\ presented[r] = NoToken /\ NoToken \notin Requests
    BY <1>1, NamesAssumption DEF Login, RotationInv, Tokens, Settled
  <2>2. \A q \in committed : Settled(q)'
    BY <1>1, <2>1 DEF Login, Goto, RotationInv, TypeOK, Settled
  <2>3. RotationAtomic'
    BY <1>1 DEF Login, RotationInv, RotationAtomic, tables, history
  <2>4. \A q \in Requests : PastSelect(q)' => PastSelect(q) \/ q = r
    BY <1>1 DEF Login, Goto, PastSelect, RotationInv, TypeOK, history
  <2>5. \A q \in Requests : pc'[q] = "idle" => pc[q] = "idle"
    BY <1>1 DEF Login, Goto, RotationInv, TypeOK
  <2> QED
    BY <1>1, <2>1, <2>2, <2>3, <2>4, <2>5 DEF Login, RotationInv, tables, history
<1>2. CASE Refuse(r)
  BY <1>2, LeaveRotationInv DEF Refuse
<1>3. ASSUME NEW t \in Tokens, Present(r, t) PROVE RotationInv'
  <2>1. r \notin committed
    BY <1>3 DEF Present, RotationInv, Settled
  <2>2. \A q \in committed : Settled(q)' /\ presented'[q] = presented[q]
    BY <1>3, <2>1 DEF Present, Goto, RotationInv, TypeOK, Settled
  <2>3. \A q \in Requests : PastSelect(q)' => PastSelect(q) /\ presented'[q] = presented[q]
    BY <1>3, <2>1 DEF Present, Goto, PastSelect, Writing, Finishing, RotationInv, TypeOK
  <2>4. RotationAtomic'
    <3>1. \A q \in committed : presented'[q] = presented[q]
      BY <2>2
    <3> QED
      BY <1>3, <3>1 DEF Present, RotationInv, RotationAtomic, tables
  <2>5. \A q \in Requests : pc'[q] = "idle" => pc[q] = "idle" /\ q # r
    BY <1>3 DEF Present, Goto, RotationInv, TypeOK
  <2>6. \A q \in Requests \ {r} : presented'[q] = presented[q]
    BY <1>3 DEF Present, RotationInv, TypeOK
  <2> QED
    BY <1>3, <2>2, <2>3, <2>4, <2>5, <2>6 DEF Present, RotationInv, tables
<1> QED
  BY <1>1, <1>2, <1>3 DEF Client

LEMMA AdvanceRotationInv ==
  ASSUME RotationInv, TypeOK', NEW r \in Requests, Advance(r)
  PROVE  RotationInv'
<1> USE DEF Writing, Finishing, tables, history
<1>1. CASE ReadToken(r)
  <2>1. CASE Leave(r, "unauthorized")
    BY <2>1, LeaveRotationInv
  <2>2. CASE Goto(r, "user") /\ row[presented[r]] = "live"
             /\ UNCHANGED <<row, presented, committed>>
    <3>1. presented[r] \in Requests => presented[r] \in committed
      BY <2>2 DEF RotationInv
    <3>2. \A q \in committed : q # r /\ Settled(q)'
      BY <1>1, <2>2 DEF ReadToken, RotationInv, TypeOK, Goto, Settled
    <3>3. \A q \in Requests : PastSelect(q)' => PastSelect(q) \/ q = r
      BY <2>2 DEF PastSelect, Goto, RotationInv, TypeOK
    <3>4. \A q \in Requests : pc'[q] = "idle" => pc[q] = "idle"
      BY <2>2 DEF Goto, RotationInv, TypeOK
    <3> QED
      BY <2>2, <3>1, <3>2, <3>3, <3>4 DEF RotationInv, RotationAtomic
  <2> QED
    BY <1>1, <2>1, <2>2 DEF ReadToken
<1>2. CASE ReadUser(r)
  <2>1. PastSelect(r) /\ r \notin committed
    BY <1>2 DEF ReadUser, PastSelect, RotationInv, Settled
  <2> QED
    BY <1>2, <2>1, LeaveRotationInv, GotoRotationInv DEF ReadUser
<1>3. CASE Revoke(r)
  <2>1. PastSelect(r) /\ r \notin committed
    BY <1>3 DEF Revoke, PastSelect, RotationInv, Settled
  <2> QED
    BY <1>3, <2>1, LeaveRotationInv, GotoRotationInv DEF Revoke
<1>4. CASE BeginCleanup(r)
  <2>1. PastSelect(r) /\ r \notin committed
    BY <1>4 DEF BeginCleanup, PastSelect, RotationInv, Settled
  <2> QED
    BY <1>4, <2>1, GotoRotationInv DEF BeginCleanup
<1>5. ASSUME NEW t \in Tokens, CleanupRow(r, t) PROVE RotationInv'
  BY <1>5, QuietRotationInv DEF CleanupRow, PastSelect, RotationInv, Settled
<1>6. CASE EndCleanup(r)
  <2>1. PastSelect(r) /\ r \notin committed
    BY <1>6 DEF EndCleanup, PastSelect, RotationInv, Settled
  <2> QED
    BY <1>6, <2>1, LeaveRotationInv, GotoRotationInv DEF EndCleanup
<1>7. CASE Insert(r)
  <2>1. PastSelect(r) /\ r \notin committed
    BY <1>7 DEF Insert, PastSelect, RotationInv, Settled
  <2> QED
    BY <1>7, <2>1, LeaveRotationInv, GotoRotationInv DEF Insert
<1>8. CASE Respond(r)
  <2>1. PastSelect(r) /\ (r \in committed => ~RespondBeforeCommit)
    BY <1>8 DEF Respond, PastSelect, RotationInv, Settled
  <2> QED
    BY <1>8, <2>1, GotoRotationInv DEF Respond
<1>9. CASE Commit(r)
  BY <1>9, CommitRotationInv
<1>10. CASE BreakDeadlock(r)
  BY <1>10, LeaveRotationInv DEF BreakDeadlock
<1> QED
  BY <1>1, <1>2, <1>3, <1>4, <1>5, <1>6, <1>7, <1>8, <1>9, <1>10 DEF Advance

\* Staff only take rows away.
LEMMA StaffRotationInv ==
  ASSUME RotationInv, TypeOK', Staff
  PROVE  RotationInv'
<1>1. /\ UNCHANGED <<pc, presented, committed>>
      /\ \A t \in Tokens : row'[t] = row[t] \/ row'[t] = "none"
  <2>1. ASSUME NEW u \in Users, NEW s \in {"active", "inactive"}, SetActive(u, s)
        PROVE  <1>1
    BY <2>1 DEF SetActive
  <2>2. ASSUME NEW u \in Users, DeleteUser(u) PROVE <1>1
    BY <2>2 DEF DeleteUser, history
  <2>3. ASSUME NEW t \in Tokens, DeleteToken(t) PROVE <1>1
    BY <2>3 DEF DeleteToken, RotationInv, TypeOK
  <2> QED
    BY <2>1, <2>2, <2>3 DEF Staff
<1>2. RotationAtomic'
  BY <1>1 DEF RotationInv, RotationAtomic, TypeOK
<1> QED
  BY <1>1, <1>2 DEF RotationInv, PastSelect, Settled, Tokens

LEMMA NextRotationInv == RotationInv /\ TypeOK' /\ [Next]_vars => RotationInv'
<1> SUFFICES ASSUME RotationInv, TypeOK', [Next]_vars PROVE RotationInv'
  OBVIOUS
<1>1. ASSUME NEW r \in Requests, Fail(r) PROVE RotationInv'
  BY <1>1, LeaveRotationInv DEF Fail
<1>2. ASSUME NEW r \in Requests, Abandon(r) PROVE RotationInv'
  BY <1>2, LeaveRotationInv DEF Abandon
<1>3. CASE Tick
  BY <1>3, QuietRotationInv
  DEF Tick, tables, history, RotationInv, PastSelect, Settled
<1>4. CASE UNCHANGED vars
  BY <1>4, QuietRotationInv
  DEF vars, tables, history, RotationInv, PastSelect, Settled
<1> QED
  BY <1>1, <1>2, <1>3, <1>4, ClientRotationInv, AdvanceRotationInv,
     StaffRotationInv DEF Next

THEOREM RotationInvariant == Spec => []RotationInv
BY InitRotationInv, NextRotationInv, TypeCorrect, PTL DEF Spec

\* A revoked row always has its committed successor, and a committed refresh
\* leaves no usable row behind: for any number of concurrent refreshes, on
\* either side of the COMMIT, whatever fails.
THEOREM AtomicRotation == Spec => []RotationAtomic
<1>1. RotationInv => RotationAtomic
  BY DEF RotationInv
<1> QED
  BY <1>1, RotationInvariant, PTL

------------------------------------------------------------------------------
(* A replay is rejected, when the response follows the COMMIT.             *)

\* A row becomes live only with the commit of the request that minted it.
LEMMA LiveRowIsNew ==
  ASSUME RotationInv, [Next]_vars, NEW t \in Tokens,
         row[t] # "live", row'[t] = "live"
  PROVE  t \in Requests /\ t \notin committed
<1>1. ASSUME NEW r \in Requests, Commit(r) PROVE t = r /\ r \notin committed
  BY <1>1 DEF Commit, Applied, RotationInv, Settled
<1>2. CASE Staff
  BY <1>2 DEF Staff, SetActive, DeleteUser, DeleteToken, RotationInv, TypeOK
<1>3. CASE UNCHANGED row
  BY <1>3
<1>4. ASSUME NEW r \in Requests, Client(r) \/ Fail(r) \/ Abandon(r)
      PROVE  UNCHANGED row
  BY <1>4 DEF Client, Login, Refuse, Present, Fail, Abandon, Leave, tables
<1>5. ASSUME NEW r \in Requests, Advance(r), ~Commit(r) PROVE UNCHANGED row
  BY <1>5 DEF Advance, ReadToken, ReadUser, Revoke, BeginCleanup, CleanupRow,
     EndCleanup, Insert, Respond, BreakDeadlock, Leave, tables
<1> QED
  BY <1>1, <1>2, <1>3, <1>4, <1>5 DEF Next, Tick, vars, tables

\* A refresh whose token is spent for good and that has not found it.
Doomed(r) ==
  /\ pc[r] \in {"select", "done"}
  /\ r \notin committed
  /\ presented[r] \in Tokens
  /\ presented[r] \in Requests => presented[r] \in committed
  /\ row[presented[r]] # "live"

\* Why ReplayRejected is inductive: a 200 is only sent once the rotation is
\* committed, so a replay finds its token spent, and it stays spent.
ReplayInv ==
  /\ RotationInv
  /\ \A r \in Requests : answer[r] = "ok" \/ pc[r] = "respond" => r \in committed
  /\ \A r \in replays : Doomed(r)

LEMMA InitReplayInv == Init => ReplayInv
BY InitRotationInv DEF Init, ReplayInv

\* No step of another request, of staff or of the clock saves a doomed one.
LEMMA StaysDoomed ==
  ASSUME RotationInv, [Next]_vars, NEW q \in Requests, Doomed(q),
         pc'[q] \in {"select", "done"},
         presented'[q] = presented[q],
         q \in committed' => q \in committed,
         committed \subseteq committed'
  PROVE  Doomed(q)'
BY LiveRowIsNew DEF Doomed

LEMMA LeaveReplayInv ==
  ASSUME ReplayInv, RotationInv', [Next]_vars, NEW r \in Requests,
         NEW a \in {"none", "ok", "unauthorized", "error"},
         a = "ok" => r \in committed,
         Leave(r, a)
  PROVE  ReplayInv'
<1> USE DEF Leave, history, RotationInv, TypeOK
<1>1. ASSUME NEW q \in replays PROVE Doomed(q)'
  BY <1>1, StaysDoomed DEF ReplayInv, Doomed
<1>2. ASSUME NEW q \in Requests, answer'[q] = "ok" \/ pc'[q] = "respond"
      PROVE  q \in committed'
  BY <1>2 DEF ReplayInv
<1> QED
  BY <1>1, <1>2 DEF ReplayInv

\* A request that is not doomed goes on to a statement other than Respond.
LEMMA GotoReplayInv ==
  ASSUME ReplayInv, RotationInv', [Next]_vars, NEW r \in Requests, NEW label,
         Goto(r, label), label # "respond", ~Doomed(r),
         UNCHANGED <<presented, answer, committed, replays>>
  PROVE  ReplayInv'
<1> USE DEF Goto, RotationInv, TypeOK
<1>1. ASSUME NEW q \in replays PROVE Doomed(q)'
  BY <1>1, StaysDoomed DEF ReplayInv, Doomed
<1>2. ASSUME NEW q \in Requests, answer'[q] = "ok" \/ pc'[q] = "respond"
      PROVE  q \in committed'
  BY <1>2 DEF ReplayInv
<1> QED
  BY <1>1, <1>2 DEF ReplayInv

\* A step that moves no request.
LEMMA StillReplayInv ==
  ASSUME ReplayInv, RotationInv', [Next]_vars,
         UNCHANGED <<pc, presented, answer, committed, replays>>
  PROVE  ReplayInv'
<1>1. ASSUME NEW q \in replays PROVE Doomed(q)'
  BY <1>1, StaysDoomed DEF ReplayInv, Doomed, RotationInv, TypeOK
<1> QED
  BY <1>1 DEF ReplayInv

LEMMA ClientReplayInv ==
  ASSUME ReplayInv, RotationInv', [Next]_vars, NEW r \in Requests, Client(r)
  PROVE  ReplayInv'
<1>1. ASSUME NEW u \in Users, Login(r, u) PROVE ReplayInv'
  BY <1>1, GotoReplayInv DEF Login, Doomed, history
<1>2. CASE Refuse(r)
  BY <1>2, LeaveReplayInv DEF Refuse
<1>3. ASSUME NEW t \in Tokens, Present(r, t) PROVE ReplayInv'
  <2> USE <1>3 DEF Present, Goto, tables
  <2>1. r \notin committed /\ ~Doomed(r)
    BY DEF ReplayInv, RotationInv, Settled, Doomed
  <2>2. ASSUME NEW q \in replays PROVE Doomed(q)'
    BY <2>1, <2>2, StaysDoomed DEF ReplayInv, RotationInv, TypeOK, Doomed
  <2>3. ASSUME r \in replays', r \notin replays PROVE Doomed(r)'
    <3>1. PICK q \in Requests : presented[q] = t /\ answer[q] = "ok"
      BY <2>3
    <3>2. q \in committed /\ PastSelect(q)
      BY <3>1 DEF ReplayInv, PastSelect
    <3>3. row[t] # "live" /\ (t \in Requests => t \in committed)
      BY <3>1, <3>2, NamesAssumption DEF ReplayInv, RotationInv, RotationAtomic
    <3> QED
      BY <2>1, <3>3 DEF Doomed, ReplayInv, RotationInv, TypeOK
  <2>4. ASSUME NEW q \in Requests, answer'[q] = "ok" \/ pc'[q] = "respond"
        PROVE  q \in committed'
    BY <2>4 DEF ReplayInv, RotationInv, TypeOK
  <2>5. replays' \subseteq replays \cup {r}
    OBVIOUS
  <2> QED
    BY <2>2, <2>3, <2>4, <2>5 DEF ReplayInv
<1> QED
  BY <1>1, <1>2, <1>3 DEF Client

LEMMA AdvanceReplayInv ==
  ASSUME ~RespondBeforeCommit,
         ReplayInv, RotationInv', [Next]_vars, NEW r \in Requests, Advance(r)
  PROVE  ReplayInv'
<1> USE DEF history
<1>1. CASE ReadToken(r)
  <2>1. CASE Doomed(r)
    BY <1>1, <2>1, LeaveReplayInv DEF ReadToken, Doomed
  <2>2. CASE ~Doomed(r)
    BY <1>1, <2>2, LeaveReplayInv, GotoReplayInv DEF ReadToken
  <2> QED
    BY <2>1, <2>2
<1>2. CASE ReadUser(r)
  BY <1>2, LeaveReplayInv, GotoReplayInv DEF ReadUser, Doomed
<1>3. CASE Revoke(r)
  BY <1>3, LeaveReplayInv, GotoReplayInv DEF Revoke, Doomed
<1>4. CASE BeginCleanup(r)
  BY <1>4, GotoReplayInv DEF BeginCleanup, Doomed
<1>5. ASSUME NEW t \in Tokens, CleanupRow(r, t) PROVE ReplayInv'
  BY <1>5, StillReplayInv DEF CleanupRow
<1>6. CASE EndCleanup(r)
  BY <1>6, LeaveReplayInv, GotoReplayInv DEF EndCleanup, Doomed
<1>7. CASE Insert(r)
  BY <1>7, LeaveReplayInv, GotoReplayInv DEF Insert, Doomed
<1>8. CASE Respond(r)
  <2>1. r \in committed
    BY <1>8 DEF Respond, ReplayInv
  <2>2. ASSUME NEW q \in replays PROVE Doomed(q)'
    BY <1>8, <2>1, <2>2, StaysDoomed
    DEF Respond, Goto, ReplayInv, Doomed, RotationInv, TypeOK
  <2>3. ASSUME NEW q \in Requests, answer'[q] = "ok" \/ pc'[q] = "respond"
        PROVE  q \in committed'
    BY <1>8, <2>1, <2>3 DEF Respond, Goto, ReplayInv, RotationInv, TypeOK
  <2> QED
    BY <1>8, <2>2, <2>3 DEF Respond, ReplayInv
<1>9. CASE Commit(r)
  <2> USE <1>9 DEF Commit, Goto
  <2>1. ASSUME NEW q \in replays PROVE Doomed(q)'
    BY <2>1, StaysDoomed DEF ReplayInv, Doomed, RotationInv, TypeOK
  <2>2. ASSUME NEW q \in Requests, answer'[q] = "ok" \/ pc'[q] = "respond"
        PROVE  q \in committed'
    BY <2>2 DEF ReplayInv, RotationInv, TypeOK
  <2> QED
    BY <2>1, <2>2 DEF ReplayInv
<1>10. CASE BreakDeadlock(r)
  BY <1>10, LeaveReplayInv DEF BreakDeadlock
<1> QED
  BY <1>1, <1>2, <1>3, <1>4, <1>5, <1>6, <1>7, <1>8, <1>9, <1>10 DEF Advance

LEMMA NextReplayInv ==
  ASSUME ~RespondBeforeCommit, ReplayInv, RotationInv', [Next]_vars
  PROVE  ReplayInv'
<1>1. ASSUME NEW r \in Requests, Fail(r) \/ Abandon(r) PROVE ReplayInv'
  <2>1. answer[r] \in {"none", "ok", "unauthorized", "error"}
    BY DEF ReplayInv, RotationInv, TypeOK
  <2>2. answer[r] = "ok" => r \in committed
    BY DEF ReplayInv
  <2> QED
    BY <1>1, <2>1, <2>2, LeaveReplayInv DEF Fail, Abandon
<1>2. CASE Staff \/ Tick \/ UNCHANGED vars
  BY <1>2, StillReplayInv
  DEF Staff, SetActive, DeleteUser, DeleteToken, Tick, vars, history
<1> QED
  BY <1>1, <1>2, ClientReplayInv, AdvanceReplayInv DEF Next

\* With the response after the COMMIT, a refresh sent after a 200 for the same
\* token never gets a pair, whatever else is under way.
THEOREM ReplayIsRejected ==
  ASSUME ~RespondBeforeCommit
  PROVE  Spec => []ReplayRejected
<1>1. ReplayInv => ReplayRejected
  BY DEF ReplayInv, ReplayRejected, Doomed, RotationInv, TypeOK
<1>2. ReplayInv /\ RotationInv' /\ [Next]_vars => ReplayInv'
  BY NextReplayInv
<1> QED
  BY <1>1, <1>2, InitReplayInv, RotationInvariant, PTL DEF Spec
==============================================================================
