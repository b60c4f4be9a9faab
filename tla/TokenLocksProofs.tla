--------------------------- MODULE TokenLocksProofs ---------------------------
(***************************************************************************)
(* Theorems about the row locks of TokenRotation and about the tables the  *)
(* locks protect, for every set of users, tokens and requests: no row is   *)
(* written by two transactions at once, no token comes back, outlives its  *)
(* account or is taken from a client that has not spent it, and no account *)
(* that is not available gets a pair.                                      *)
(***************************************************************************)
EXTENDS TokenRotationProofs

(* Which side of the COMMIT the response is on.                            *)

\* With the response after the COMMIT, a request about to send it is committed.
RespondInv == \A r \in Requests : pc[r] = "respond" => RespondBeforeCommit \/ r \in committed

\* Only the INSERT and the COMMIT lead to the response.
LEMMA NextRespondInv == TypeOK /\ RespondInv /\ [Next]_vars => RespondInv'
<1> SUFFICES ASSUME TypeOK, RespondInv, [Next]_vars PROVE RespondInv'
  OBVIOUS
<1> USE DEF RespondInv, TypeOK, tables, history
<1>1. ASSUME NEW r \in Requests, NEW a, Leave(r, a) PROVE RespondInv'
  BY <1>1 DEF Leave
<1>2. ASSUME NEW r \in Requests, NEW label, Goto(r, label), UNCHANGED committed,
             label = "respond" => RespondBeforeCommit \/ r \in committed
      PROVE  RespondInv'
  BY <1>2 DEF Goto
<1>3. ASSUME NEW r \in Requests, Client(r) PROVE RespondInv'
  BY <1>1, <1>2, <1>3 DEF Client, Login, Refuse, Present
<1>4. ASSUME NEW r \in Requests, Commit(r) PROVE RespondInv'
  BY <1>4 DEF Commit, Goto
<1>5. ASSUME NEW r \in Requests, Insert(r) PROVE RespondInv'
  BY <1>1, <1>2, <1>5 DEF Insert
<1>6. ASSUME NEW r \in Requests, Advance(r), ~Commit(r), ~Insert(r) PROVE RespondInv'
  <2>1. ASSUME NEW t \in Tokens, CleanupRow(r, t) PROVE RespondInv'
    BY <2>1 DEF CleanupRow
  <2> QED
    BY <1>1, <1>2, <1>6, <2>1 DEF Advance, ReadToken, ReadUser, Revoke,
       BeginCleanup, EndCleanup, Respond, BreakDeadlock
<1>7. ASSUME NEW r \in Requests, Fail(r) \/ Abandon(r) PROVE RespondInv'
  BY <1>1, <1>7 DEF Fail, Abandon
<1>8. CASE Staff \/ Tick \/ UNCHANGED vars
  BY <1>8 DEF Staff, SetActive, DeleteUser, DeleteToken, Tick, vars
<1> QED
  BY <1>3, <1>4, <1>5, <1>6, <1>7, <1>8 DEF Next

------------------------------------------------------------------------------
(* Row locks exclude each other.                                           *)

\* The statements between which a transaction keeps what its cleanup deleted.
KeepsDeletes == {"cleaning", "insert"} \cup Finishing

\* One transaction at a time has a row, the row is there while it has it, and
\* what a cleanup deleted belongs to a transaction that is still open.
LockInv ==
  /\ RotationInv
  /\ RespondInv
  /\ \A q, r \in Requests, t \in Tokens : Holds(q, t) /\ Holds(r, t) => q = r
  /\ \A r \in Requests, t \in Tokens : Holds(r, t) => row[t] # "none"
  /\ \A r \in Requests : deletes[r] # {} => pc[r] \in KeepsDeletes /\ r \notin committed

LEMMA InitLockInv == Init => LockInv
<1> SUFFICES ASSUME Init PROVE LockInv
  OBVIOUS
<1>1. \A r \in Requests, t \in Tokens : ~Holds(r, t)
  BY DEF Init, Holds, Revoked
<1> QED
  BY <1>1, InitRotationInv DEF Init, LockInv, RespondInv

\* A step in which nobody takes a lock and no locked row goes.
LEMMA QuietLockInv ==
  ASSUME LockInv, RotationInv', RespondInv',
         \A q \in Requests, x \in Tokens :
           Holds(q, x)' => Holds(q, x) /\ row'[x] # "none",
         \A q \in Requests :
           deletes'[q] # {} => pc'[q] \in KeepsDeletes /\ q \notin committed'
  PROVE  LockInv'
BY DEF LockInv

\* A step in which request r takes the lock of a row nobody else has.
LEMMA LockLockInv ==
  ASSUME LockInv, RotationInv', RespondInv', NEW r \in Requests, NEW t \in Tokens,
         ~LockedAgainst(r, t), row[t] # "none", UNCHANGED row,
         \A q \in Requests, x \in Tokens :
           Holds(q, x)' => Holds(q, x) \/ (q = r /\ x = t),
         \A q \in Requests :
           deletes'[q] # {} => pc'[q] \in KeepsDeletes /\ q \notin committed'
  PROVE  LockInv'
<1>1. \A q \in Requests \ {r} : ~Holds(q, t)
  BY DEF LockedAgainst
<1>2. \A p, q \in Requests, x \in Tokens : Holds(p, x)' /\ Holds(q, x)' => p = q
  BY <1>1 DEF LockInv
<1>3. \A q \in Requests, x \in Tokens : Holds(q, x)' => row'[x] # "none"
  BY DEF LockInv
<1> QED
  BY <1>2, <1>3 DEF LockInv

\* Leaving a transaction, whatever the answer, gives up its locks.
LEMMA LeaveLockInv ==
  ASSUME LockInv, RotationInv', RespondInv', NEW r \in Requests, NEW a, Leave(r, a)
  PROVE  LockInv'
<1> USE DEF Leave, tables, history, RotationInv, TypeOK
<1>1. \A q \in Requests, x \in Tokens : Holds(q, x)' => Holds(q, x)
  BY DEF LockInv, Holds, Revoked, Finishing
<1>2. \A q \in Requests, x \in Tokens : Holds(q, x)' => row'[x] # "none"
  BY <1>1 DEF LockInv
<1>3. \A q \in Requests :
        deletes'[q] # {} => pc'[q] \in KeepsDeletes /\ q \notin committed'
  BY DEF LockInv
<1> QED
  BY <1>1, <1>2, <1>3, QuietLockInv

\* A request moves to another statement: a lock is held after it only if it
\* was before.
LEMMA GotoLockInv ==
  ASSUME LockInv, RotationInv', RespondInv', NEW r \in Requests, NEW label, Goto(r, label),
         UNCHANGED <<row, presented, deletes, committed>>,
         Revoked(r)' => Revoked(r),
         pc[r] \in KeepsDeletes => label \in KeepsDeletes \/ deletes[r] = {}
  PROVE  LockInv'
<1> USE DEF Goto, RotationInv, TypeOK
<1>1. \A q \in Requests : Revoked(q)' => Revoked(q)
  BY DEF Revoked
<1>2. \A q \in Requests, x \in Tokens : Holds(q, x)' => Holds(q, x)
  BY <1>1 DEF Holds
<1>3. \A q \in Requests, x \in Tokens : Holds(q, x)' => row'[x] # "none"
  BY <1>2 DEF LockInv
<1>4. \A q \in Requests :
        deletes'[q] # {} => pc'[q] \in KeepsDeletes /\ q \notin committed'
  BY DEF LockInv
<1> QED
  BY <1>2, <1>3, <1>4, QuietLockInv

\* A step that moves no request and keeps every locked row.
LEMMA StillLockInv ==
  ASSUME LockInv, RotationInv', RespondInv',
         UNCHANGED <<pc, presented, deletes, committed>>,
         \A q \in Requests, x \in Tokens : Holds(q, x) => row'[x] = row[x]
  PROVE  LockInv'
<1>1. \A q \in Requests, x \in Tokens : Holds(q, x)' => Holds(q, x)
  BY DEF Holds, Revoked
<1>2. \A q \in Requests, x \in Tokens : Holds(q, x)' => row'[x] # "none"
  BY <1>1 DEF LockInv
<1> QED
  BY <1>1, <1>2, QuietLockInv DEF LockInv

LEMMA ClientLockInv ==
  ASSUME LockInv, RotationInv', RespondInv', NEW r \in Requests, Client(r)
  PROVE  LockInv'
<1>1. ASSUME NEW u \in Users, Login(r, u) PROVE LockInv'
  <2>1. presented[r] = NoToken /\ deletes[r] = {}
    BY <1>1 DEF Login, LockInv, RotationInv, KeepsDeletes, Finishing
  <2>2. ~Revoked(r)'
    BY <1>1, <2>1 DEF Login, Revoked
  <2> QED
    BY <1>1, <2>1, <2>2, GotoLockInv DEF Login, tables, history
<1>2. CASE Refuse(r)
  BY <1>2, LeaveLockInv DEF Refuse
<1>3. ASSUME NEW t \in Tokens, Present(r, t) PROVE LockInv'
  <2> USE <1>3 DEF Present, Goto, tables, RotationInv, TypeOK
  <2>1. \A q \in Requests : Revoked(q)' => Revoked(q) /\ presented'[q] = presented[q]
    BY DEF Revoked, Finishing
  <2>2. \A q \in Requests, x \in Tokens : Holds(q, x)' => Holds(q, x)
    BY <2>1 DEF Holds
  <2>3. \A q \in Requests, x \in Tokens : Holds(q, x)' => row'[x] # "none"
    BY <2>2 DEF LockInv
  <2>4. deletes[r] = {}
    BY DEF LockInv, KeepsDeletes, Finishing
  <2>5. \A q \in Requests :
          deletes'[q] # {} => pc'[q] \in KeepsDeletes /\ q \notin committed'
    BY <2>4 DEF LockInv
  <2> QED
    BY <2>2, <2>3, <2>5, QuietLockInv
<1> QED
  BY <1>1, <1>2, <1>3 DEF Client

\* The COMMIT gives up the locks, on rows that nobody else has.
LEMMA CommitLockInv ==
  ASSUME LockInv, RotationInv', RespondInv', NEW r \in Requests, Commit(r)
  PROVE  LockInv'
<1> USE DEF Commit, Goto, RotationInv, TypeOK
<1>1. \A q \in Requests, x \in Tokens : Holds(q, x)' => Holds(q, x) /\ q # r
  BY DEF Holds, Revoked, Finishing
<1>2. \A x \in deletes[r] : Holds(r, x)
  BY DEF Holds
<1>3. ASSUME NEW q \in Requests, NEW x \in Tokens, Holds(q, x)' PROVE row'[x] # "none"
  <2>1. Holds(q, x) /\ q # r /\ row[x] # "none"
    BY <1>1, <1>3 DEF LockInv
  <2>2. x \notin deletes[r]
    BY <1>2, <2>1 DEF LockInv
  <2> QED
    BY <2>1, <2>2 DEF Applied
<1>4. \A q \in Requests :
        deletes'[q] # {} => pc'[q] \in KeepsDeletes /\ q \notin committed'
  BY DEF LockInv
<1> QED
  BY <1>1, <1>3, <1>4, QuietLockInv

LEMMA AdvanceLockInv ==
  ASSUME LockInv, RotationInv', RespondInv', NEW r \in Requests, Advance(r)
  PROVE  LockInv'
<1> USE DEF tables, history, KeepsDeletes, Finishing
<1>1. CASE ReadToken(r)
  <2>1. CASE Leave(r, "unauthorized")
    BY <2>1, LeaveLockInv
  <2>2. CASE Goto(r, "user") /\ UNCHANGED <<row, presented, deletes, committed>>
    <3>1. ~Revoked(r)'
      BY <2>2 DEF Revoked, Goto, LockInv, RotationInv, TypeOK
    <3> QED
      BY <1>1, <2>2, <3>1, GotoLockInv DEF ReadToken
  <2> QED
    BY <1>1, <2>1, <2>2 DEF ReadToken
<1>2. CASE ReadUser(r)
  <2>1. CASE Leave(r, "unauthorized")
    BY <2>1, LeaveLockInv
  <2>2. CASE Goto(r, "revoke") /\ UNCHANGED <<row, presented, deletes, committed>>
    <3>1. ~Revoked(r)'
      BY <2>2 DEF Revoked, Goto, LockInv, RotationInv, TypeOK
    <3> QED
      BY <1>2, <2>2, <3>1, GotoLockInv DEF ReadUser
  <2> QED
    BY <1>2, <2>1, <2>2 DEF ReadUser
<1>3. CASE Revoke(r)
  <2>1. CASE Leave(r, "error")
    BY <2>1, LeaveLockInv
  <2>2. CASE /\ Goto(r, "cleanup") /\ row[presented[r]] # "none"
             /\ UNCHANGED <<row, presented, deletes, committed>>
    <3> USE <2>2 DEF Goto, RotationInv, TypeOK
    <3>1. ~LockedAgainst(r, presented[r]) /\ pc[r] = "revoke"
      BY <1>3 DEF Revoke
    <3>2. CASE presented[r] = NoToken
      <4>1. ~Revoked(r)'
        BY <3>2 DEF Revoked
      <4> QED
        BY <3>1, <4>1, GotoLockInv
    <3>3. CASE presented[r] \in Tokens
      <4>1. \A q \in Requests \ {r} : Revoked(q)' => Revoked(q)
        BY DEF Revoked
      <4>2. \A q \in Requests, x \in Tokens :
              Holds(q, x)' => Holds(q, x) \/ (q = r /\ x = presented[r])
        BY <4>1 DEF Holds
      <4>3. \A q \in Requests :
              deletes'[q] # {} => pc'[q] \in KeepsDeletes /\ q \notin committed'
        BY <3>1 DEF LockInv
      <4> QED
        BY <3>1, <3>3, <4>2, <4>3, LockLockInv
    <3> QED
      BY <3>2, <3>3 DEF LockInv
  <2> QED
    BY <1>3, <2>1, <2>2 DEF Revoke
<1>4. CASE BeginCleanup(r)
  <2>1. Revoked(r)' => Revoked(r)
    BY <1>4 DEF BeginCleanup, Revoked
  <2> QED
    BY <1>4, <2>1, GotoLockInv DEF BeginCleanup
<1>5. ASSUME NEW t \in Tokens, CleanupRow(r, t) PROVE LockInv'
  <2> USE <1>5 DEF CleanupRow, RotationInv, TypeOK
  <2>1. ~LockedAgainst(r, t) /\ row[t] # "none" /\ UNCHANGED row
    BY DEF Expired
  <2>2. \A q \in Requests, x \in Tokens :
          Holds(q, x)' => Holds(q, x) \/ (q = r /\ x = t)
    BY DEF Holds, Revoked, LockInv
  <2>3. r \notin committed
    BY DEF LockInv, Settled
  <2>4. \A q \in Requests :
          deletes'[q] # {} => pc'[q] \in KeepsDeletes /\ q \notin committed'
    BY <2>3 DEF LockInv
  <2> HIDE DEF CleanupRow, RotationInv, TypeOK
  <2> QED
    BY <2>1, <2>2, <2>4, LockLockInv
<1>6. CASE EndCleanup(r)
  <2>1. CASE Leave(r, "error")
    BY <2>1, LeaveLockInv
  <2>2. CASE Goto(r, "insert") /\ UNCHANGED <<row, presented, deletes, committed>>
    <3>1. Revoked(r)' => Revoked(r)
      BY <1>6, <2>2 DEF EndCleanup, Revoked
    <3> QED
      BY <2>2, <3>1, GotoLockInv
  <2> QED
    BY <1>6, <2>1, <2>2 DEF EndCleanup
<1>7. CASE Insert(r)
  <2>1. CASE Leave(r, "error")
    BY <2>1, LeaveLockInv
  <2>2. ASSUME NEW label \in Finishing, Goto(r, label),
               UNCHANGED <<row, presented, deletes, committed>>
        PROVE  LockInv'
    <3>1. Revoked(r)' => Revoked(r)
      BY <1>7, <2>2 DEF Insert, Revoked
    <3> QED
      BY <2>2, <3>1, GotoLockInv
  <2> QED
    BY <1>7, <2>1, <2>2 DEF Insert
<1>8. CASE Respond(r)
  <2>1. pc[r] = "respond" /\ UNCHANGED <<row, presented, deletes, committed>>
    BY <1>8 DEF Respond
  <2>2. CASE r \in committed
    <3>1. ~Revoked(r)' /\ deletes[r] = {}
      BY <2>1, <2>2 DEF Revoked, LockInv
    <3> QED
      BY <1>8, <2>1, <3>1, GotoLockInv DEF Respond
  <2>3. CASE RespondBeforeCommit
    <3>1. Revoked(r)' => Revoked(r)
      BY <1>8, <2>1 DEF Respond, Revoked
    <3> QED
      BY <1>8, <2>1, <2>3, <3>1, GotoLockInv DEF Respond
  <2> QED
    BY <2>1, <2>2, <2>3 DEF LockInv, RespondInv
<1>9. CASE Commit(r)
  BY <1>9, CommitLockInv
<1>10. CASE BreakDeadlock(r)
  BY <1>10, LeaveLockInv DEF BreakDeadlock
<1> QED
  BY <1>1, <1>2, <1>3, <1>4, <1>5, <1>6, <1>7, <1>8, <1>9, <1>10 DEF Advance

\* Staff wait for the locks of the rows they delete.
LEMMA StaffLockInv ==
  ASSUME LockInv, RotationInv', RespondInv', Staff
  PROVE  LockInv'
<1>1. ASSUME NEW u \in Users, NEW s \in {"active", "inactive"}, SetActive(u, s)
      PROVE  LockInv'
  BY <1>1, StillLockInv DEF SetActive
<1>2. ASSUME NEW u \in Users, DeleteUser(u) PROVE LockInv'
  <2>1. \A q \in Requests, x \in Tokens : Holds(q, x) => row'[x] = row[x]
    BY <1>2 DEF DeleteUser
  <2> QED
    BY <1>2, <2>1, StillLockInv DEF DeleteUser, history
<1>3. ASSUME NEW t \in Tokens, DeleteToken(t) PROVE LockInv'
  <2>1. \A q \in Requests, x \in Tokens : Holds(q, x) => row'[x] = row[x]
    BY <1>3 DEF DeleteToken, LockInv, RotationInv, TypeOK
  <2> QED
    BY <1>3, <2>1, StillLockInv DEF DeleteToken
<1> QED
  BY <1>1, <1>2, <1>3 DEF Staff

LEMMA NextLockInv == LockInv /\ RotationInv' /\ RespondInv' /\ [Next]_vars => LockInv'
<1> SUFFICES ASSUME LockInv, RotationInv', RespondInv', [Next]_vars PROVE LockInv'
  OBVIOUS
<1>1. ASSUME NEW r \in Requests, Fail(r) \/ Abandon(r) PROVE LockInv'
  BY <1>1, LeaveLockInv DEF Fail, Abandon
<1>2. CASE Tick \/ UNCHANGED vars
  BY <1>2, StillLockInv DEF Tick, vars, tables, history
<1> QED
  BY <1>1, <1>2, ClientLockInv, AdvanceLockInv, StaffLockInv DEF Next

\* No two open transactions have written the same refresh_tokens row, and a
\* row stays in its table while a transaction has it, whatever fails or is
\* abandoned (revoke, cleanup_expired and the admin deletes).
THEOREM RowLocksExclude == Spec => []LockInv
<1>1. Init => RespondInv
  BY DEF Init, RespondInv
<1>2. Spec => []RespondInv
  BY <1>1, NextRespondInv, TypeCorrect, PTL DEF Spec
<1> QED
  BY <1>2, InitLockInv, NextLockInv, RotationInvariant, PTL DEF Spec

------------------------------------------------------------------------------
(* No token comes back.                                                    *)

\* What writes the committed rows: a COMMIT, and the deletes of staff.
LEMMA RowStep ==
  ASSUME [Next]_vars
  PROVE  \/ UNCHANGED row
         \/ \E r \in Requests : Commit(r)
         \/ \E u \in Users : DeleteUser(u)
         \/ \E t \in Tokens : DeleteToken(t)
<1> USE DEF tables
<1>1. ASSUME NEW r \in Requests, Client(r) \/ Fail(r) \/ Abandon(r)
      PROVE  UNCHANGED row
  BY <1>1 DEF Client, Login, Refuse, Present, Fail, Abandon, Leave
<1>2. ASSUME NEW r \in Requests, Advance(r), ~Commit(r) PROVE UNCHANGED row
  BY <1>2 DEF Advance, ReadToken, ReadUser, Revoke, BeginCleanup, CleanupRow,
     EndCleanup, Insert, Respond, BreakDeadlock, Leave
<1>3. CASE Staff
  BY <1>3 DEF Staff, SetActive
<1>4. CASE Tick \/ UNCHANGED vars
  BY <1>4 DEF Tick, vars
<1> QED
  BY <1>1, <1>2, <1>3, <1>4 DEF Next

\* A late write never restores a row: the one a COMMIT revokes is still there,
\* since its lock kept staff and other cleanups away, and the one it adds is
\* its own.
LEMMA NothingRevived ==
  ASSUME LockInv, [Next]_vars, NEW t \in Tokens
  PROVE  /\ row[t] = "none" /\ row'[t] # "none" => t \in committed' \ committed
         /\ row[t] = "revoked" => row'[t] # "live"
<1>1. CASE UNCHANGED row
  BY <1>1
<1>2. ASSUME NEW r \in Requests, Commit(r)
      PROVE  /\ row[t] = "none" /\ row'[t] # "none" => t \in committed' \ committed
             /\ row[t] = "revoked" => row'[t] # "live"
  <2>1. r \notin committed
    BY <1>2 DEF Commit, LockInv, RotationInv, Settled
  <2>2. row[r] = "none"
    BY <2>1 DEF LockInv, RotationInv, TypeOK, Tokens
  <2>3. t = presented[r] => row[t] # "none"
    <3>1. t = presented[r] => Holds(r, t)
      BY <1>2, <2>1, NamesAssumption DEF Commit, Holds, Revoked, Finishing
    <3> QED
      BY <3>1 DEF LockInv
  <2>4. CASE t = r
    BY <1>2, <2>1, <2>2, <2>4 DEF Commit, Applied
  <2>5. CASE t # r
    BY <1>2, <2>3, <2>5 DEF Commit, Applied
  <2> QED
    BY <2>4, <2>5
<1>3. ASSUME NEW u \in Users, DeleteUser(u)
      PROVE  row'[t] = row[t] \/ row'[t] = "none"
  BY <1>3 DEF DeleteUser
<1>4. ASSUME NEW x \in Tokens, DeleteToken(x)
      PROVE  row'[t] = row[t] \/ row'[t] = "none"
  BY <1>4 DEF DeleteToken, LockInv, RotationInv, TypeOK
<1> QED
  BY <1>1, <1>2, <1>3, <1>4, RowStep

\* A spent, purged or deleted token never comes back: a row only appears with
\* the commit of the request that minted it, whatever is under way.
THEOREM TokensStayDead == Spec => NeverRevived
<1>1. LockInv /\ [Next]_vars =>
        [\A t \in Tokens :
           /\ row[t] = "none" /\ row'[t] # "none" => t \in committed' \ committed
           /\ row[t] = "revoked" => row'[t] # "live"]_vars
  BY NothingRevived
<1> QED
  BY <1>1, RowLocksExclude, PTL DEF Spec, NeverRevived

------------------------------------------------------------------------------
(* No token outlives its account.                                          *)

\* The requests past the door: they have an account, and so has what they mint.
Entered(r) == pc[r] \in InFlight \/ r \in committed \/ answer[r] = "ok"

OwnerInv ==
  /\ TypeOK
  /\ \A t \in Sessions : owner[t] \in Users
  /\ \A r \in Requests : Entered(r) => owner[r] \in Users

LEMMA InitOwnerInv == Init => OwnerInv
<1> SUFFICES ASSUME Init PROVE OwnerInv
  OBVIOUS
<1>1. PICK f \in [Sessions -> Users] :
        owner = [t \in Tokens |-> IF t \in Sessions THEN f[t] ELSE NoUser]
  BY DEF Init
<1>2. \A t \in Sessions : owner[t] \in Users
  BY <1>1 DEF Tokens
<1>3. \A r \in Requests : ~Entered(r)
  BY DEF Init, Entered, InFlight, Reading, Writing, Finishing
<1> QED
  BY <1>2, <1>3, InitTypeOK DEF OwnerInv

\* A request enters with an account, and keeps it.
LEMMA OwnerOnEntry ==
  ASSUME OwnerInv, TypeOK', NEW r \in Requests, NEW u \in Users,
         owner' = [owner EXCEPT ![r] = u],
         \A q \in Requests \ {r} : Entered(q)' => Entered(q)
  PROVE  OwnerInv'
BY NamesAssumption DEF OwnerInv, TypeOK, Tokens

\* A step in which no request enters.
LEMMA OwnerKept ==
  ASSUME OwnerInv, TypeOK', UNCHANGED owner,
         \A q \in Requests : Entered(q)' => Entered(q)
  PROVE  OwnerInv'
BY DEF OwnerInv

LEMMA NextOwnerInv == OwnerInv /\ TypeOK' /\ [Next]_vars => OwnerInv'
<1> SUFFICES ASSUME OwnerInv, TypeOK', [Next]_vars PROVE OwnerInv'
  OBVIOUS
<1> USE DEF tables, history
<1>1. ASSUME NEW r \in Requests, NEW a, a = "ok" => answer[r] = "ok", Leave(r, a)
      PROVE  OwnerInv'
  <2>1. \A q \in Requests : Entered(q)' => Entered(q)
    BY <1>1 DEF Leave, Entered, OwnerInv, TypeOK, InFlight, Reading, Writing, Finishing
  <2> QED
    BY <1>1, <2>1, OwnerKept DEF Leave
<1>2. ASSUME NEW r \in Requests, NEW label, Goto(r, label), pc[r] \in InFlight,
             UNCHANGED owner, \A q \in Requests \ {r} : answer'[q] = answer[q],
             \A q \in Requests \ {r} : q \in committed' => q \in committed
      PROVE  OwnerInv'
  <2>1. \A q \in Requests : Entered(q)' => Entered(q)
    BY <1>2 DEF Goto, Entered, OwnerInv, TypeOK
  <2> QED
    BY <1>2, <2>1, OwnerKept
<1>3. ASSUME NEW r \in Requests, Client(r) PROVE OwnerInv'
  <2>1. ASSUME NEW u \in Users, Login(r, u) PROVE OwnerInv'
    <3>1. \A q \in Requests \ {r} : Entered(q)' => Entered(q)
      BY <2>1 DEF Login, Goto, Entered, OwnerInv, TypeOK
    <3> QED
      BY <2>1, <3>1, OwnerOnEntry DEF Login
  <2>2. CASE Refuse(r)
    BY <1>1, <2>2 DEF Refuse
  <2>3. ASSUME NEW t \in Tokens, Present(r, t) PROVE OwnerInv'
    <3>1. owner[t] \in Users
      BY <2>3 DEF Present, Known, OwnerInv, Entered
    <3>2. \A q \in Requests \ {r} : Entered(q)' => Entered(q)
      BY <2>3 DEF Present, Goto, Entered, OwnerInv, TypeOK
    <3>3. owner' = [owner EXCEPT ![r] = owner[t]]
      BY <2>3 DEF Present
    <3> QED
      BY <3>1, <3>2, <3>3, OwnerOnEntry
  <2> QED
    BY <1>3, <2>1, <2>2, <2>3 DEF Client
<1>4. ASSUME NEW r \in Requests, Advance(r) PROVE OwnerInv'
  <2> USE DEF InFlight, Reading, Writing, Finishing
  <2>1. ASSUME NEW t \in Tokens, CleanupRow(r, t) PROVE OwnerInv'
    BY <2>1, OwnerKept DEF CleanupRow, Entered
  <2>2. CASE ReadToken(r) \/ ReadUser(r) \/ Revoke(r) \/ BeginCleanup(r)
    BY <1>1, <1>2, <2>2 DEF ReadToken, ReadUser, Revoke, BeginCleanup
  <2>3. CASE EndCleanup(r) \/ Insert(r) \/ BreakDeadlock(r)
    BY <1>1, <1>2, <2>3 DEF EndCleanup, Insert, BreakDeadlock
  <2>4. CASE Respond(r)
    <3>1. \A q \in Requests \ {r} : answer'[q] = answer[q]
      BY <2>4 DEF Respond, OwnerInv, TypeOK
    <3> QED
      BY <1>2, <2>4, <3>1 DEF Respond
  <2>5. CASE Commit(r)
    BY <1>2, <2>5 DEF Commit
  <2> QED
    BY <1>4, <2>1, <2>2, <2>3, <2>4, <2>5 DEF Advance
<1>5. ASSUME NEW r \in Requests, Fail(r) \/ Abandon(r) PROVE OwnerInv'
  BY <1>1, <1>5 DEF Fail, Abandon
<1>6. CASE Staff \/ Tick \/ UNCHANGED vars
  BY <1>6, OwnerKept DEF Staff, SetActive, DeleteUser, DeleteToken, Tick, vars, Entered
<1> QED
  BY <1>3, <1>4, <1>5, <1>6 DEF Next

\* Every request past the door, and every stored token, belongs to an account
\* (authenticate_user, decode_token).
THEOREM OwnersKnown == Spec => []OwnerInv
BY InitOwnerInv, NextOwnerInv, TypeCorrect, PTL DEF Spec

\* Why NoOrphanRow is inductive: an INSERT under way holds a lock on the user's
\* row, so the row it commits has its user.
OrphanInv ==
  /\ NoOrphanRow
  /\ \A r \in Requests : Inserted(r) => users[owner[r]] # "deleted"

\* What a step may do to an account: only the delete, when no INSERT for it is
\* under way, and only with all its rows.
LEMMA AccountsStep ==
  ASSUME OwnerInv, [Next]_vars
  PROVE  \/ UNCHANGED users
         \/ /\ UNCHANGED <<row, owner, pc, committed>>
            /\ \A u \in Users : users'[u] = "deleted" <=> users[u] = "deleted"
         \/ \E u \in Users :
              /\ users' = [users EXCEPT ![u] = "deleted"]
              /\ row' = [t \in Tokens |-> IF owner[t] = u THEN "none" ELSE row[t]]
              /\ \A r \in Requests : owner[r] = u => ~Inserted(r)
              /\ UNCHANGED <<owner, pc, committed, removed>>
<1> USE DEF tables, history
<1>1. ASSUME NEW u \in Users, NEW s \in {"active", "inactive"}, SetActive(u, s)
      PROVE  /\ UNCHANGED <<row, owner, pc, committed>>
             /\ \A v \in Users : users'[v] = "deleted" <=> users[v] = "deleted"
  BY <1>1 DEF SetActive, OwnerInv, TypeOK
<1>2. ASSUME NEW u \in Users, DeleteUser(u)
      PROVE  /\ users' = [users EXCEPT ![u] = "deleted"]
             /\ row' = [t \in Tokens |-> IF owner[t] = u THEN "none" ELSE row[t]]
             /\ \A r \in Requests : owner[r] = u => ~Inserted(r)
             /\ UNCHANGED <<owner, pc, committed, removed>>
  BY <1>2 DEF DeleteUser
<1>3. ASSUME NEW r \in Requests, Client(r) \/ Fail(r) \/ Abandon(r)
      PROVE  UNCHANGED users
  BY <1>3 DEF Client, Login, Refuse, Present, Fail, Abandon, Leave
<1>4. ASSUME NEW r \in Requests, Advance(r) PROVE UNCHANGED users
  BY <1>4 DEF Advance, ReadToken, ReadUser, Revoke, BeginCleanup, CleanupRow,
     EndCleanup, Insert, Respond, Commit, BreakDeadlock, Leave
<1>5. CASE Staff
  BY <1>1, <1>2, <1>5 DEF Staff, DeleteToken
<1>6. CASE Tick \/ UNCHANGED vars
  BY <1>6 DEF Tick, vars
<1> QED
  BY <1>3, <1>4, <1>5, <1>6 DEF Next

\* Only a login or a refresh, on its way in, gives a token its owner.
LEMMA OwnerStep ==
  ASSUME TypeOK, [Next]_vars, NEW t \in Tokens
  PROVE  \/ owner'[t] = owner[t]
         \/ t \in Requests /\ pc[t] = "idle" /\ UNCHANGED <<users, row, committed>>
<1> USE DEF tables, history
<1>1. ASSUME NEW r \in Requests, Client(r)
      PROVE  \/ owner'[t] = owner[t]
             \/ t = r /\ pc[r] = "idle" /\ UNCHANGED <<users, row, committed>>
  BY <1>1 DEF Client, Login, Refuse, Present, Leave, TypeOK
<1>2. ASSUME NEW r \in Requests, Advance(r) \/ Fail(r) \/ Abandon(r)
      PROVE  UNCHANGED owner
  BY <1>2 DEF Advance, ReadToken, ReadUser, Revoke, BeginCleanup, CleanupRow,
     EndCleanup, Insert, Respond, Commit, BreakDeadlock, Leave, Fail, Abandon
<1>3. CASE Staff \/ Tick \/ UNCHANGED vars
  BY <1>3 DEF Staff, SetActive, DeleteUser, DeleteToken, Tick, vars
<1> QED
  BY <1>1, <1>2, <1>3 DEF Next

\* The INSERT, with its user there, is how a request comes to have inserted.
LEMMA InsertedStep ==
  ASSUME LockInv, [Next]_vars, NEW q \in Requests, Inserted(q)'
  PROVE  \/ Inserted(q)
         \/ users[owner[q]] # "deleted" /\ UNCHANGED <<users, owner>>
<1> USE DEF tables, history, Inserted, Finishing, LockInv, RotationInv, TypeOK
<1>1. ASSUME NEW r \in Requests, NEW a, Leave(r, a) PROVE Inserted(q)
  BY <1>1 DEF Leave
<1>2. ASSUME NEW r \in Requests, NEW label, label \notin Finishing, Goto(r, label),
             UNCHANGED committed
      PROVE  Inserted(q)
  BY <1>2 DEF Goto
<1>3. ASSUME NEW r \in Requests, Client(r) PROVE Inserted(q)
  BY <1>1, <1>2, <1>3 DEF Client, Login, Refuse, Present
<1>4. ASSUME NEW r \in Requests, Insert(r)
      PROVE  Inserted(q) \/ (users[owner[q]] # "deleted" /\ UNCHANGED <<users, owner>>)
  <2>1. CASE Leave(r, "error")
    BY <2>1 DEF Leave
  <2>2. ASSUME NEW label, Goto(r, label), users[owner[r]] # "deleted",
               UNCHANGED <<users, owner, committed>>
        PROVE  Inserted(q) \/ (users[owner[q]] # "deleted" /\ UNCHANGED <<users, owner>>)
    BY <2>2 DEF Goto
  <2> QED
    BY <1>4, <2>1, <2>2 DEF Insert
<1>5. ASSUME NEW r \in Requests, Respond(r) \/ Commit(r) PROVE Inserted(q)
  BY <1>5 DEF Respond, Commit, Goto
<1>6. ASSUME NEW r \in Requests, Advance(r), ~Insert(r), ~Respond(r), ~Commit(r)
      PROVE  Inserted(q)
  <2>1. ASSUME NEW t \in Tokens, CleanupRow(r, t) PROVE Inserted(q)
    BY <2>1 DEF CleanupRow
  <2> QED
    BY <1>1, <1>2, <1>6, <2>1 DEF Advance, ReadToken, ReadUser, Revoke,
       BeginCleanup, EndCleanup, BreakDeadlock
<1>7. ASSUME NEW r \in Requests, Fail(r) \/ Abandon(r) PROVE Inserted(q)
  BY <1>1, <1>7 DEF Fail, Abandon
<1>8. CASE Staff \/ Tick \/ UNCHANGED vars
  BY <1>8 DEF Staff, SetActive, DeleteUser, DeleteToken, Tick, vars
<1> QED
  BY <1>3, <1>4, <1>5, <1>6, <1>7, <1>8 DEF Next

\* A request becomes committed with its own COMMIT.
LEMMA CommittedStep ==
  ASSUME [Next]_vars, NEW t \in committed' \ committed
  PROVE  t \in Requests /\ Commit(t)
<1> USE DEF tables, history
<1>1. ASSUME NEW r \in Requests, Client(r) \/ Fail(r) \/ Abandon(r)
      PROVE  UNCHANGED committed
  BY <1>1 DEF Client, Login, Refuse, Present, Fail, Abandon, Leave
<1>2. ASSUME NEW r \in Requests, Advance(r), ~Commit(r) PROVE UNCHANGED committed
  BY <1>2 DEF Advance, ReadToken, ReadUser, Revoke, BeginCleanup, CleanupRow,
     EndCleanup, Insert, Respond, BreakDeadlock, Leave
<1>3. ASSUME NEW r \in Requests, Commit(r) PROVE t = r
  BY <1>3 DEF Commit
<1>4. CASE Staff \/ Tick \/ UNCHANGED vars
  BY <1>4 DEF Staff, SetActive, DeleteUser, DeleteToken, Tick, vars
<1> QED
  BY <1>1, <1>2, <1>3, <1>4 DEF Next

\* A token with a row has an owner, and is not being minted.
LEMMA RowHasOwner ==
  ASSUME LockInv, OwnerInv, NEW t \in Tokens, row[t] # "none"
  PROVE  /\ owner[t] \in Users
         /\ t \in Requests => t \in committed /\ pc[t] # "idle"
BY DEF LockInv, OwnerInv, RotationInv, Settled, Entered, Tokens

LEMMA NextOrphanInv ==
  LockInv /\ OwnerInv /\ OrphanInv /\ [Next]_vars => OrphanInv'
<1> SUFFICES ASSUME LockInv, OwnerInv, OrphanInv, [Next]_vars PROVE OrphanInv'
  OBVIOUS
<1>1. TypeOK
  BY DEF OwnerInv
<1>2. ASSUME NEW t \in Tokens, row'[t] # "none" PROVE users'[owner'[t]] # "deleted"
  <2>1. CASE row[t] = "none"
    <3>1. t \in Requests /\ t \notin committed /\ Commit(t)
      BY <1>2, <2>1, NothingRevived, CommittedStep
    <3>2. Inserted(t)
      BY <3>1 DEF Commit, Inserted, Finishing
    <3> QED
      BY <3>1, <3>2 DEF Commit, OrphanInv
  <2>2. CASE row[t] # "none"
    <3>1. owner'[t] = owner[t] /\ owner[t] \in Users
      BY <1>1, <2>2, RowHasOwner, OwnerStep
    <3>2. users[owner[t]] # "deleted"
      BY <2>2 DEF OrphanInv, NoOrphanRow
    <3>3. ASSUME NEW u \in Users, users' = [users EXCEPT ![u] = "deleted"],
                 row' = [x \in Tokens |-> IF owner[x] = u THEN "none" ELSE row[x]]
          PROVE  users'[owner[t]] # "deleted"
      BY <1>1, <1>2, <3>1, <3>2, <3>3 DEF TypeOK
    <3> QED
      BY <3>1, <3>2, <3>3, AccountsStep
  <2> QED
    BY <2>1, <2>2
<1>3. ASSUME NEW r \in Requests, Inserted(r)' PROVE users'[owner'[r]] # "deleted"
  <2>1. CASE ~Inserted(r)
    BY <1>3, <2>1, InsertedStep
  <2>2. CASE Inserted(r)
    <3>1. users[owner[r]] # "deleted" /\ pc[r] # "idle"
      BY <2>2 DEF OrphanInv, Inserted, Finishing
    <3>2. owner'[r] = owner[r] /\ owner[r] \in Users
      BY <1>1, <2>2, <3>1, OwnerStep
      DEF OwnerInv, Entered, Inserted, InFlight, Finishing, Tokens
    <3>3. ASSUME NEW u \in Users, users' = [users EXCEPT ![u] = "deleted"],
                 \A q \in Requests : owner[q] = u => ~Inserted(q)
          PROVE  users'[owner[r]] # "deleted"
      BY <1>1, <2>2, <3>1, <3>2, <3>3 DEF TypeOK
    <3> QED
      BY <3>1, <3>2, <3>3, AccountsStep
  <2> QED
    BY <2>1, <2>2
<1> QED
  BY <1>2, <1>3 DEF OrphanInv, NoOrphanRow

\* No refresh token outlives its account, also when a pair is being issued
\* while staff delete it (the cascade and the foreign key of models.py).
THEOREM NoOrphans == Spec => []NoOrphanRow
<1>1. Init => OrphanInv
  BY InitTypeOK DEF Init, OrphanInv, NoOrphanRow, Inserted, Finishing
<1>2. OrphanInv => NoOrphanRow
  BY DEF OrphanInv
<1> QED
  BY <1>1, <1>2, NextOrphanInv, RowLocksExclude, OwnersKnown, PTL DEF Spec

------------------------------------------------------------------------------
(* Nobody else takes a token that was given and is not spent.              *)

\* A cleanup only reaches back from the clock, so what it deleted has expired.
CleanupInv ==
  \A r \in Requests : cutoff[r] <= now /\ \A t \in deletes[r] : exp[t] < now

\* The expiry of a token is set by the INSERT of the request that mints it.
LEMMA ExpStep ==
  ASSUME TypeOK, [Next]_vars, NEW t \in Tokens
  PROVE  exp'[t] = exp[t] \/ (t \in Requests /\ Insert(t))
<1> USE DEF tables, history
<1>1. ASSUME NEW r \in Requests, Insert(r) PROVE exp'[t] = exp[t] \/ t = r
  BY <1>1 DEF Insert, Leave, TypeOK
<1>2. ASSUME NEW r \in Requests, Client(r) \/ Fail(r) \/ Abandon(r)
      PROVE  UNCHANGED exp
  BY <1>2 DEF Client, Login, Refuse, Present, Fail, Abandon, Leave
<1>3. ASSUME NEW r \in Requests, Advance(r), ~Insert(r) PROVE UNCHANGED exp
  BY <1>3 DEF Advance, ReadToken, ReadUser, Revoke, BeginCleanup, CleanupRow,
     EndCleanup, Respond, Commit, BreakDeadlock, Leave
<1>4. CASE Staff \/ Tick \/ UNCHANGED vars
  BY <1>4 DEF Staff, SetActive, DeleteUser, DeleteToken, Tick, vars
<1> QED
  BY <1>1, <1>2, <1>3, <1>4 DEF Next

\* The clock never goes back, and stands still while a request takes a step.
LEMMA ClockStep ==
  ASSUME [Next]_vars
  PROVE  now' = now \/ (now' = now + 1 /\ UNCHANGED <<cutoff, deletes>>)
<1> USE DEF tables, history
<1>1. ASSUME NEW r \in Requests, Client(r) \/ Fail(r) \/ Abandon(r)
      PROVE  UNCHANGED now
  BY <1>1 DEF Client, Login, Refuse, Present, Fail, Abandon, Leave
<1>2. ASSUME NEW r \in Requests, Advance(r) PROVE UNCHANGED now
  BY <1>2 DEF Advance, ReadToken, ReadUser, Revoke, BeginCleanup, CleanupRow,
     EndCleanup, Insert, Respond, Commit, BreakDeadlock, Leave
<1>3. CASE Staff \/ Tick \/ UNCHANGED vars
  BY <1>3 DEF Staff, SetActive, DeleteUser, DeleteToken, Tick, vars
<1> QED
  BY <1>1, <1>2, <1>3 DEF Next

\* What a step may do to a cutoff, and to the rows a cleanup deleted.
LEMMA CleanupStep ==
  ASSUME TypeOK, [Next]_vars, NEW q \in Requests
  PROVE  /\ cutoff'[q] \in {cutoff[q], 0, now}
         /\ \A t \in deletes'[q] : t \in deletes[q] \/ exp[t] < cutoff[q]
<1> DEFINE P == /\ cutoff'[q] \in {cutoff[q], 0, now}
                /\ \A t \in deletes'[q] : t \in deletes[q] \/ exp[t] < cutoff[q]
<1> USE DEF tables, history
<1>1. ASSUME UNCHANGED <<cutoff, deletes>> PROVE P
  BY <1>1
<1>2. ASSUME NEW r \in Requests, NEW a, Leave(r, a) PROVE P
  BY <1>2 DEF Leave, TypeOK
<1>3. ASSUME NEW r \in Requests, BeginCleanup(r) PROVE P
  BY <1>3 DEF BeginCleanup, TypeOK
<1>4. ASSUME NEW r \in Requests, NEW t \in Tokens, CleanupRow(r, t) PROVE P
  BY <1>4 DEF CleanupRow, Expired, TypeOK
<1>5. ASSUME NEW r \in Requests, EndCleanup(r) PROVE P
  <2>1. CASE Leave(r, "error")
    BY <1>2, <2>1
  <2>2. CASE cutoff' = [cutoff EXCEPT ![r] = 0] /\ UNCHANGED deletes
    BY <2>2 DEF TypeOK
  <2> QED
    BY <1>5, <2>1, <2>2 DEF EndCleanup
<1>6. ASSUME NEW r \in Requests, Commit(r) PROVE P
  BY <1>6 DEF Commit, TypeOK
<1> HIDE DEF P
<1>7. ASSUME NEW r \in Requests, Client(r) \/ Fail(r) \/ Abandon(r) PROVE P
  BY <1>1, <1>2, <1>7 DEF Client, Login, Refuse, Present, Fail, Abandon
<1>8. ASSUME NEW r \in Requests, Advance(r) PROVE P
  BY <1>1, <1>2, <1>3, <1>4, <1>5, <1>6, <1>8
  DEF Advance, ReadToken, ReadUser, Revoke, Insert, Respond, BreakDeadlock
<1>9. ASSUME Staff \/ Tick \/ UNCHANGED vars PROVE P
  BY <1>1, <1>9 DEF Staff, SetActive, DeleteUser, DeleteToken, Tick, vars
<1>10. P
  BY <1>7, <1>8, <1>9 DEF Next
<1> QED
  BY <1>10 DEF P

LEMMA NextCleanupInv ==
  ASSUME LockInv, TypeOK', CleanupInv, [Next]_vars
  PROVE  CleanupInv'
<1>1. TypeOK /\ now \in Nat /\ now' \in Nat
  BY TimeAssumption DEF LockInv, RotationInv, TypeOK
<1>2. now' = now \/ (now' = now + 1 /\ UNCHANGED <<cutoff, deletes>>)
  BY ClockStep
<1>3. ASSUME NEW r \in Requests PROVE cutoff'[r] <= now'
  <2>1. cutoff[r] <= now /\ cutoff[r] \in Nat
    BY <1>1, TimeAssumption DEF CleanupInv, TypeOK
  <2> QED
    BY <1>1, <1>2, <2>1, CleanupStep
<1>4. ASSUME NEW r \in Requests, NEW t \in deletes'[r] PROVE exp'[t] < now'
  <2>1. t \in Tokens /\ exp[t] \in Nat /\ cutoff[r] \in Nat /\ cutoff[r] <= now
    BY <1>1, <1>4, TimeAssumption DEF TypeOK, CleanupInv
  <2>2. t \in deletes[r] \/ exp[t] < cutoff[r]
    BY <1>1, CleanupStep
  <2>3. exp[t] < now /\ exp[t] < now'
    BY <1>1, <1>2, <2>1, <2>2 DEF CleanupInv
  <2>4. exp'[t] = exp[t]
    <3>1. CASE ~(t \in Requests /\ Insert(t))
      BY <1>1, <2>1, <3>1, ExpStep
    <3>2. CASE t \in Requests /\ Insert(t)
      <4>1. t \notin committed /\ row[t] = "none"
        BY <2>1, <3>2 DEF Insert, LockInv, RotationInv, Settled
      <4>2. ~Holds(r, t)
        BY <2>1, <4>1 DEF LockInv
      <4>3. (t \notin deletes[r] /\ UNCHANGED deletes) \/ Leave(t, "error")
        BY <3>2, <4>2 DEF Insert, Holds
      <4> QED
        BY <1>4, <4>3 DEF Leave
    <3> QED
      BY <3>1, <3>2
  <2> QED
    BY <2>3, <2>4
<1> QED
  BY <1>3, <1>4 DEF CleanupInv

\* Why GivenTokenStands is inductive: it is a matter of the tokens whose COMMIT
\* is over, and what takes such a row is a cleanup after its expiry, a COMMIT
\* that spends it, or staff.
StandsInv ==
  \A t \in Sessions \cup committed :
    /\ exp[t] >= now
    /\ users[owner[t]] # "deleted"
    /\ t \notin removed
    /\ \A r \in committed : presented[r] # t
    => row[t] = "live"

\* What was presented, committed or removed stays so.
LEMMA HistoryStep ==
  ASSUME TypeOK, [Next]_vars
  PROVE  /\ committed \subseteq committed' /\ removed \subseteq removed'
         /\ \A r \in Requests : presented'[r] = presented[r] \/ pc[r] = "idle"
<1> USE DEF tables, history
<1>1. ASSUME NEW r \in Requests, NEW t \in Tokens, Present(r, t)
      PROVE  /\ UNCHANGED <<committed, removed>>
             /\ \A q \in Requests : presented'[q] = presented[q] \/ pc[q] = "idle"
  BY <1>1 DEF Present, TypeOK
<1>2. ASSUME NEW r \in Requests, Client(r), ~\E t \in Tokens : Present(r, t)
      PROVE  UNCHANGED <<committed, removed, presented>>
  BY <1>2 DEF Client, Login, Refuse, Leave
<1>3. ASSUME NEW r \in Requests, Fail(r) \/ Abandon(r)
      PROVE  UNCHANGED <<committed, removed, presented>>
  BY <1>3 DEF Fail, Abandon, Leave
<1>4. ASSUME NEW r \in Requests, Advance(r)
      PROVE  committed \subseteq committed' /\ UNCHANGED <<removed, presented>>
  BY <1>4 DEF Advance, ReadToken, ReadUser, Revoke, BeginCleanup, CleanupRow,
     EndCleanup, Insert, Respond, Commit, BreakDeadlock, Leave
<1>5. CASE Staff
  BY <1>5 DEF Staff, SetActive, DeleteUser, DeleteToken
<1>6. CASE Tick \/ UNCHANGED vars
  BY <1>6 DEF Tick, vars
<1> QED
  BY <1>1, <1>2, <1>3, <1>4, <1>5, <1>6 DEF Next

LEMMA NextStandsInv ==
  ASSUME LockInv, OwnerInv, CleanupInv, TypeOK', StandsInv, [Next]_vars
  PROVE  StandsInv'
<1>1. TypeOK /\ now \in Nat /\ now' \in Nat
  BY TimeAssumption DEF LockInv, RotationInv, TypeOK
<1>2. SUFFICES ASSUME NEW t \in Sessions \cup committed', exp'[t] >= now',
                      users'[owner'[t]] # "deleted", t \notin removed',
                      \A r \in committed' : presented'[r] # t
               PROVE  row'[t] = "live"
  BY DEF StandsInv
<1>3. CASE t \notin Sessions \cup committed
  BY <1>2, <1>3, CommittedStep DEF Commit, Applied, Tokens
<1>4. CASE t \in Sessions \cup committed
  <2>1. t \in Tokens /\ (t \in Requests => t \in committed /\ Settled(t))
    BY <1>1, <1>4, NamesAssumption DEF LockInv, RotationInv, TypeOK, Tokens
  <2>2. exp'[t] = exp[t] /\ exp[t] \in Nat
    BY <1>1, <2>1, ExpStep DEF Insert, Settled, TypeOK
  <2>3. owner'[t] = owner[t] /\ owner[t] \in Users
    <3>1. owner[t] \in Users
      BY <1>1, <1>4 DEF OwnerInv, Entered, TypeOK
    <3>2. ~(t \in Requests /\ pc[t] = "idle")
      BY <2>1 DEF Settled
    <3> QED
      BY <1>1, <2>1, <3>1, <3>2, OwnerStep
  <2>4. exp[t] >= now
    BY <1>1, <1>2, <2>2, ClockStep
  <2>5. users[owner[t]] # "deleted"
    BY <1>1, <1>2, <2>3, AccountsStep DEF TypeOK
  <2>6. t \notin removed /\ \A r \in committed : presented[r] # t
    BY <1>1, <1>2, HistoryStep DEF LockInv, RotationInv, TypeOK, Settled
  <2>7. row[t] = "live"
    BY <1>4, <2>4, <2>5, <2>6 DEF StandsInv
  <2>8. ASSUME NEW r \in Requests, Commit(r) PROVE row'[t] = "live"
    <3>1. t \notin deletes[r]
      BY <1>1, <2>2, <2>4 DEF CleanupInv
    <3>2. t # presented[r]
      BY <1>2, <2>8 DEF Commit
    <3> QED
      BY <2>1, <2>7, <2>8, <3>1, <3>2 DEF Commit, Applied
  <2>9. ASSUME NEW u \in Users, DeleteUser(u) PROVE row'[t] = "live"
    BY <1>1, <1>2, <2>1, <2>3, <2>7, <2>9 DEF DeleteUser, TypeOK
  <2>10. ASSUME NEW x \in Tokens, DeleteToken(x) PROVE row'[t] = "live"
    BY <1>1, <1>2, <2>1, <2>7, <2>10 DEF DeleteToken, TypeOK
  <2> QED
    BY <2>7, <2>8, <2>9, <2>10, RowStep
<1> QED
  BY <1>3, <1>4

\* A token whose COMMIT is over and that nobody has spent keeps its row until
\* it expires, unless staff take it or its account.
THEOREM CommittedTokenStands == Spec => []StandsInv
<1>1. Init => StandsInv /\ CleanupInv
  BY TimeAssumption DEF Init, StandsInv, CleanupInv, Tokens
<1>2. Spec => []CleanupInv
  BY <1>1, NextCleanupInv, TypeCorrect, RowLocksExclude, PTL DEF Spec
<1> QED
  BY <1>1, <1>2, NextStandsInv, TypeCorrect, RowLocksExclude, OwnersKnown, PTL DEF Spec

\* With the response after the COMMIT, a token a client was given and has not
\* spent is there until it expires: no other request's cleanup, rollback or
\* failure takes it away, only staff do.
THEOREM GivenTokenIsKept ==
  ASSUME ~RespondBeforeCommit
  PROVE  Spec => []GivenTokenStands
<1>1. ReplayInv /\ StandsInv => GivenTokenStands
  BY DEF ReplayInv, StandsInv, GivenTokenStands, Known
<1>2. ReplayInv /\ RotationInv' /\ [Next]_vars => ReplayInv'
  BY NextReplayInv
<1> QED
  BY <1>1, <1>2, InitReplayInv, RotationInvariant, CommittedTokenStands, PTL DEF Spec

------------------------------------------------------------------------------
(* An account that is not available gets no pair.                          *)

\* A refresh of an account that has been unavailable all along has not got
\* past the check on the account.
TurnedAway(r) ==
  /\ pc[r] \in {"select", "user", "done"}
  /\ answer[r] # "ok" /\ r \notin committed
  /\ owner[r] \in Users /\ users[owner[r]] # "active"

LockedOutInv == \A r \in lockedOut : TurnedAway(r)

\* Leaving never answers 200 to a request that was not answered yet.
LEMMA LeaveLockedOutInv ==
  ASSUME TypeOK, LockedOutInv, NEW r \in Requests, NEW a,
         a = "ok" => answer[r] = "ok", Leave(r, a)
  PROVE  LockedOutInv'
BY DEF TypeOK, LockedOutInv, TurnedAway, Leave, tables, history

\* A request that is not turned away moves on.
LEMMA GotoLockedOutInv ==
  ASSUME TypeOK, LockedOutInv, NEW r \in Requests, NEW label, Goto(r, label),
         ~TurnedAway(r) \/ label = "user",
         UNCHANGED <<users, owner, answer, committed, lockedOut>>
  PROVE  LockedOutInv'
BY DEF TypeOK, LockedOutInv, TurnedAway, Goto

\* A request that was not sent was not answered.
AnswerInv == \A r \in Requests : pc[r] = "idle" => answer[r] = "none"

LEMMA NextAnswerInv == TypeOK /\ AnswerInv /\ [Next]_vars => AnswerInv'
<1> SUFFICES ASSUME TypeOK, AnswerInv, [Next]_vars PROVE AnswerInv'
  OBVIOUS
<1> USE DEF AnswerInv, TypeOK
<1>1. ASSUME NEW r \in Requests, NEW a, Leave(r, a) PROVE AnswerInv'
  BY <1>1 DEF Leave
<1>2. ASSUME NEW r \in Requests, NEW label, label # "idle", Goto(r, label),
             \A q \in Requests \ {r} : answer'[q] = answer[q]
      PROVE  AnswerInv'
  BY <1>2 DEF Goto
<1>3. ASSUME NEW r \in Requests, Client(r) PROVE AnswerInv'
  BY <1>1, <1>2, <1>3 DEF Client, Login, Refuse, Present
<1>4. ASSUME NEW r \in Requests, Advance(r) PROVE AnswerInv'
  <2>1. ASSUME NEW t \in Tokens, CleanupRow(r, t) PROVE AnswerInv'
    BY <2>1 DEF CleanupRow
  <2>2. CASE ReadToken(r) \/ ReadUser(r) \/ Revoke(r) \/ BeginCleanup(r)
    BY <1>1, <1>2, <2>2 DEF ReadToken, ReadUser, Revoke, BeginCleanup
  <2>3. CASE EndCleanup(r) \/ Insert(r) \/ Commit(r) \/ BreakDeadlock(r)
    BY <1>1, <1>2, <2>3 DEF EndCleanup, Insert, Commit, BreakDeadlock
  <2>4. CASE Respond(r)
    BY <1>2, <2>4 DEF Respond
  <2> QED
    BY <1>4, <2>1, <2>2, <2>3, <2>4 DEF Advance
<1>5. ASSUME NEW r \in Requests, Fail(r) \/ Abandon(r) PROVE AnswerInv'
  BY <1>1, <1>5 DEF Fail, Abandon
<1>6. CASE Staff \/ Tick \/ UNCHANGED vars
  BY <1>6 DEF Staff, SetActive, DeleteUser, DeleteToken, Tick, vars
<1> QED
  BY <1>3, <1>4, <1>5, <1>6 DEF Next

LEMMA NextLockedOutInv ==
  ASSUME OwnerInv, AnswerInv, LockedOutInv, RotationInv, [Next]_vars
  PROVE  LockedOutInv'
<1> USE DEF tables, history
<1>1. TypeOK
  BY DEF OwnerInv
<1>2. ASSUME NEW r \in Requests, Client(r) PROVE LockedOutInv'
  <2>1. ASSUME NEW u \in Users, Login(r, u) PROVE LockedOutInv'
    <3>1. r \notin lockedOut
      BY <2>1 DEF Login, LockedOutInv, TurnedAway
    <3> QED
      BY <1>1, <2>1, <3>1 DEF Login, Goto, LockedOutInv, TurnedAway, TypeOK
  <2>2. CASE Refuse(r)
    BY <1>1, <2>2, LeaveLockedOutInv DEF Refuse
  <2>3. ASSUME NEW t \in Tokens, Present(r, t) PROVE LockedOutInv'
    <3> USE <2>3 DEF Present, Goto
    <3>1. r \notin lockedOut /\ r \notin committed
      BY DEF LockedOutInv, TurnedAway, RotationInv, Settled
    <3>2. ASSUME NEW q \in lockedOut PROVE TurnedAway(q)'
      BY <1>1, <3>1, <3>2 DEF LockedOutInv, TurnedAway, TypeOK
    <3>3. owner[t] \in Users
      BY DEF Known, OwnerInv, Entered
    <3>4. /\ pc'[r] = "select" /\ owner'[r] = owner[t]
          /\ UNCHANGED <<users, answer, committed>>
          /\ lockedOut' \subseteq lockedOut \cup {r}
          /\ users[owner[t]] = "active" => r \notin lockedOut'
      BY <1>1, <3>1, NamesAssumption DEF TypeOK, Tokens
    <3>5. answer[r] # "ok"
      BY DEF AnswerInv
    <3> HIDE DEF Present, Goto
    <3>6. users[owner[t]] # "active" => TurnedAway(r)'
      BY <3>1, <3>3, <3>4, <3>5 DEF TurnedAway
    <3> QED
      BY <3>2, <3>4, <3>6 DEF LockedOutInv
  <2> QED
    BY <1>2, <2>1, <2>2, <2>3 DEF Client
<1>3. ASSUME NEW r \in Requests, Advance(r) PROVE LockedOutInv'
  <2>1. CASE ReadToken(r)
    BY <1>1, <2>1, LeaveLockedOutInv, GotoLockedOutInv DEF ReadToken
  <2>2. CASE ReadUser(r)
    BY <1>1, <2>2, LeaveLockedOutInv, GotoLockedOutInv DEF ReadUser, TurnedAway
  <2>3. CASE Revoke(r) \/ BeginCleanup(r)
    BY <1>1, <2>3, LeaveLockedOutInv, GotoLockedOutInv
    DEF Revoke, BeginCleanup, TurnedAway
  <2>4. ASSUME NEW t \in Tokens, CleanupRow(r, t) PROVE LockedOutInv'
    BY <2>4 DEF CleanupRow, LockedOutInv, TurnedAway
  <2>5. CASE EndCleanup(r) \/ Insert(r) \/ BreakDeadlock(r)
    BY <1>1, <2>5, LeaveLockedOutInv, GotoLockedOutInv
    DEF EndCleanup, Insert, BreakDeadlock, TurnedAway
  <2>6. CASE Respond(r) \/ Commit(r)
    <3>1. r \notin lockedOut
      BY <2>6 DEF Respond, Commit, LockedOutInv, TurnedAway
    <3> QED
      BY <1>1, <2>6, <3>1
      DEF Respond, Commit, Goto, LockedOutInv, TurnedAway, TypeOK
  <2> QED
    BY <1>3, <2>1, <2>2, <2>3, <2>4, <2>5, <2>6 DEF Advance
<1>4. ASSUME NEW r \in Requests, Fail(r) \/ Abandon(r) PROVE LockedOutInv'
  BY <1>1, <1>4, LeaveLockedOutInv DEF Fail, Abandon
<1>5. CASE Staff
  <2>1. ASSUME NEW u \in Users, NEW s \in {"active", "inactive"}, SetActive(u, s)
        PROVE  LockedOutInv'
    BY <1>1, <2>1 DEF SetActive, LockedOutInv, TurnedAway, TypeOK
  <2>2. ASSUME NEW u \in Users, DeleteUser(u) PROVE LockedOutInv'
    BY <1>1, <2>2 DEF DeleteUser, LockedOutInv, TurnedAway, TypeOK
  <2>3. ASSUME NEW t \in Tokens, DeleteToken(t) PROVE LockedOutInv'
    BY <2>3 DEF DeleteToken, LockedOutInv, TurnedAway
  <2> QED
    BY <1>5, <2>1, <2>2, <2>3 DEF Staff
<1>6. CASE Tick \/ UNCHANGED vars
  BY <1>6 DEF Tick, vars, LockedOutInv, TurnedAway
<1> QED
  BY <1>2, <1>3, <1>4, <1>5, <1>6 DEF Next

\* While an account is inactive or deleted, no refresh sent in that time ever
\* gets a pair, however its statements interleave with staff.
THEOREM UnavailableStaysOut == Spec => []UnavailableLocksOut
<1>1. Init => AnswerInv /\ LockedOutInv
  BY DEF Init, AnswerInv, LockedOutInv
<1>2. LockedOutInv => UnavailableLocksOut
  BY DEF LockedOutInv, TurnedAway, UnavailableLocksOut
<1>3. Spec => []AnswerInv
  BY <1>1, NextAnswerInv, TypeCorrect, PTL DEF Spec
<1> QED
  BY <1>1, <1>2, <1>3, NextLockedOutInv, OwnersKnown, RotationInvariant, PTL DEF Spec
==============================================================================
