---------------------------- MODULE AccountsProofs ----------------------------
(***************************************************************************)
(* Theorems about Accounts, for every set of addresses, spellings, accounts*)
(* and registrations, either order of response and COMMIT, with or without *)
(* faults.                                                                 *)
(***************************************************************************)
EXTENDS Accounts, TLAPS

Answers == {"none", "created", "conflict", "error"}

LEMMA InitAccountsTypeOK == Init => TypeOK
<1> SUFFICES ASSUME Init PROVE TypeOK
  OBVIOUS
<1> USE DEF Init
<1>1. PICK f \in [Existing -> Emails] :
        email = [a \in Accounts |-> IF a \in Existing THEN f[a] ELSE NoEmail]
  OBVIOUS
<1>2. email \in [Accounts -> Emails \cup {NoEmail}]
  BY <1>1
<1> QED
  BY <1>2 DEF TypeOK

LEMMA LeaveAccountsTypeOK ==
  ASSUME TypeOK, NEW r \in Requests, NEW a \in Answers, Leave(r, a)
  PROVE  TypeOK'
BY DEF TypeOK, Leave, Goto, Answers

LEMMA NextAccountsTypeOK == TypeOK /\ [Next]_vars => TypeOK'
<1> SUFFICES ASSUME TypeOK, [Next]_vars PROVE TypeOK'
  OBVIOUS
<1> USE DEF InFlight, Answers
<1>1. ASSUME NEW r \in Requests, NEW e \in Emails, Register(r, e) PROVE TypeOK'
  BY <1>1 DEF Register, Goto, TypeOK
<1>2. ASSUME NEW r \in Requests, Lookup(r) PROVE TypeOK'
  <2>1. CASE Matches(asked[r]) = {} /\ Goto(r, "insert")
    BY <1>2, <2>1 DEF Lookup, Goto, Leave, TypeOK
  <2>2. CASE Leave(r, "conflict") \/ Leave(r, "error")
    BY <2>2, LeaveAccountsTypeOK
  <2> QED
    BY <1>2, <2>1, <2>2 DEF Lookup
<1>3. ASSUME NEW r \in Requests, Insert(r) PROVE TypeOK'
  <2>1. CASE TakenKey(asked[r], r)
    BY <1>3, <2>1, LeaveAccountsTypeOK DEF Insert
  <2>2. CASE ~TakenKey(asked[r], r)
    BY <1>3, <2>2 DEF Insert, Goto, TypeOK
  <2> QED
    BY <2>1, <2>2
<1>4. ASSUME NEW r \in Requests, Publish(r) \/ Respond(r) PROVE TypeOK'
  BY <1>4 DEF Publish, Respond, Goto, TypeOK
<1>5. ASSUME NEW r \in Requests, Commit(r) PROVE TypeOK'
  BY <1>5 DEF Commit, Goto, TypeOK, Accounts
<1>6. ASSUME NEW r \in Requests, Fail(r) \/ Abandon(r) PROVE TypeOK'
  <2>1. answer[r] \in Answers
    BY DEF TypeOK
  <2> QED
    BY <1>6, <2>1, LeaveAccountsTypeOK DEF Fail, Abandon
<1>7. CASE Staff
  BY <1>7 DEF Staff, Rename, Delete, Untouched, TypeOK
<1>8. CASE UNCHANGED vars
  BY <1>8 DEF vars, TypeOK
<1> QED
  BY <1>1, <1>2, <1>3, <1>4, <1>5, <1>6, <1>7, <1>8 DEF Next, Advance

\* Every variable of Accounts keeps its type.
THEOREM AccountsTypeCorrect == Spec => []TypeOK
BY InitAccountsTypeOK, NextAccountsTypeOK, PTL DEF Spec

------------------------------------------------------------------------------
(* The inductive invariant.  The properties are not inductive on their own:*)
(* a registration between INSERT and COMMIT already owns its key.          *)

\* Where a registration stands says what it has written, counted, announced.
Order ==
  \A r \in Requests :
    /\ pc[r] = "idle" => answer[r] = "none"
    /\ r \in committed => /\ pc[r] \in {"respond", "done"}
                          /\ pc[r] = "respond" => ~RespondBeforeCommit
    /\ Stored(r) => r \in committed
    /\ pc[r] \in InFlight => asked[r] \in Emails
    /\ pc[r] \in {"publish", "respond", "commit"} => r \in counted
    /\ pc[r] \in {"respond", "commit"} => r \in announced

\* A key belongs to one account, stored or being inserted.
Keys ==
  /\ OnePerSpelling
  /\ \A q \in Requests : Inserted(q) => ~TakenKey(asked[q], q) /\ ~PendingKey(asked[q], q)

\* A late registration still has its lookup to do, which will find the owner,
\* or is over without an account.
LateInv ==
  \A r \in late :
    /\ pc[r] \in {"lookup", "done"}
    /\ answer[r] # "created" /\ r \notin committed
    /\ pc[r] = "lookup" => Matches(asked[r]) # {}

AccountsInv == TypeOK /\ Order /\ StoredIsAnnounced /\ Keys /\ LateInv

LEMMA InitAccountsInv == Init => AccountsInv
<1> SUFFICES ASSUME Init PROVE AccountsInv
  OBVIOUS
<1>1. TypeOK
  BY InitAccountsTypeOK
<1>2. PICK f \in [Existing -> Emails] :
        /\ \A a, b \in Existing : Lower(f[a]) = Lower(f[b]) => a = b
        /\ email = [a \in Accounts |-> IF a \in Existing THEN f[a] ELSE NoEmail]
  BY DEF Init
<1>3. \A r \in Requests : ~Stored(r)
  BY <1>2, AccountNamesAssumption DEF Stored, Accounts
<1>4. Order /\ StoredIsAnnounced /\ LateInv
  BY <1>3 DEF Init, Order, StoredIsAnnounced, LateInv, InFlight
<1>5. \A a, b \in Accounts : Stored(a) /\ email[a] = email[b] => a = b
  BY <1>2 DEF Stored
<1>6. Keys
  BY <1>5 DEF Init, Keys, OnePerSpelling, Inserted
<1> QED
  BY <1>1, <1>4, <1>6 DEF AccountsInv

LEMMA LeaveAccountsInv ==
  ASSUME AccountsInv, TypeOK', NEW r \in Requests, NEW a \in Answers, Leave(r, a),
         a = "created" => answer[r] = "created"
  PROVE  AccountsInv'
<1> USE DEF AccountsInv, Leave, Goto
<1>1. Order'
  BY DEF Order, TypeOK, Stored, InFlight
<1>2. StoredIsAnnounced'
  BY DEF StoredIsAnnounced
<1>3. \A q \in Requests : Inserted(q)' => Inserted(q)
  BY DEF Inserted, TypeOK
<1>4. Keys'
  BY <1>3 DEF Keys, OnePerSpelling, TakenKey, PendingKey, Stored
<1>5. LateInv'
  BY DEF LateInv, TypeOK, Matches, Stored
<1> QED
  BY <1>1, <1>2, <1>4, <1>5

\* A step of a request that inserts, stores and answers nothing new.
LEMMA ForwardAccountsInv ==
  ASSUME AccountsInv, TypeOK', NEW r \in Requests, r \notin late,
         Publish(r) \/ Respond(r)
  PROVE  AccountsInv'
<1> USE DEF AccountsInv, Publish, Respond, Goto
<1>1. Order'
  BY DEF Order, TypeOK, Stored, InFlight
<1>2. StoredIsAnnounced'
  BY DEF StoredIsAnnounced
<1>3. \A q \in Requests : Inserted(q)' => Inserted(q)
  BY DEF Inserted, TypeOK, Order
<1>4. Keys'
  BY <1>3 DEF Keys, OnePerSpelling, TakenKey, PendingKey, Stored
<1>5. LateInv'
  BY DEF LateInv, TypeOK, Matches, Stored
<1> QED
  BY <1>1, <1>2, <1>4, <1>5

LEMMA InsertAccountsInv ==
  ASSUME AccountsInv, TypeOK', NEW r \in Requests, Insert(r)
  PROVE  AccountsInv'
<1>1. CASE TakenKey(asked[r], r)
  BY <1>1, LeaveAccountsInv DEF Insert, Answers
<1>2. CASE ~TakenKey(asked[r], r)
  <2> USE <1>2 DEF AccountsInv, Insert, Goto
  <2>1. Order'
    BY DEF Order, TypeOK, Stored, InFlight
  <2>2. StoredIsAnnounced'
    BY DEF StoredIsAnnounced
  <2>3. \A q \in Requests \ {r} : Inserted(q)' <=> Inserted(q)
    BY DEF Inserted, TypeOK
  <2>4. ~PendingKey(asked[r], r)
    OBVIOUS
  <2>5. ASSUME NEW q \in Requests, Inserted(q)'
        PROVE  (~TakenKey(asked[q], q))' /\ (~PendingKey(asked[q], q))'
    BY <2>3, <2>4, <2>5 DEF Keys, TakenKey, PendingKey
  <2>6. Keys'
    BY <2>5 DEF Keys, OnePerSpelling, Stored
  <2>7. LateInv'
    BY DEF LateInv, TypeOK, Matches, Stored
  <2> QED
    BY <2>1, <2>2, <2>6, <2>7
<1> QED
  BY <1>1, <1>2

LEMMA CommitAccountsInv ==
  ASSUME AccountsInv, TypeOK', NEW r \in Requests, Commit(r)
  PROVE  AccountsInv'
<1> USE DEF AccountsInv, Commit, Goto
<1>1. Inserted(r) /\ ~Stored(r) /\ asked[r] \in Emails /\ r \in Accounts
  BY DEF Inserted, Order, InFlight, Accounts
<1>2. \A a \in Accounts \ {r} : email'[a] = email[a]
  BY DEF TypeOK
<1>3. email'[r] = asked[r] /\ asked[r] # NoEmail
  BY <1>1, AccountNamesAssumption DEF TypeOK
<1>4. Order'
  BY <1>2 DEF Order, TypeOK, Stored, InFlight, Accounts
<1>5. StoredIsAnnounced'
  BY DEF StoredIsAnnounced, Order
<1>6. \A q \in Requests : Inserted(q)' => Inserted(q) /\ q # r
  BY DEF Inserted, TypeOK
<1>7. ~TakenKey(asked[r], r) /\ ~PendingKey(asked[r], r)
  BY <1>1 DEF Keys
<1>8. OnePerSpelling'
  BY <1>2, <1>3, <1>7 DEF Keys, OnePerSpelling, Stored, TakenKey
<1>9. ASSUME NEW q \in Requests, Inserted(q)'
      PROVE  (~TakenKey(asked[q], q))' /\ (~PendingKey(asked[q], q))'
  <2>1. Inserted(q) /\ q # r /\ asked[q] # asked[r]
    BY <1>6, <1>7, <1>9 DEF PendingKey
  <2>2. ~TakenKey(asked[q], q) /\ ~PendingKey(asked[q], q)
    BY <2>1 DEF Keys
  <2> QED
    BY <1>2, <1>3, <1>6, <2>1, <2>2 DEF TakenKey, PendingKey
<1>10. Keys'
  BY <1>8, <1>9 DEF Keys
<1>11. ASSUME NEW q \in Requests, Matches(asked[q]) # {}
       PROVE  Matches(asked[q])' # {}
  BY <1>1, <1>2, <1>11 DEF Matches, Stored
<1>12. LateInv'
  BY <1>11 DEF LateInv, TypeOK
<1> QED
  BY <1>4, <1>5, <1>10, <1>12

LEMMA RegisterAccountsInv ==
  ASSUME AccountsInv, TypeOK', NEW r \in Requests, NEW e \in Emails, Register(r, e)
  PROVE  AccountsInv'
<1> USE DEF AccountsInv, Register, Goto
<1>1. Order'
  BY DEF Order, TypeOK, Stored, InFlight
<1>2. StoredIsAnnounced'
  BY DEF StoredIsAnnounced
<1>3. \A q \in Requests : Inserted(q)' => Inserted(q) /\ q # r
  BY DEF Inserted, TypeOK
<1>4. \A q \in Requests \ {r} : asked'[q] = asked[q]
  BY DEF TypeOK
<1>5. Keys'
  BY <1>3, <1>4 DEF Keys, OnePerSpelling, TakenKey, PendingKey, Stored
<1>6. r \notin late /\ answer[r] = "none" /\ r \notin committed
  BY DEF LateInv, Order
<1>7. ASSUME r \in late' PROVE Matches(asked[r])' # {}
  <2>1. PICK a \in Accounts : Stored(a) /\ Lower(email[a]) = Lower(e)
    BY <1>6, <1>7
  <2>2. asked'[r] = e
    BY DEF TypeOK
  <2> QED
    BY <2>1, <2>2 DEF Matches, Stored
<1>8. ASSUME NEW q \in late', q # r
      PROVE  /\ q \in late /\ pc'[q] = pc[q] /\ asked'[q] = asked[q]
             /\ Matches(asked[q])' = Matches(asked[q])
  BY <1>8 DEF TypeOK, Matches, Stored
<1>9. LateInv'
  BY <1>6, <1>7, <1>8 DEF LateInv, TypeOK
<1> QED
  BY <1>1, <1>2, <1>5, <1>9

LEMMA LookupAccountsInv ==
  ASSUME AccountsInv, TypeOK', NEW r \in Requests, Lookup(r)
  PROVE  AccountsInv'
<1>1. CASE Leave(r, "conflict") \/ Leave(r, "error")
  BY <1>1, LeaveAccountsInv DEF Answers
<1>2. CASE Matches(asked[r]) = {} /\ Goto(r, "insert")
           /\ UNCHANGED <<email, asked, answer, committed, counted, announced, late>>
  <2> USE <1>2 DEF AccountsInv, Lookup, Goto
  <2>1. Order' /\ StoredIsAnnounced'
    BY DEF Order, StoredIsAnnounced, TypeOK, Stored, InFlight
  <2>2. \A q \in Requests : Inserted(q)' => Inserted(q)
    BY DEF Inserted, TypeOK
  <2>3. Keys'
    BY <2>2 DEF Keys, OnePerSpelling, TakenKey, PendingKey, Stored
  <2>4. LateInv'
    BY DEF LateInv, TypeOK, Matches, Stored
  <2> QED
    BY <2>1, <2>3, <2>4
<1> QED
  BY <1>1, <1>2 DEF Lookup

LEMMA StaffAccountsInv ==
  ASSUME AccountsInv, TypeOK', Staff
  PROVE  AccountsInv'
<1>1. PICK a \in Accounts, e \in Emails \cup {NoEmail} :
        /\ Stored(a) /\ email' = [email EXCEPT ![a] = e] /\ Untouched(a)
        /\ e # NoEmail => ~TakenKey(e, a) /\ ~PendingKey(e, a)
        /\ UNCHANGED <<asked, pc, answer, committed, counted, announced>>
  BY DEF Staff, Rename, Delete
<1> USE <1>1 DEF AccountsInv
<1>2. email'[a] = e /\ \A b \in Accounts \ {a} : email'[b] = email[b]
  BY DEF TypeOK
<1>3. \A b \in Accounts : Stored(b)' => Stored(b)
  BY <1>2 DEF Stored
<1>4. Order' /\ StoredIsAnnounced'
  BY <1>3 DEF Order, StoredIsAnnounced, Accounts
<1>5. \A q \in Requests : Inserted(q)' = Inserted(q)
  BY DEF Inserted
<1>6. OnePerSpelling'
  BY <1>2 DEF Keys, OnePerSpelling, Stored, TakenKey
<1>7. ASSUME NEW q \in Requests, Inserted(q)'
      PROVE  (~TakenKey(asked[q], q))' /\ (~PendingKey(asked[q], q))'
  <2>1. q # a
    BY <1>5, <1>7 DEF Order, Inserted
  <2>2. asked[q] # e
    BY <1>5, <1>7, <2>1, AccountNamesAssumption DEF PendingKey, Inserted, Order, InFlight
  <2> QED
    BY <1>2, <1>5, <1>7, <2>2 DEF Keys, TakenKey, PendingKey
<1>8. Keys'
  BY <1>6, <1>7 DEF Keys
<1>9. ASSUME NEW r \in late', Matches(asked[r]) # {}
      PROVE  Matches(asked[r])' # {}
  <2>1. PICK b \in Accounts : Stored(b) /\ Lower(email[b]) = Lower(asked[r])
    BY <1>9 DEF Matches
  <2>2. b # a
    BY <1>9, <2>1 DEF Untouched
  <2> QED
    BY <1>2, <2>1, <2>2 DEF Matches, Stored
<1>10. LateInv'
  BY <1>9 DEF LateInv, Untouched
<1> QED
  BY <1>4, <1>8, <1>10

LEMMA NextAccountsInv == AccountsInv /\ TypeOK' /\ [Next]_vars => AccountsInv'
<1> SUFFICES ASSUME AccountsInv, TypeOK', [Next]_vars PROVE AccountsInv'
  OBVIOUS
<1>1. ASSUME NEW r \in Requests, Publish(r) \/ Respond(r) PROVE AccountsInv'
  <2>1. r \notin late
    BY <1>1 DEF AccountsInv, LateInv, Publish, Respond
  <2> QED
    BY <1>1, <2>1, ForwardAccountsInv
<1>2. ASSUME NEW r \in Requests, Fail(r) \/ Abandon(r) PROVE AccountsInv'
  <2>1. answer[r] \in Answers
    BY DEF AccountsInv, TypeOK, Answers
  <2> QED
    BY <1>2, <2>1, LeaveAccountsInv DEF Fail, Abandon, Answers
<1>3. CASE UNCHANGED vars
  BY <1>3 DEF vars, AccountsInv, Order, StoredIsAnnounced, Keys, OnePerSpelling,
     LateInv, TakenKey, PendingKey, Inserted, Stored, Matches
<1> QED
  BY <1>1, <1>2, <1>3, RegisterAccountsInv, LookupAccountsInv, InsertAccountsInv,
     CommitAccountsInv, StaffAccountsInv DEF Next, Advance

\* The inductive invariant behind the theorems below.
THEOREM AccountsInvariant == Spec => []AccountsInv
BY InitAccountsInv, NextAccountsInv, AccountsTypeCorrect, PTL DEF Spec

\* No interleaving of registrations, rollbacks and staff edits leaves two
\* accounts with the same spelling.
THEOREM SpellingsAreUnique == Spec => []OnePerSpelling
<1>1. AccountsInv => OnePerSpelling
  BY DEF AccountsInv, Keys
<1> QED
  BY <1>1, AccountsInvariant, PTL

\* A registration sent for an address somebody owns never creates an account,
\* in any spelling, with any number of concurrent registrations.
THEOREM LateDuplicatesAreRefused == Spec => []LateDuplicateRefused
<1>1. AccountsInv => LateDuplicateRefused
  BY DEF AccountsInv, LateInv, LateDuplicateRefused
<1> QED
  BY <1>1, AccountsInvariant, PTL

\* Whatever a registration stored was counted and announced.
THEOREM StoredAccountsAreAnnounced == Spec => []StoredIsAnnounced
<1>1. AccountsInv => StoredIsAnnounced
  BY DEF AccountsInv
<1> QED
  BY <1>1, AccountsInvariant, PTL

\* No registration, rollback or crash takes an address away from an account.
THEOREM AccountsAreStable == Spec => OnlyStaffChangeAccounts
<1>1. ASSUME AccountsInv, TypeOK', [Next]_vars, ~Staff
      PROVE  \A a \in Accounts : Stored(a) => email'[a] = email[a]
  <2>1. ASSUME NEW r \in Requests, Commit(r)
        PROVE  \A a \in Accounts : Stored(a) => email'[a] = email[a]
    <3>1. ~Stored(r)
      BY <1>1, <2>1 DEF Commit, AccountsInv, Order
    <3> QED
      BY <1>1, <2>1, <3>1 DEF Commit, AccountsInv, TypeOK
  <2>2. ASSUME NEW r \in Requests, Lookup(r) \/ Insert(r) \/ Publish(r) \/ Respond(r)
                                     \/ Fail(r) \/ Abandon(r)
        PROVE  email' = email
    BY <2>2 DEF Lookup, Insert, Publish, Respond, Fail, Abandon, Leave
  <2>3. ASSUME NEW r \in Requests, NEW e \in Emails, Register(r, e)
        PROVE  email' = email
    BY <2>3 DEF Register
  <2> QED
    BY <1>1, <2>1, <2>2, <2>3 DEF Next, Advance, vars
<1>2. AccountsInv /\ TypeOK' /\ [Next]_vars =>
        [\A a \in Accounts : Stored(a) /\ email'[a] # email[a] => Staff]_vars
  BY <1>1
<1> QED
  BY <1>2, AccountsInvariant, AccountsTypeCorrect, PTL
  DEF Spec, OnlyStaffChangeAccounts
==============================================================================
