--------------------------- MODULE DirectoryProofs ---------------------------
(***************************************************************************)
(* Proofs about Pagination and Directory, for any accounts, clients, staff *)
(* and page size.                                                          *)
(*                                                                         *)
(* Rights follow from RightsInv: a request past its account check was      *)
(* entitled at the moment of the check.  The two promises about a walk     *)
(* follow from WalkInv, which bounds the place in the list of every        *)
(* account that is still to be listed from below, and of every account     *)
(* that was listed from above, by the rows the pages so far stand for.     *)
(***************************************************************************)
EXTENDS Directory, FiniteSetTheorems, TLAPS

------------------------------------------------------------------------------
(* Pages.                                                                  *)

\* has_next says exactly whether rows are left beyond this page
\* (Page.build, to_pagination).
THEOREM HasNextIsExact ==
  ASSUME NEW p \in Nat \ {0}, NEW t \in Nat
  PROVE  HasNext(p, t) <=> p * PageSize < t
<1> DEFINE q == TotalPages(t)
<1>1. PageSize \in Nat \ {0}
  BY PageSizeAssumption
<1>2. q \in Nat /\ q * PageSize <= t + PageSize - 1 /\ t + PageSize - 1 < q * PageSize + PageSize
  BY <1>1 DEF TotalPages
<1> HIDE DEF q
<1>3. CASE p < q
  <2>1. PICK k \in Nat : q = p + 1 + k
    <3>1. q - (p + 1) \in Nat /\ q = p + 1 + (q - (p + 1))
      BY <1>2, <1>3
    <3> QED
      BY <3>1
  <2>2. q * PageSize = p * PageSize + PageSize + k * PageSize
    BY <1>1, <2>1
  <2>3. k * PageSize \in Nat /\ p * PageSize \in Nat
    BY <1>1, <2>1
  <2> QED
    BY <1>1, <1>2, <1>3, <2>2, <2>3 DEF HasNext, q
<1>4. CASE ~(p < q)
  <2>1. PICK k \in Nat : p = q + k
    <3>1. p - q \in Nat /\ p = q + (p - q)
      BY <1>2, <1>4
    <3> QED
      BY <3>1
  <2>2. p * PageSize = q * PageSize + k * PageSize
    BY <1>1, <1>2, <2>1
  <2>3. k * PageSize \in Nat /\ q * PageSize \in Nat
    BY <1>1, <1>2, <2>1
  <2> QED
    BY <1>1, <1>2, <1>4, <2>2, <2>3 DEF HasNext, q
<1> QED
  BY <1>3, <1>4

\* A rank is a positive number no greater than the number of rows.
LEMMA RankRange ==
  ASSUME NEW A \in SUBSET Accounts, NEW u \in A
  PROVE  /\ Cardinality(A) \in Nat
         /\ Rank(A, u) \in Nat \ {0}
         /\ Rank(A, u) <= Cardinality(A)
<1> DEFINE S == {v \in A : v >= u}
<1>1. IsFiniteSet(A) /\ Cardinality(A) \in Nat
  BY FS_Subset, FS_CardinalityType, DirectoryAssumption
<1>2. IsFiniteSet(S) /\ Cardinality(S) \in Nat /\ Cardinality(S) <= Cardinality(A)
  BY <1>1, FS_Subset, FS_CardinalityType
<1>3. u \in S
  BY DirectoryAssumption
<1>4. Cardinality(S) # 0
  BY <1>2, <1>3, FS_EmptySet
<1> QED
  BY <1>1, <1>2, <1>4 DEF Rank

\* Without a younger row that goes, no row moves towards the front; without one
\* that comes, none moves towards the end.
LEMMA RankGrows ==
  ASSUME NEW A \in SUBSET Accounts, NEW B \in SUBSET Accounts, NEW u \in A \cap B,
         \A v \in A \ B : v <= u
  PROVE  Rank(A, u) <= Rank(B, u)
<1> DEFINE S == {v \in A : v >= u}
           T == {v \in B : v >= u}
<1>1. ASSUME NEW v \in A, v >= u PROVE v \in B
  <2>1. v \in Nat /\ u \in Nat
    BY DirectoryAssumption
  <2>2. v \notin B => v <= u
    OBVIOUS
  <2> QED
    BY <1>1, <2>1, <2>2
<1>2. IsFiniteSet(T)
  BY FS_Subset, DirectoryAssumption
<1>3. Cardinality(S) <= Cardinality(T)
  BY <1>1, <1>2, FS_Subset, S \subseteq T
<1> QED
  BY <1>3 DEF Rank

------------------------------------------------------------------------------
(* Types.                                                                  *)

LEMMA NobodyIsNoAccount == Nobody \notin Accounts
  BY DirectoryAssumption DEF Nobody

LEMMA ClientsAreDisjoint ==
  ASSUME NEW x \in Clients
  PROVE  x \in Browsers <=> x \notin Callers
  BY DirectoryAssumption DEF Clients

\* A page and what it adds to a walk are sets of accounts.
LEMMA PageIsRows == \A p : Page(Rows, p) \subseteq Rows
  BY DEF Page

LEMMA TypeInit == Init => TypeOK
<1> SUFFICES ASSUME Init PROVE TypeOK
  OBVIOUS
<1>1. None \in [Callers -> SUBSET Accounts]
  BY DEF None
<1>2. supers \subseteq Rows
  BY DirectoryAssumption DEF Init, Rows
<1> QED
  BY <1>1, <1>2 DEF Init, TypeOK

LEMMA WitnessedTypes ==
  ASSUME TypeOK, Witnessed
  PROVE  /\ entitled' \subseteq Clients
         /\ \A H \in {stayed', appeared', since', left', listed', repeated'} :
              H \in [Callers -> SUBSET Accounts]
<1>1. Rows \subseteq Accounts /\ Rows' \subseteq Accounts
  BY DEF Rows
<1>2. \A H \in {stayed, appeared, since, left, listed, repeated} :
        H \in [Callers -> SUBSET Accounts]
  BY DEF TypeOK
<1>3. /\ stayed' \in [Callers -> SUBSET Accounts]
      /\ appeared' \in [Callers -> SUBSET Accounts]
      /\ since' \in [Callers -> SUBSET Accounts]
      /\ left' \in [Callers -> SUBSET Accounts]
  BY <1>1, <1>2 DEF Witnessed
<1> QED
  BY <1>2, <1>3 DEF Witnessed

LEMMA TypeStep == TypeOK /\ [Next]_vars => TypeOK'
<1> SUFFICES ASSUME TypeOK, [Next]_vars PROVE TypeOK'
  OBVIOUS
<1> USE DEF Goto
<1>1. ASSUME NEW c \in Callers, NEW u \in Accounts, NEW k \in {"me", "get", "list"},
             NEW t \in Accounts \cup {Nobody}, Send(c, k, u, t)
      PROVE  TypeOK'
  <2>1. c \in Clients /\ Rows \subseteq Accounts
    BY DEF Clients, Rows
  <2>2. stayed' \in [Callers -> SUBSET Accounts]
    BY <1>1, <2>1 DEF Send, TypeOK
  <2> QED
    BY <1>1, <2>1, <2>2 DEF Send, Sent, TypeOK, Rows
<1>2. ASSUME NEW c \in Callers, Reject(c) \/ Forbid(c) \/ Me(c) \/ Get(c)
      PROVE  TypeOK'
  BY <1>2 DEF Reject, Forbid, Me, Get, Answer, TypeOK, Clients, Rows, walkVars
<1>3. ASSUME NEW c \in Callers, Authorize(c)
      PROVE  TypeOK'
  BY <1>3 DEF Authorize, TypeOK, Clients, Rows, walkVars
<1>4. ASSUME NEW c \in Callers, Count(c)
      PROVE  TypeOK'
  <2>1. IsFiniteSet(Rows) /\ Cardinality(Rows) \in Nat
    BY FS_Subset, FS_CardinalityType, DirectoryAssumption DEF Rows
  <2> QED
    BY <1>4, <2>1 DEF Count, TypeOK, Clients, Rows
<1>5. ASSUME NEW c \in Callers, ListPage(c)
      PROVE  TypeOK'
  <2>1. Page(Rows, page[c]) \subseteq Accounts
    BY DEF Page, Rows
  <2>2. /\ listed' \in [Callers -> SUBSET Accounts]
        /\ repeated' \in [Callers -> SUBSET Accounts]
    BY <1>5, <2>1 DEF ListPage, TypeOK
  <2> QED
    BY <1>5, <2>2 DEF ListPage, TypeOK, Clients, Rows
<1>6. ASSUME NEW c \in Callers, Turn(c)
      PROVE  TypeOK'
  BY <1>6 DEF Turn, Sent, TypeOK, Clients, Rows, walkVars
<1>7. ASSUME NEW b \in Browsers, Post(b) \/ Authenticate(b) \/ SignOut(b)
      PROVE  TypeOK'
  BY <1>7 DEF Post, Authenticate, SignOut, Sent, TypeOK, Clients, Rows, walkVars
<1>8. ASSUME NEW b \in Browsers, NEW u \in Accounts, SignIn(b, u)
      PROVE  TypeOK'
  BY <1>8 DEF SignIn, TypeOK, Clients, Rows, walkVars
<1>9. ASSUME NEW b \in Browsers, NEW e \in Edits, Edit(b, e)
      PROVE  TypeOK'
  <2>1. /\ entitled' \subseteq Clients
        /\ \A H \in {stayed', appeared', since', left', listed', repeated'} :
             H \in [Callers -> SUBSET Accounts]
    BY <1>9, WitnessedTypes DEF Edit
  <2>2. /\ status' \in [Accounts -> {"future", "active", "inactive", "deleted"}]
        /\ supers' \subseteq Rows'
    <3>1. CASE e.of \in Rows
      <4>1. /\ e.of \in Accounts /\ e.status \in {"active", "inactive", "deleted"}
            /\ status' = [status EXCEPT ![e.of] = e.status]
        BY <1>9, <3>1, DirectoryAssumption DEF Edit, Edits
      <4>2. \A v \in supers \ {e.of} : v \in Rows'
        BY <4>1 DEF TypeOK, Rows
      <4>3. e.status # "deleted" => e.of \in Rows'
        BY <4>1 DEF TypeOK, Rows
      <4>4. supers' = supers \ {e.of} \/ (supers' = supers \cup {e.of} /\ e.status # "deleted")
        BY <1>9, <3>1 DEF Edit
      <4>5. supers' \subseteq Rows'
        BY <4>2, <4>3, <4>4
      <4> QED
        BY <4>1, <4>5 DEF TypeOK
    <3>2. CASE e.of \notin Rows
      BY <1>9, <3>2 DEF Edit, TypeOK, Rows
    <3> QED
      BY <3>1, <3>2
  <2> QED
    BY <1>9, <2>1, <2>2 DEF Edit, TypeOK, Clients
<1>10. ASSUME NEW S \in SUBSET Accounts, Appear(S)
       PROVE  TypeOK'
  <2>1. /\ entitled' \subseteq Clients
        /\ \A H \in {stayed', appeared', since', left', listed', repeated'} :
             H \in [Callers -> SUBSET Accounts]
    BY <1>10, WitnessedTypes DEF Appear
  <2>2. /\ status' \in [Accounts -> {"future", "active", "inactive", "deleted"}]
        /\ supers' \subseteq Rows'
    BY <1>10 DEF Appear, TypeOK, Rows
  <2> QED
    BY <1>10, <2>1, <2>2 DEF Appear, TypeOK, requestVars
<1>11. CASE UNCHANGED vars
  BY <1>11 DEF vars, requestVars, walkVars, TypeOK, Rows
<1> QED
  BY <1>1, <1>2, <1>3, <1>4, <1>5, <1>6, <1>7, <1>8, <1>9, <1>10, <1>11 DEF Next, Call

\* Every variable keeps its type.
THEOREM DirectoryTypeCorrect == Spec => []TypeOK
  BY TypeInit, TypeStep, PTL DEF Spec

------------------------------------------------------------------------------
(* Rights.                                                                 *)

\* Where a request stands says what it knows of its user's rights, and an
\* answer is there only when the request is over.
RightsInv ==
  /\ \A c \in Callers :
       /\ pc[c] # "edit"
       /\ pc[c] \in {"idle", "sent", "fetch", "count", "page"} => answer[c] = 0
       /\ pc[c] # "idle" => user[c] \in Accounts
  /\ \A b \in Browsers : pc[b] \in {"idle", "sent", "edit"}
  /\ \A x \in Clients :
       /\ pc[x] = "sent" /\ Entitled(x) => x \in entitled
       /\ pc[x] \in {"fetch", "count", "page", "edit"} => x \in entitled
  /\ OnlyTheEntitled
  /\ OwnRecordIsFound

\* Callers, their calls and accounts all stand still but for x, which has just
\* sent a request.
LEMMA SentRights ==
  ASSUME TypeOK, RightsInv, NEW x \in Clients, Sent(x),
         UNCHANGED <<status, supers>>,
         \A y \in Clients \ {x} : user'[y] = user[y],
         \A y \in Callers \ {x} : /\ call'[y] = call[y] /\ target'[y] = target[y]
                                  /\ answer'[y] = answer[y],
         x \in Callers => answer'[x] = 0 /\ user'[x] \in Accounts
  PROVE  RightsInv'
<1>1. /\ pc'[x] = "sent"
      /\ \A y \in Clients \ {x} : pc'[y] = pc[y]
  BY DEF Sent, Goto, TypeOK
<1>2. /\ Entitled(x)' => x \in entitled'
      /\ \A y \in Clients \ {x} : y \in entitled' <=> y \in entitled
  BY DEF Sent
<1>3. \A y \in Clients \ {x} : Entitled(y)' <=> Entitled(y)
  BY ClientsAreDisjoint DEF Entitled, Rows
<1>4. Callers \subseteq Clients /\ Browsers \subseteq Clients
  BY DEF Clients
<1>5. \A c \in Callers :
        /\ pc'[c] # "edit"
        /\ pc'[c] \in {"idle", "sent", "fetch", "count", "page"} => answer'[c] = 0
        /\ pc'[c] # "idle" => user'[c] \in Accounts
  BY <1>1, <1>4 DEF RightsInv
<1>6. \A b \in Browsers : pc'[b] \in {"idle", "sent", "edit"}
  BY <1>1, <1>4 DEF RightsInv
<1>7. \A y \in Clients :
       /\ pc'[y] = "sent" /\ Entitled(y)' => y \in entitled'
       /\ pc'[y] \in {"fetch", "count", "page", "edit"} => y \in entitled'
  BY <1>1, <1>2, <1>3 DEF RightsInv
<1>8. OnlyTheEntitled'
  BY <1>2, <1>4 DEF RightsInv, OnlyTheEntitled
<1>9. OwnRecordIsFound'
  BY <1>4 DEF RightsInv, OwnRecordIsFound
<1> QED
  BY <1>5, <1>6, <1>7, <1>8, <1>9 DEF RightsInv

\* A caller moves on from its account check with the rights the check saw.
LEMMA CallRights ==
  ASSUME TypeOK, RightsInv, NEW c \in Callers, pc[c] # "idle",
         pc'[c] \in {"fetch", "count", "page", "turn", "done"},
         \A y \in Clients \ {c} : pc'[y] = pc[y],
         \A y \in Callers \ {c} : answer'[y] = answer[y],
         UNCHANGED <<status, supers, user, call, target, entitled>>,
         pc'[c] \in {"fetch", "count", "page"} => c \in entitled /\ answer'[c] = 0,
         answer'[c] = 200 => c \in entitled,
         answer'[c] = 404 => target[c] # user[c]
  PROVE  RightsInv'
<1>1. Callers \subseteq Clients /\ Browsers \subseteq Clients /\ c \notin Browsers
  BY ClientsAreDisjoint DEF Clients
<1>4. \A x \in Clients : Entitled(x)' <=> Entitled(x)
  BY DEF Entitled, Rows
<1>5. \A y \in Callers :
        /\ pc'[y] # "edit"
        /\ pc'[y] \in {"idle", "sent", "fetch", "count", "page"} => answer'[y] = 0
        /\ pc'[y] # "idle" => user'[y] \in Accounts
  BY <1>1 DEF RightsInv
<1>6. \A b \in Browsers : pc'[b] \in {"idle", "sent", "edit"}
  BY <1>1 DEF RightsInv
<1>7. \A x \in Clients :
       /\ pc'[x] = "sent" /\ Entitled(x)' => x \in entitled'
       /\ pc'[x] \in {"fetch", "count", "page", "edit"} => x \in entitled'
  BY <1>4 DEF RightsInv
<1>8. OnlyTheEntitled'
  BY DEF RightsInv, OnlyTheEntitled
<1>9. OwnRecordIsFound'
  BY DEF RightsInv, OwnRecordIsFound
<1> QED
  BY <1>5, <1>6, <1>7, <1>8, <1>9 DEF RightsInv

\* When the accounts change, whoever is entitled now is remembered.
LEMMA WitnessedRights ==
  ASSUME TypeOK, RightsInv, Witnessed,
         UNCHANGED <<user, call, target, answer>>,
         \A c \in Callers : pc'[c] = pc[c],
         \A b \in Browsers : pc'[b] = pc[b] \/ pc'[b] = "idle"
  PROVE  RightsInv'
<1>1. Callers \subseteq Clients /\ Browsers \subseteq Clients /\ Clients = Callers \cup Browsers
  BY DEF Clients
<1>2. \A x \in Clients : pc'[x] = pc[x] \/ pc'[x] = "idle"
  BY <1>1
<1>3. /\ \A x \in Clients : pc'[x] # "idle" /\ x \in entitled => x \in entitled'
      /\ \A x \in Clients : pc'[x] = "sent" /\ pc[x] = "sent" /\ Entitled(x)' => x \in entitled'
  BY DEF Witnessed
<1>4. \A x \in Clients :
       /\ pc'[x] = "sent" /\ Entitled(x)' => x \in entitled'
       /\ pc'[x] \in {"fetch", "count", "page", "edit"} => x \in entitled'
  BY <1>2, <1>3 DEF RightsInv
<1>5. \A c \in Callers :
        /\ pc'[c] # "edit"
        /\ pc'[c] \in {"idle", "sent", "fetch", "count", "page"} => answer'[c] = 0
        /\ pc'[c] # "idle" => user'[c] \in Accounts
  BY DEF RightsInv
<1>6. \A b \in Browsers : pc'[b] \in {"idle", "sent", "edit"}
  BY DEF RightsInv
<1>7. OnlyTheEntitled'
  BY <1>1, <1>3 DEF RightsInv, OnlyTheEntitled
<1>8. OwnRecordIsFound'
  BY DEF RightsInv, OwnRecordIsFound
<1> QED
  BY <1>4, <1>5, <1>6, <1>7, <1>8 DEF RightsInv

LEMMA RightsInit == Init => RightsInv
<1> SUFFICES ASSUME Init PROVE RightsInv
  OBVIOUS
<1> QED
  BY DEF Init, RightsInv, OnlyTheEntitled, OwnRecordIsFound, Clients

LEMMA RightsStep == TypeOK /\ RightsInv /\ [Next]_vars => RightsInv'
<1> SUFFICES ASSUME TypeOK, RightsInv, [Next]_vars PROVE RightsInv'
  OBVIOUS
<1>0. Callers \subseteq Clients /\ Browsers \subseteq Clients
  BY DEF Clients
<1>1. ASSUME NEW c \in Callers, NEW u \in Accounts, NEW k \in {"me", "get", "list"},
             NEW t \in Accounts \cup {Nobody}, Send(c, k, u, t)
      PROVE  RightsInv'
  <2>1. answer'[c] = 0 /\ user'[c] \in Accounts
    BY <1>0, <1>1 DEF Send, RightsInv, TypeOK
  <2> QED
    BY <1>0, <1>1, <2>1, SentRights DEF Send, TypeOK
<1>2. ASSUME NEW c \in Callers, Reject(c) \/ Forbid(c) \/ Me(c) \/ Get(c)
      PROVE  RightsInv'
  <2>1. CASE Me(c)
    <3>1. answer' = [answer EXCEPT ![c] = 200] /\ Answer(c, 200)
      BY <2>1 DEF Me, Answer
    <3>2. Entitled(c) /\ pc[c] = "sent"
      BY <1>0, <2>1, ClientsAreDisjoint DEF Me, Entitled, RightsInv, Rows
    <3>3. c \in entitled
      BY <1>0, <3>2 DEF RightsInv
    <3> QED
      BY <1>0, <2>1, <3>1, <3>3, CallRights DEF Me, Answer, Goto, TypeOK
  <2>2. CASE Get(c)
    <3>1. PICK found \in {200, 404} : Answer(c, found) /\ (found = 404 => target[c] # user[c])
      BY <2>2 DEF Get, Found
    <3>2. c \in entitled
      BY <1>0, <2>2 DEF Get, RightsInv
    <3> QED
      BY <1>0, <2>2, <3>1, <3>2, CallRights DEF Get, Answer, Goto, TypeOK
  <2>3. CASE Reject(c) \/ Forbid(c)
    <3>1. Answer(c, 401) \/ Answer(c, 403)
      BY <2>3 DEF Reject, Forbid
    <3> QED
      BY <1>0, <2>3, <3>1, CallRights DEF Reject, Forbid, Answer, Goto, TypeOK
  <2> QED
    BY <1>2, <2>1, <2>2, <2>3
<1>3. ASSUME NEW c \in Callers, Authorize(c) \/ Count(c)
      PROVE  RightsInv'
  <2>1. /\ \E step \in {"fetch", "count", "page"} : pc' = [pc EXCEPT ![c] = step]
        /\ UNCHANGED <<status, supers, user, call, target, answer, entitled>>
    BY <1>3 DEF Authorize, Count, Goto
  <2>2. Authorize(c) => Entitled(c) /\ pc[c] = "sent"
    BY <1>0, ClientsAreDisjoint DEF Authorize, Entitled
  <2>3. c \in entitled /\ answer[c] = 0
    BY <1>0, <1>3, <2>2 DEF Authorize, Count, RightsInv
  <2> QED
    BY <1>0, <1>3, <2>1, <2>3, CallRights DEF Authorize, Count, TypeOK
<1>4. ASSUME NEW c \in Callers, ListPage(c)
      PROVE  RightsInv'
  <2>1. /\ \E step \in {"turn", "done"} : pc' = [pc EXCEPT ![c] = step]
        /\ UNCHANGED <<status, supers, user, call, target, entitled>>
        /\ answer' = [answer EXCEPT ![c] = 200]
    BY <1>4 DEF ListPage, Goto
  <2>2. c \in entitled
    BY <1>0, <1>4 DEF ListPage, RightsInv
  <2> QED
    BY <1>0, <1>4, <2>1, <2>2, CallRights DEF ListPage, TypeOK
<1>5. ASSUME NEW c \in Callers, Turn(c)
      PROVE  RightsInv'
  <2>1. c \in Clients /\ answer'[c] = 0 /\ user'[c] \in Accounts
    BY <1>0, <1>5 DEF Turn, TypeOK, RightsInv
  <2> QED
    BY <1>0, <1>5, <2>1, SentRights DEF Turn, TypeOK
<1>6. ASSUME NEW b \in Browsers, Post(b)
      PROVE  RightsInv'
  <2>1. b \in Clients /\ b \notin Callers
    BY <1>0, ClientsAreDisjoint
  <2> QED
    BY <1>0, <1>6, <2>1, SentRights DEF Post, TypeOK
<1>7. ASSUME NEW b \in Browsers, Authenticate(b)
      PROVE  RightsInv'
  <2>1. /\ pc' = [pc EXCEPT ![b] = IF user[b] \in supers THEN "edit" ELSE "idle"]
        /\ UNCHANGED <<status, supers, user, call, target, answer, entitled>>
    BY <1>7 DEF Authenticate, Goto
  <2>2. user[b] \in supers => b \in entitled
    BY <1>0, <1>7 DEF Authenticate, RightsInv, Entitled
  <2>3. \A x \in Clients : Entitled(x)' <=> Entitled(x)
    BY <2>1 DEF Entitled, Rows
  <2>4. b \in Clients /\ b \notin Callers
    BY <1>0, ClientsAreDisjoint
  <2> QED
    BY <1>0, <2>1, <2>2, <2>3, <2>4 DEF RightsInv, OnlyTheEntitled, OwnRecordIsFound, TypeOK
<1>8. ASSUME NEW b \in Browsers, SignOut(b) \/ \E u \in Accounts : SignIn(b, u)
      PROVE  RightsInv'
  <2>1. /\ \E v \in Accounts \cup {Nobody} : user' = [user EXCEPT ![b] = v]
        /\ UNCHANGED <<status, supers, pc, call, target, answer, entitled>>
        /\ pc[b] = "idle"
    BY <1>8 DEF SignOut, SignIn
  <2>2. b \in Clients /\ b \notin Callers
    BY <1>0, ClientsAreDisjoint
  <2>3. \A x \in Clients \ {b} : Entitled(x)' <=> Entitled(x)
    BY <2>1 DEF Entitled, Rows, TypeOK
  <2> QED
    BY <1>0, <2>1, <2>2, <2>3 DEF RightsInv, OnlyTheEntitled, OwnRecordIsFound, TypeOK
<1>9. ASSUME NEW b \in Browsers, NEW e \in Edits, Edit(b, e)
      PROVE  RightsInv'
  <2>1. b \in Clients /\ b \notin Callers
    BY <1>0, ClientsAreDisjoint
  <2>2. pc' = [pc EXCEPT ![b] = "idle"] /\ Witnessed /\ UNCHANGED <<user, call, target, answer>>
    BY <1>9 DEF Edit, Goto
  <2>3. /\ \A c \in Callers : pc'[c] = pc[c]
        /\ \A d \in Browsers : pc'[d] = pc[d] \/ pc'[d] = "idle"
    BY <1>0, <2>1, <2>2 DEF TypeOK
  <2> QED
    BY <2>2, <2>3, WitnessedRights
<1>10. ASSUME NEW S \in SUBSET Accounts, Appear(S)
       PROVE  RightsInv'
  <2>1. Witnessed /\ UNCHANGED <<user, pc, call, target, answer>>
    BY <1>10 DEF Appear, requestVars
  <2> QED
    BY <2>1, WitnessedRights
<1>11. CASE UNCHANGED vars
  <2>1. \A x \in Clients : Entitled(x)' <=> Entitled(x)
    BY <1>11 DEF vars, requestVars, Entitled, Rows
  <2> QED
    BY <1>11, <2>1 DEF vars, requestVars, RightsInv, OnlyTheEntitled, OwnRecordIsFound
<1> QED
  BY <1>1, <1>2, <1>3, <1>4, <1>5, <1>6, <1>7, <1>8, <1>9, <1>10, <1>11 DEF Next, Call

LEMMA RightsInvariant == Spec => [](TypeOK /\ RightsInv)
<1>1. Init => TypeOK /\ RightsInv
  BY TypeInit, RightsInit
<1>2. TypeOK /\ RightsInv /\ [Next]_vars => (TypeOK /\ RightsInv)'
  BY TypeStep, RightsStep
<1> QED
  BY <1>1, <1>2, PTL DEF Spec

\* An answer takes the rights, at some moment after the request
\* (get_current_user, require_superuser), whatever staff do meanwhile.
THEOREM AnswersTakeRights == Spec => []OnlyTheEntitled
<1>1. RightsInv => OnlyTheEntitled
  BY DEF RightsInv
<1> QED
  BY <1>1, RightsInvariant, PTL

\* The caller's own record is always found (session.get and its identity map).
THEOREM OwnRecordIsAlwaysFound == Spec => []OwnRecordIsFound
<1>1. RightsInv => OwnRecordIsFound
  BY DEF RightsInv
<1> QED
  BY <1>1, RightsInvariant, PTL

\* Accounts change by the hand of a superuser (AdminAuth.authenticate).
THEOREM EditsTakeRights == Spec => EditorsHaveRights
<1> DEFINE Change(u) == status[u] # status'[u] \/ (u \in supers) # (u \in supers')
           Step == \A u \in Accounts : u \in Rows /\ Change(u)
                     => \E b \in Browsers : pc[b] = "edit" /\ b \in entitled
<1>1. RightsInv /\ [Next]_vars => [Step]_vars
  <2> SUFFICES ASSUME RightsInv, Next PROVE Step
    OBVIOUS
  <2>1. ASSUME UNCHANGED <<status, supers>> PROVE Step
    BY <2>1
  <2>2. ASSUME NEW b \in Browsers, NEW e \in Edits, Edit(b, e) PROVE Step
    <3>1. pc[b] = "edit" /\ b \in entitled
      BY <2>2 DEF Edit, RightsInv, Clients
    <3> QED
      BY <3>1
  <2>3. ASSUME NEW S \in SUBSET Accounts, Appear(S) PROVE Step
    BY <2>3 DEF Appear, Rows
  <2>4. \/ UNCHANGED <<status, supers>>
        \/ \E b \in Browsers, e \in Edits : Edit(b, e)
        \/ \E S \in SUBSET Accounts : Appear(S)
    BY DEF Next, Call, Send, Reject, Forbid, Me, Authorize, Get, Answer, Count, ListPage,
           Turn, Post, Authenticate, SignOut, SignIn
  <2> HIDE DEF Step
  <2> QED
    BY <2>1, <2>2, <2>3, <2>4
<1> QED
  BY <1>1, RightsInvariant, PTL DEF Spec, EditorsHaveRights

------------------------------------------------------------------------------
(* Walks of the list.                                                      *)

Walking(c) == call[c] = "list" /\ pc[c] \in {"sent", "count", "page", "turn"}

\* The rows the pages listed so far stand for.
Passed(c) == IF pc[c] = "turn" THEN page[c] * PageSize ELSE (page[c] - 1) * PageSize

\* Nothing younger than u is in S.
Calm(u, S) == \A v \in S : v <= u

\* What a walk has not listed is still ahead, within what COUNT counted.
Ahead(c) ==
  \A u \in stayed[c] \ listed[c] : Calm(u, left[c]) =>
    /\ Rank(Rows, u) > Passed(c)
    /\ pc[c] = "page" /\ Calm(u, since[c]) => Rank(Rows, u) <= total[c]

\* What it has listed is behind.
Behind(c) ==
  \A u \in listed[c] :
    /\ status[u] # "future"
    /\ u \in Rows /\ Calm(u, appeared[c]) => Rank(Rows, u) <= Passed(c)

\* The invariant of one call.
CallInv(c) ==
  /\ pc[c] \in {"count", "page", "turn"} => call[c] = "list"
  /\ pc[c] = "fetch" => call[c] = "get"
  /\ pc[c] = "idle" => listed[c] = {} /\ repeated[c] = {} /\ page[c] = 1
  /\ Walking(c) => stayed[c] \subseteq Rows /\ Ahead(c) /\ Behind(c)
  /\ pc[c] = "done" /\ call[c] = "list" /\ answer[c] = 200 =>
       \A u \in stayed[c] \ listed[c] : ~Calm(u, left[c] \cup since[c])
  /\ \A u \in repeated[c] : ~Calm(u, appeared[c])

WalkInv == \A c \in Callers : CallInv(c)

LEMMA WalkInit == Init => WalkInv
  BY DEF Init, WalkInv, CallInv, Walking, None, Clients

\* A call that takes no part in a step keeps its invariant.
OthersRest(c) ==
  \A d \in Callers \ {c} :
    /\ pc'[d] = pc[d] /\ call'[d] = call[d] /\ page'[d] = page[d] /\ total'[d] = total[d]
    /\ answer'[d] = answer[d] /\ stayed'[d] = stayed[d] /\ appeared'[d] = appeared[d]
    /\ since'[d] = since[d] /\ left'[d] = left[d] /\ listed'[d] = listed[d]
    /\ repeated'[d] = repeated[d]

LEMMA OthersKeep ==
  ASSUME WalkInv, NEW c \in Clients, OthersRest(c), UNCHANGED status,
         c \in Callers => CallInv(c)'
  PROVE  WalkInv'
<1> SUFFICES ASSUME NEW d \in Callers \ {c} PROVE CallInv(d)'
  BY DEF WalkInv
<1>1. CallInv(d)
  BY DEF WalkInv
<1>2. Rows' = Rows /\ status' = status
  BY DEF Rows
<1>3. /\ pc'[d] = pc[d] /\ call'[d] = call[d] /\ page'[d] = page[d] /\ total'[d] = total[d]
      /\ answer'[d] = answer[d] /\ stayed'[d] = stayed[d] /\ appeared'[d] = appeared[d]
      /\ since'[d] = since[d] /\ left'[d] = left[d] /\ listed'[d] = listed[d]
      /\ repeated'[d] = repeated[d]
  BY DEF OthersRest
<1>4. (Walking(d)' <=> Walking(d)) /\ Passed(d)' = Passed(d)
  BY <1>3 DEF Walking, Passed
<1>5. Ahead(d) => Ahead(d)'
  BY <1>2, <1>3, <1>4 DEF Ahead, Calm, Rank
<1>6. Behind(d) => Behind(d)'
  BY <1>2, <1>3, <1>4 DEF Behind, Calm, Rank
<1> QED
  BY <1>1, <1>2, <1>3, <1>4, <1>5, <1>6 DEF CallInv, Calm

\* When the accounts change, ranks move only as far as the history allows.
LEMMA WitnessedWalk ==
  ASSUME TypeOK, RightsInv, WalkInv, Witnessed,
         UNCHANGED <<call, page, total, answer>>,
         \A c \in Callers : pc'[c] = pc[c],
         \A u \in Accounts : status[u] # "future" => status'[u] # "future",
         \A u \in Rows' \ Rows : status[u] = "future"
  PROVE  WalkInv'
<1> SUFFICES ASSUME NEW c \in Callers PROVE CallInv(c)'
  BY DEF WalkInv
<1>1. CallInv(c)
  BY DEF WalkInv
<1>2. Rows \in SUBSET Accounts /\ Rows' \in SUBSET Accounts
  BY DEF Rows
<1>3. listed' = listed /\ repeated' = repeated
  BY DEF Witnessed
<1>4. CASE Walking(c)
  <2>1. c \in Callers /\ call[c] = "list" /\ pc[c] \notin {"idle", "done"}
    BY <1>4 DEF Walking
  <2>2. /\ stayed'[c] = stayed[c] \cap Rows'
        /\ appeared'[c] = appeared[c] \cup (Rows' \ Rows)
        /\ since'[c] = since[c] \cup (Rows' \ Rows)
        /\ left'[c] = left[c] \cup (Rows \ Rows')
    BY <2>1 DEF Witnessed, TypeOK
  <2>3. stayed'[c] \subseteq Rows'
    BY <2>2
  <2>4. Passed(c)' = Passed(c) /\ Passed(c) \in Int
    <3>1. page[c] \in Nat \ {0} /\ PageSize \in Nat
      BY PageSizeAssumption DEF TypeOK
    <3> QED
      BY <3>1 DEF Passed
  <2>5. Ahead(c)'
    <3> SUFFICES ASSUME NEW u \in stayed'[c] \ listed[c], Calm(u, left'[c])
                 PROVE  /\ Rank(Rows', u) > Passed(c)
                        /\ pc[c] = "page" /\ Calm(u, since'[c]) => Rank(Rows', u) <= total[c]
      BY <1>3, <2>4 DEF Ahead, Calm
    <3>1. u \in stayed[c] \ listed[c] /\ u \in Rows /\ u \in Rows' /\ Calm(u, left[c])
      BY <1>1, <1>4, <2>2 DEF CallInv, Calm
    <3>2. Rank(Rows, u) <= Rank(Rows', u)
      BY <1>2, <2>2, <3>1, RankGrows DEF Calm
    <3>3. Rank(Rows, u) \in Int /\ Rank(Rows', u) \in Int
      BY <1>2, <3>1, RankRange
    <3>4. Rank(Rows, u) > Passed(c)
      BY <1>1, <1>4, <3>1 DEF CallInv, Ahead
    <3>5. ASSUME pc[c] = "page", Calm(u, since'[c]) PROVE Rank(Rows', u) <= total[c]
      <4>1. Rank(Rows', u) <= Rank(Rows, u)
        BY <1>2, <2>2, <3>1, <3>5, RankGrows DEF Calm
      <4>2. Calm(u, since[c])
        BY <2>2, <3>5 DEF Calm
      <4>3. Rank(Rows, u) <= total[c] /\ total[c] \in Int
        BY <1>1, <1>4, <3>1, <3>5, <4>2 DEF CallInv, Ahead, TypeOK
      <4> QED
        BY <3>3, <4>1, <4>3
    <3> QED
      BY <2>4, <3>2, <3>3, <3>4, <3>5
  <2>6. Behind(c)'
    <3> SUFFICES ASSUME NEW u \in listed[c]
                 PROVE  /\ status'[u] # "future"
                        /\ u \in Rows' /\ Calm(u, appeared'[c]) => Rank(Rows', u) <= Passed(c)
      BY <1>3, <2>4 DEF Behind
    <3>1. u \in Accounts /\ status[u] # "future"
      BY <1>1, <1>4 DEF CallInv, Behind, TypeOK
    <3>2. ASSUME u \in Rows', Calm(u, appeared'[c]) PROVE Rank(Rows', u) <= Passed(c)
      <4>1. u \in Rows
        BY <3>1, <3>2
      <4>2. Calm(u, appeared[c]) /\ \A v \in Rows' \ Rows : v <= u
        BY <2>2, <3>2 DEF Calm
      <4>3. Rank(Rows', u) <= Rank(Rows, u)
        BY <1>2, <3>2, <4>1, <4>2, RankGrows
      <4>4. Rank(Rows, u) <= Passed(c)
        BY <1>1, <1>4, <4>1, <4>2 DEF CallInv, Behind
      <4>5. Rank(Rows, u) \in Int /\ Rank(Rows', u) \in Int
        BY <1>2, <3>2, <4>1, RankRange
      <4> QED
        BY <2>4, <4>3, <4>4, <4>5
    <3> QED
      BY <3>1, <3>2
  <2>7. \A u \in repeated[c] : ~Calm(u, appeared'[c])
    BY <1>1, <2>2 DEF CallInv, Calm
  <2> QED
    BY <1>1, <1>3, <2>1, <2>3, <2>5, <2>6, <2>7 DEF CallInv
<1>5. CASE ~Walking(c)
  <2>1. ~(call[c] = "list" /\ pc[c] \notin {"idle", "done"})
    BY <1>1, <1>5 DEF CallInv, Walking, TypeOK, RightsInv, Clients
  <2>2. /\ stayed'[c] = stayed[c] /\ appeared'[c] = appeared[c]
        /\ since'[c] = since[c] /\ left'[c] = left[c]
    BY <2>1 DEF Witnessed
  <2>3. ~Walking(c)'
    BY <1>5 DEF Walking
  <2> QED
    BY <1>1, <1>3, <2>2, <2>3 DEF CallInv, Calm
<1> QED
  BY <1>4, <1>5

LEMMA WalkStep == TypeOK /\ RightsInv /\ WalkInv /\ [Next]_vars => WalkInv'
<1> SUFFICES ASSUME TypeOK, RightsInv, WalkInv, [Next]_vars PROVE WalkInv'
  OBVIOUS
<1>0. Callers \subseteq Clients /\ Browsers \subseteq Clients
  BY DEF Clients
<1>1. ASSUME NEW c \in Callers, NEW u \in Accounts, NEW k \in {"me", "get", "list"},
             NEW t \in Accounts \cup {Nobody}, Send(c, k, u, t)
      PROVE  WalkInv'
  <2>1. OthersRest(c) /\ UNCHANGED status /\ c \in Clients
    BY <1>0, <1>1 DEF Send, Sent, Goto, OthersRest, TypeOK
  <2>2. CallInv(c) /\ pc[c] = "idle"
    BY <1>1 DEF WalkInv, Send
  <2>3. /\ pc'[c] = "sent" /\ call'[c] = k
        /\ listed' = listed /\ repeated' = repeated /\ page' = page /\ listed[c] = {}
        /\ repeated[c] = {} /\ page[c] = 1 /\ Rows' = Rows
        /\ stayed'[c] = IF k = "list" THEN Rows ELSE {}
    BY <1>0, <1>1, <2>2 DEF Send, Sent, Goto, CallInv, TypeOK, Rows
  <2>4. Passed(c)' = 0
    BY <2>3, PageSizeAssumption DEF Passed
  <2>5. \A v \in Rows : Rank(Rows, v) > 0
    BY RankRange DEF Rows
  <2>6. k = "list" => Ahead(c)'
    BY <2>3, <2>4, <2>5 DEF Ahead
  <2>7. Behind(c)'
    BY <2>3 DEF Behind
  <2>8. CallInv(c)'
    BY <2>2, <2>3, <2>6, <2>7 DEF CallInv, Walking
  <2> QED
    BY <2>1, <2>8, OthersKeep
<1>2. ASSUME NEW c \in Callers, Reject(c) \/ Forbid(c) \/ Me(c) \/ Get(c)
      PROVE  WalkInv'
  <2>1. /\ OthersRest(c) /\ UNCHANGED <<status, call, page, walkVars>> /\ c \in Clients
        /\ pc'[c] = "done"
    BY <1>0, <1>2 DEF Reject, Forbid, Me, Get, Answer, Goto, OthersRest, TypeOK, walkVars
  <2>2. CallInv(c)
    BY DEF WalkInv
  <2>3. answer'[c] = 200 => call[c] # "list"
    BY <1>2, <2>2 DEF Reject, Forbid, Me, Get, Answer, CallInv, TypeOK
  <2>4. CallInv(c)'
    BY <2>1, <2>2, <2>3 DEF CallInv, Walking, walkVars, Calm
  <2> QED
    BY <2>1, <2>4, OthersKeep
<1>3. ASSUME NEW c \in Callers, Authorize(c)
      PROVE  WalkInv'
  <2>1. /\ OthersRest(c) /\ UNCHANGED <<status, call, page, total, walkVars>> /\ c \in Clients
        /\ pc[c] = "sent" /\ call[c] # "me"
        /\ pc'[c] = (IF call[c] = "get" THEN "fetch" ELSE "count")
    BY <1>0, <1>3 DEF Authorize, Goto, OthersRest, TypeOK, walkVars
  <2>2. CallInv(c) /\ Rows' = Rows
    BY <2>1 DEF WalkInv, Rows
  <2>3. Passed(c)' = Passed(c)
    BY <2>1 DEF Passed
  <2>4. call[c] = "list" => (Ahead(c) => Ahead(c)') /\ (Behind(c) => Behind(c)')
    BY <2>1, <2>2, <2>3 DEF Ahead, Behind, walkVars, Rank, Calm
  <2>5. CallInv(c)'
    BY <2>1, <2>2, <2>4 DEF CallInv, Walking, walkVars, Calm, TypeOK
  <2> QED
    BY <2>1, <2>5, OthersKeep
<1>4. ASSUME NEW c \in Callers, Count(c)
      PROVE  WalkInv'
  <2>1. /\ OthersRest(c) /\ c \in Clients /\ pc[c] = "count" /\ pc'[c] = "page"
        /\ UNCHANGED <<status, call, page, answer, stayed, appeared, left, listed, repeated>>
        /\ total'[c] = Cardinality(Rows)
    BY <1>0, <1>4 DEF Count, Goto, OthersRest, TypeOK
  <2>2. CallInv(c) /\ Rows' = Rows
    BY <2>1 DEF WalkInv, Rows
  <2>3. Walking(c) /\ Passed(c)' = Passed(c)
    BY <2>1, <2>2 DEF Passed, Walking, CallInv
  <2>4. \A v \in Rows : Rank(Rows, v) <= Cardinality(Rows)
    BY RankRange DEF Rows
  <2>5. Ahead(c)'
    BY <2>1, <2>2, <2>3, <2>4 DEF Ahead, CallInv, Rank, Calm
  <2>6. Behind(c)'
    BY <2>1, <2>2, <2>3 DEF Behind, CallInv, Rank, Calm
  <2>7. CallInv(c)'
    BY <2>1, <2>2, <2>3, <2>5, <2>6 DEF CallInv, Walking, Calm
  <2> QED
    BY <2>1, <2>7, OthersKeep
<1>5. ASSUME NEW c \in Callers, ListPage(c)
      PROVE  WalkInv'
  <2> DEFINE P == Page(Rows, page[c])
             more == HasNext(page[c], total[c])
  <2>1. /\ OthersRest(c) /\ c \in Clients /\ pc[c] = "page"
        /\ UNCHANGED <<status, call, page, total, stayed, appeared, since, left>>
        /\ pc'[c] = (IF more THEN "turn" ELSE "done")
        /\ listed'[c] = listed[c] \cup P
        /\ repeated'[c] = repeated[c] \cup (listed[c] \cap P)
    BY <1>0, <1>5 DEF ListPage, Goto, OthersRest, TypeOK
  <2>2. CallInv(c) /\ Rows' = Rows /\ P \subseteq Rows
    BY <2>1 DEF WalkInv, Rows, Page
  <2>3. /\ Walking(c) /\ Passed(c) = (page[c] - 1) * PageSize
        /\ stayed[c] \subseteq Rows /\ Ahead(c) /\ Behind(c)
    BY <2>1, <2>2 DEF Passed, Walking, CallInv
  <2>4. /\ page[c] \in Nat \ {0} /\ total[c] \in Nat
        /\ (page[c] - 1) * PageSize \in Nat /\ page[c] * PageSize \in Nat
    BY PageSizeAssumption DEF TypeOK
  <2>5. more <=> page[c] * PageSize < total[c]
    BY <2>4, HasNextIsExact
  <2>6. \A v \in Rows : v \in P <=> Passed(c) < Rank(Rows, v) /\ Rank(Rows, v) <= page[c] * PageSize
    BY <2>3 DEF Page
  <2>7. \A v \in Rows : Rank(Rows, v) \in Nat /\ status[v] # "future"
    BY RankRange DEF Rows
  <2>8. \A v \in stayed[c] \ listed'[c] : Calm(v, left[c]) => Rank(Rows, v) > page[c] * PageSize
    BY <2>1, <2>3, <2>4, <2>6, <2>7 DEF Ahead
  <2>9. more => Ahead(c)'
    BY <2>1, <2>2, <2>4, <2>8 DEF Ahead, Passed, Rank, Calm
  <2>10. \A v \in stayed[c] \ listed'[c] : ~more => ~Calm(v, left[c] \cup since[c])
    <3> SUFFICES ASSUME NEW v \in stayed[c] \ listed'[c], ~more, Calm(v, left[c]), Calm(v, since[c])
                 PROVE  FALSE
      BY DEF Calm
    <3>1. v \in stayed[c] \ listed[c] /\ v \in Rows
      BY <2>1, <2>3
    <3>2. Rank(Rows, v) <= total[c]
      BY <2>1, <2>3, <3>1 DEF Ahead
    <3> QED
      BY <2>4, <2>5, <2>7, <2>8, <3>1, <3>2
  <2>11. (page[c] - 1) * PageSize <= page[c] * PageSize
    <3>1. PageSize \in Nat
      BY PageSizeAssumption
    <3>2. (page[c] - 1) * PageSize + PageSize = page[c] * PageSize
      BY <2>4, <3>1
    <3> QED
      BY <2>4, <3>1, <3>2
  <2>12. more => Behind(c)'
    <3> SUFFICES ASSUME more, NEW v \in listed'[c]
                 PROVE  /\ status'[v] # "future"
                        /\ v \in Rows' /\ Calm(v, appeared'[c]) => Rank(Rows', v) <= Passed(c)'
      BY DEF Behind
    <3>1. Passed(c)' = page[c] * PageSize
      BY <2>1 DEF Passed
    <3>2. v \in P \/ v \in listed[c]
      BY <2>1
    <3>3. CASE v \in P
      BY <2>1, <2>2, <2>6, <2>7, <3>1, <3>3
    <3>4. CASE v \in listed[c]
      BY <2>1, <2>2, <2>3, <2>4, <2>7, <2>11, <3>1, <3>4 DEF Behind
    <3> QED
      BY <3>2, <3>3, <3>4
  <2>13. \A v \in repeated'[c] : ~Calm(v, appeared[c])
    <3> SUFFICES ASSUME NEW v \in listed[c] \cap P, Calm(v, appeared[c]) PROVE FALSE
      BY <2>1, <2>2 DEF CallInv
    <3>1. v \in Rows /\ Rank(Rows, v) <= Passed(c)
      BY <2>2, <2>3 DEF Behind
    <3> QED
      BY <2>3, <2>4, <2>6, <2>7, <3>1
  <2>14. CallInv(c)'
    <3>1. call'[c] = "list" /\ stayed'[c] = stayed[c] /\ appeared'[c] = appeared[c]
          /\ since'[c] = since[c] /\ left'[c] = left[c]
      BY <2>1, <2>2 DEF CallInv
    <3>2. Walking(c)' => more
      BY <2>1 DEF Walking
    <3>3. pc'[c] = "done" => ~more
      BY <2>1
    <3> HIDE DEF P, more
    <3> QED
      BY <2>1, <2>2, <2>3, <2>9, <2>10, <2>12, <2>13, <3>1, <3>2, <3>3 DEF CallInv, Calm
  <2> QED
    BY <2>1, <2>14, OthersKeep
<1>6. ASSUME NEW c \in Callers, Turn(c)
      PROVE  WalkInv'
  <2>1. /\ OthersRest(c) /\ UNCHANGED <<status, call, walkVars>> /\ c \in Clients
        /\ pc[c] = "turn" /\ pc'[c] = "sent" /\ page'[c] = page[c] + 1
    BY <1>0, <1>6 DEF Turn, Sent, Goto, OthersRest, TypeOK, walkVars
  <2>2. CallInv(c) /\ Rows' = Rows
    BY <2>1 DEF WalkInv, Rows
  <2>3. page[c] \in Nat /\ PageSize \in Nat
    BY PageSizeAssumption DEF TypeOK
  <2>4. Passed(c)' = Passed(c)
    <3>1. page'[c] - 1 = page[c]
      BY <2>1, <2>3
    <3>2. Passed(c)' = (page'[c] - 1) * PageSize /\ Passed(c) = page[c] * PageSize
      BY <2>1 DEF Passed
    <3> QED
      BY <3>1, <3>2
  <2>5. Walking(c) /\ Ahead(c) /\ Behind(c)
    BY <2>1, <2>2 DEF CallInv, Walking
  <2>6. Ahead(c)' /\ Behind(c)'
    BY <2>1, <2>2, <2>4, <2>5 DEF Ahead, Behind, walkVars, Rank, Calm
  <2>7. CallInv(c)'
    BY <2>1, <2>2, <2>5, <2>6 DEF CallInv, Walking, walkVars, Calm
  <2> QED
    BY <2>1, <2>7, OthersKeep
<1>7. ASSUME NEW b \in Browsers, Post(b) \/ Authenticate(b) \/ SignOut(b) \/ \E u \in Accounts : SignIn(b, u)
      PROVE  WalkInv'
  <2>1. b \in Clients /\ b \notin Callers
    BY <1>0, ClientsAreDisjoint
  <2>2. UNCHANGED <<status, call, page, total, answer, walkVars>>
    BY <1>7 DEF Post, Authenticate, SignOut, SignIn
  <2>3. \A c \in Callers : pc'[c] = pc[c]
    BY <1>0, <1>7, <2>1 DEF Post, Sent, Authenticate, SignOut, SignIn, Goto, TypeOK
  <2>4. OthersRest(b)
    BY <2>2, <2>3 DEF OthersRest, walkVars
  <2> QED
    BY <2>1, <2>2, <2>4, OthersKeep
<1>8. ASSUME NEW b \in Browsers, NEW e \in Edits, Edit(b, e)
      PROVE  WalkInv'
  <2>1. b \in Clients /\ b \notin Callers
    BY <1>0, ClientsAreDisjoint
  <2>2. \A c \in Callers : pc'[c] = pc[c]
    BY <1>0, <1>8, <2>1 DEF Edit, Goto, TypeOK
  <2>3. /\ \A u \in Accounts : status[u] # "future" => status'[u] # "future"
        /\ \A u \in Rows' \ Rows : status[u] = "future"
    BY <1>8 DEF Edit, Edits, TypeOK, Rows
  <2> QED
    BY <1>8, <2>2, <2>3, WitnessedWalk DEF Edit
<1>9. ASSUME NEW S \in SUBSET Accounts, Appear(S)
      PROVE  WalkInv'
  <2>1. /\ \A u \in Accounts : status[u] # "future" => status'[u] # "future"
        /\ \A u \in Rows' \ Rows : status[u] = "future"
    BY <1>9 DEF Appear, Rows
  <2> QED
    BY <1>9, <2>1, WitnessedWalk DEF Appear, requestVars
<1>10. CASE UNCHANGED vars
  BY <1>10 DEF vars, requestVars, walkVars, WalkInv, CallInv, Walking, Ahead, Behind, Passed,
     Calm, Rank, Rows
<1> QED
  BY <1>1, <1>2, <1>3, <1>4, <1>5, <1>6, <1>7, <1>8, <1>9, <1>10 DEF Next, Call

LEMMA WalkInvariant == Spec => []WalkInv
<1>1. Init => TypeOK /\ RightsInv /\ WalkInv
  BY TypeInit, RightsInit, WalkInit
<1>2. TypeOK /\ RightsInv /\ WalkInv /\ [Next]_vars => (TypeOK /\ RightsInv /\ WalkInv)'
  BY TypeStep, RightsStep, WalkStep
<1> QED
  BY <1>1, <1>2, PTL DEF Spec

\* A walk that ends has missed nothing that was there all along, but for
\* accounts older than one that was deleted, or that appeared between the last
\* COUNT and the SELECT of its page.
THEOREM WalksMissLittle == Spec => []WalkMissesLittle
<1>1. WalkInv /\ TypeOK => WalkMissesLittle
  <2> SUFFICES ASSUME WalkInv, TypeOK, NEW c \in Callers,
                      pc[c] = "done", call[c] = "list", answer[c] = 200,
                      NEW u \in stayed[c] \ listed[c]
               PROVE  \E v \in left[c] \cup since[c] : v > u
    BY DEF WalkMissesLittle
  <2>1. PICK v \in left[c] \cup since[c] : ~(v <= u)
    BY DEF WalkInv, CallInv, Calm
  <2>2. /\ stayed \in [Callers -> SUBSET Accounts] /\ left \in [Callers -> SUBSET Accounts]
        /\ since \in [Callers -> SUBSET Accounts]
    BY DEF TypeOK
  <2>3. u \in Nat /\ v \in Nat
    BY <2>1, <2>2, DirectoryAssumption
  <2> QED
    BY <2>1, <2>3
<1> QED
  BY <1>1, WalkInvariant, DirectoryTypeCorrect, PTL

\* An account is listed twice only when a younger one appeared during the walk.
THEOREM WalksRepeatLittle == Spec => []WalkRepeatsLittle
<1>1. WalkInv /\ TypeOK => WalkRepeatsLittle
  <2> SUFFICES ASSUME WalkInv, TypeOK, NEW c \in Callers, NEW u \in repeated[c]
               PROVE  \E v \in appeared[c] : v > u
    BY DEF WalkRepeatsLittle
  <2>1. PICK v \in appeared[c] : ~(v <= u)
    BY DEF WalkInv, CallInv, Calm
  <2>2. repeated \in [Callers -> SUBSET Accounts] /\ appeared \in [Callers -> SUBSET Accounts]
    BY DEF TypeOK
  <2>3. u \in Nat /\ v \in Nat
    BY <2>1, <2>2, DirectoryAssumption
  <2> QED
    BY <2>1, <2>3
<1> QED
  BY <1>1, WalkInvariant, DirectoryTypeCorrect, PTL
==============================================================================
