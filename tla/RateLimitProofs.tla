--------------------------- MODULE RateLimitProofs ---------------------------
(***************************************************************************)
(* Theorems about ClientAddress and RateLimit, for every budget, window,   *)
(* strategy, number of storages and chain of proxies: a request is counted *)
(* under the address its caller has, bursts are bounded, refusals have a   *)
(* cause, the reported budget can be relied on, and so can Retry-After but *)
(* for its rounding and the far end of a moving window.                    *)
(***************************************************************************)
EXTENDS RateLimit, FiniteSetTheorems, WellFoundedInduction, TLAPS

\* Whatever the caller claims, the entry counted from the right is the one the
\* outermost proxy appended (resolve_client_ip).
LEMMA CallerIsResolved ==
  ASSUME NEW S, NEW claim \in Seq(S), NEW c, c # NoPeer
  PROVE  ResolveClientIp(Forwarded(claim, c), Peer(c)) = c
<1> USE ProxiesAssumption, HopsAssumption
<1> DEFINE n == Len(Proxies)
<1>1. CASE Proxies = <<>>
  BY <1>1 DEF ResolveClientIp, Peer, HostOf
<1>2. CASE Proxies # <<>>
  <2> DEFINE inner == SubSeq(Proxies, 1, n - 1)
             outer == Append(claim, c)
  <2>1. n \in Nat \ {0}
    BY <1>2
  <2>2. Len(inner) = n - 1 /\ inner \in Seq(STRING)
    BY <2>1
  <2>3. outer \in Seq(S \cup {c}) /\ Len(outer) = Len(claim) + 1 /\ outer[Len(claim) + 1] = c
    BY DEF outer
  <2>4. Forwarded(claim, c) = outer \o inner
    BY <1>2 DEF Forwarded
  <2>5. /\ Len(outer \o inner) = Len(claim) + n
        /\ (outer \o inner)[Len(claim) + 1] = c
    <3> HIDE DEF inner, outer
    <3>1. outer \in Seq(S \cup {c} \cup STRING) /\ inner \in Seq(S \cup {c} \cup STRING)
      BY <2>2, <2>3
    <3>2. Len(outer \o inner) = Len(outer) + Len(inner)
      BY <3>1
    <3>3. \A i \in 1..Len(outer) : (outer \o inner)[i] = outer[i]
      BY <3>1
    <3> QED
      BY <2>1, <2>2, <2>3, <3>2, <3>3
  <2>6. Len(claim) + n >= n /\ Len(claim) + n - n + 1 = Len(claim) + 1
    BY <2>1
  <2> HIDE DEF inner, outer
  <2> QED
    BY <2>1, <2>4, <2>5, <2>6 DEF ResolveClientIp
<1> QED
  BY <1>1, <1>2

\* Every request is counted in the bucket of its own caller, for any proxies,
\* callers, claims and limits (build_key, client_ip).
THEOREM BucketsAreCallers == Spec => []OneBucketPerCaller
<1>1. Init => OneBucketPerCaller
  BY DEF Init, OneBucketPerCaller
<1>2. OneBucketPerCaller /\ [Next]_vars => OneBucketPerCaller'
  <2> SUFFICES ASSUME OneBucketPerCaller, [Next]_vars PROVE OneBucketPerCaller'
    OBVIOUS
  <2>1. ASSUME NEW r \in Requests, NEW c \in Clients, NEW claim \in Claims,
               NEW s \in Stores, NEW p \in Limited \cup Open, HitGlobal(r, c, claim, s, p)
        PROVE  OneBucketPerCaller'
    <3>1. ResolveClientIp(Forwarded(claim, c), Peer(c)) = c
      BY CallerIsResolved, ClaimsAssumption, PeerAssumption
    <3> QED
      BY <2>1, <3>1 DEF HitGlobal, OneBucketPerCaller
  <2>2. ASSUME NEW r \in Requests, StatsGlobal(r) \/ HitRoute(r) \/ StatsRoute(r)
        PROVE  OneBucketPerCaller'
    BY <2>2 DEF StatsGlobal, HitRoute, StatsRoute, Stats, OneBucketPerCaller
  <2>3. CASE Tick
    BY <2>3 DEF Tick, OneBucketPerCaller
  <2>4. CASE UNCHANGED vars
    BY <2>4 DEF vars, OneBucketPerCaller
  <2> QED
    BY <2>1, <2>2, <2>3, <2>4 DEF Next
<1> QED
  BY <1>1, <1>2, PTL DEF Spec

------------------------------------------------------------------------------
(* Types.                                                                  *)

LEMMA LimitTypes ==
  ASSUME NEW l
  PROVE  /\ Amount(l) \in Nat \ {0} /\ Window(l) \in Nat \ {0}
         /\ Strategy(l) \in {"fixed", "moving"}
BY LimitsAssumption DEF Amount, Window, Strategy

\* A finite set of times has an earliest one.
LEMMA MinOfTimes ==
  ASSUME NEW T \in SUBSET Nat, T # {}, IsFiniteSet(T)
  PROVE  Min(T) \in T /\ \A x \in T : Min(T) <= x
<1> DEFINE Before(x) == {y \in T : y < x}
           F == {Before(x) : x \in T}
           R == StrictSubsetOrdering(T)
<1>1. IsWellFoundedOn(R, SUBSET T)
  BY FS_StrictSubsetOrderingWellFounded, FS_FiniteSubsetsOfFinite
<1>2. F \subseteq SUBSET T
  OBVIOUS
<1>3. F # {}
  <2>1. PICK x \in T : TRUE
    OBVIOUS
  <2> QED
    BY <2>1
<1>4. \E m \in F : \A y \in F : ~ (<<y, m>> \in R)
  <2> HIDE DEF F, R
  <2> QED
    BY <1>1, <1>2, <1>3, WFMin
<1>5. PICK m \in T : \A y \in T : ~ (<<Before(y), Before(m)>> \in R)
  BY <1>4
<1>6. \A y \in T : m <= y
  <2>1. SUFFICES ASSUME NEW y \in T, y < m PROVE FALSE
    OBVIOUS
  <2>2. y \in Before(m) /\ y \notin Before(y)
    BY <2>1
  <2>3. \A x \in T : x < y => x < m
    BY <2>1
  <2>4. Before(y) \subseteq Before(m) /\ Before(m) \subseteq T
    BY <2>3
  <2> HIDE DEF Before
  <2>5. <<Before(y), Before(m)>> \in R
    BY <2>2, <2>4 DEF StrictSubsetOrdering
  <2> QED
    BY <1>5, <2>5
<1> QED
  BY <1>6 DEF Min

\* What the place of a request says of its counts: a limiter that has not
\* counted it yet has not let it through either, and counts it once.
BookInv ==
  /\ TypeOK
  /\ \A r \in Requests :
       /\ pc[r] = "idle" => \A l \in Limiters : hitAt[r][l] = Never
       /\ pc[r] # "idle" => client[r] \in Clients /\ store[r] \in Stores
                            /\ path[r] \in Limited \cup Open
                            /\ hitAt[r][Global] # Never
       /\ pc[r] \in {"hit route", "stats route"} => path[r] \in Limited
       /\ pc[r] \in {"stats global", "hit route"} =>
            \A l \in Limited : hitAt[r][l] = Never
       /\ pc[r] = "stats route" => hitAt[r][path[r]] # Never
       /\ \A l \in Limiters : hitAt[r][l] <= now
       /\ \A l \in allowed[r] : hitAt[r][l] # Never
  /\ \A l \in Limiters, c \in Clients, w \in Stores :
       /\ IsFiniteSet(bucket[Key(l, c, w)])
       /\ \A x \in bucket[Key(l, c, w)] : hitAt[x][l] # Never

LEMMA KeyInKeys ==
  ASSUME NEW l \in Limiters, NEW c \in Clients, NEW w \in Stores
  PROVE  Key(l, c, w) \in Keys
BY DEF Key, Keys

LEMMA InitBookInv == Init => BookInv
<1> SUFFICES ASSUME Init PROVE BookInv
  OBVIOUS
<1>1. 0 \in 0..MaxTime /\ 0 \in Nat
  BY LimitsAssumption
<1>2. TypeOK
  BY <1>1 DEF Init, TypeOK, Steps
<1>3. \A r \in Requests, l \in Limiters : hitAt[r][l] = Never /\ Never <= now
  BY DEF Init, Never
<1>4. \A l \in Limiters, c \in Clients, w \in Stores :
        bucket[Key(l, c, w)] = {} /\ IsFiniteSet({})
  BY KeyInKeys, FS_EmptySet DEF Init
<1> QED
  BY <1>2, <1>3, <1>4 DEF Init, BookInv

\* The types and the books, one variable at a time.
LEMMA BookTypes ==
  ASSUME BookInv
  PROVE  /\ now \in Nat /\ now <= MaxTime /\ MaxTime \in Nat
         /\ \A l \in Limiters, c \in Clients, w \in Stores :
              /\ bucket[Key(l, c, w)] \subseteq Requests
              /\ IsFiniteSet(bucket[Key(l, c, w)])
              /\ \A x \in bucket[Key(l, c, w)] : hitAt[x][l] # Never
         /\ \A x \in Requests, l \in Limiters :
              hitAt[x][l] \in Nat \cup {Never} /\ hitAt[x][l] <= now
         /\ \A x \in Requests : allowed[x] \subseteq Limiters
         /\ \A x \in Requests, l \in Limiters : l \in allowed[x] => hitAt[x][l] # Never
<1>1. TypeOK
  BY DEF BookInv
<1>2. now \in Nat /\ now <= MaxTime /\ MaxTime \in Nat
  <2>1. now \in 0..MaxTime /\ MaxTime \in Nat
    BY <1>1, LimitsAssumption DEF TypeOK
  <2> QED
    BY <2>1
<1>3. ASSUME NEW l \in Limiters, NEW c \in Clients, NEW w \in Stores
      PROVE  /\ bucket[Key(l, c, w)] \subseteq Requests
             /\ IsFiniteSet(bucket[Key(l, c, w)])
             /\ \A x \in bucket[Key(l, c, w)] : hitAt[x][l] # Never
  <2>1. bucket[Key(l, c, w)] \subseteq Requests
    BY <1>1, KeyInKeys DEF TypeOK
  <2> QED
    BY <2>1 DEF BookInv
<1>4. ASSUME NEW x \in Requests, NEW l \in Limiters
      PROVE  hitAt[x][l] \in Nat \cup {Never} /\ hitAt[x][l] <= now
  <2>1. hitAt[x] \in [Limiters -> 0..MaxTime \cup {Never}]
    BY <1>1 DEF TypeOK
  <2>2. hitAt[x][l] <= now
    BY DEF BookInv
  <2> QED
    BY <1>2, <2>1, <2>2
<1>5. \A x \in Requests : allowed[x] \subseteq Limiters
  BY <1>1 DEF TypeOK
<1>6. \A x \in Requests, l \in Limiters : l \in allowed[x] => hitAt[x][l] # Never
  BY DEF BookInv
<1> QED
  BY <1>2, <1>3, <1>4, <1>5, <1>6

LEMMA CountedFinite ==
  ASSUME NEW l, NEW hits, IsFiniteSet(hits)
  PROVE  /\ Counted(l, hits) \subseteq hits
         /\ IsFiniteSet(Counted(l, hits))
         /\ Used(l, hits) \in Nat
         /\ Used(l, hits) <= Cardinality(hits)
<1>1. Counted(l, hits) \subseteq hits
  BY DEF Counted
<1> QED
  BY <1>1, FS_Subset, FS_CardinalityType DEF Used

\* get_window_stats reports a time and a number that is not negative.
LEMMA StatsTypes ==
  ASSUME BookInv, NEW l \in Limiters, NEW c \in Clients, NEW w \in Stores
  PROVE  /\ ResetTime(l, bucket[Key(l, c, w)]) \in Nat
         /\ Remaining(l, bucket[Key(l, c, w)]) \in Nat
<1> DEFINE B == bucket[Key(l, c, w)]
           C == Counted(l, B)
           times == {hitAt[h][l] : h \in C}
<1>1. /\ now \in Nat
      /\ B \subseteq Requests
      /\ IsFiniteSet(B)
      /\ \A x \in B : hitAt[x][l] # Never
      /\ \A x \in Requests : hitAt[x][l] \in Nat \cup {Never}
  BY BookTypes
<1>2. C \subseteq B /\ IsFiniteSet(C) /\ Used(l, B) \in Nat
  BY <1>1, CountedFinite
<1>3. times \in SUBSET Nat
  <2> HIDE DEF B, C
  <2> QED
    BY <1>1, <1>2
<1>4. IsFiniteSet(times)
  <2> DEFINE f == [h \in C |-> hitAt[h][l]]
  <2>1. f \in Surjection(C, times)
    BY DEF Surjection
  <2> HIDE DEF C, times, f
  <2> QED
    BY <1>2, <2>1, FS_Surjection
<1>5. C # {} => Min(times) \in Nat
  <2>1. C # {} => times # {}
    OBVIOUS
  <2> HIDE DEF times, C
  <2> QED
    BY <1>3, <1>4, <2>1, MinOfTimes
<1>6. Window(l) \in Nat /\ Amount(l) \in Nat
  BY LimitTypes
<1>7. ResetTime(l, B) \in Nat
  BY <1>1, <1>5, <1>6 DEF ResetTime
<1>8. Remaining(l, B) \in Nat
  BY <1>2, <1>6 DEF Remaining
<1> QED
  BY <1>7, <1>8

------------------------------------------------------------------------------
(* A step either has one limiter count one request or leaves the counts.   *)

\* Limiter l counts request r for client c with storage w, as HitGlobal and
\* HitRoute do.
HitStep(r, l, c, w) ==
  /\ hitAt[r][l] = Never
  /\ client'[r] = c /\ store'[r] = w
  /\ \A x \in Requests \ {r} : client'[x] = client[x] /\ store'[x] = store[x]
  /\ \/ client[r] = c /\ store[r] = w
     \/ \A k \in Limiters : hitAt[r][k] = Never
  /\ now' = now
  /\ bucket' = [bucket EXCEPT ![Key(l, c, w)] = AfterHit(r, l, bucket[Key(l, c, w)])]
  /\ allowed' = [allowed EXCEPT ![r] =
                   IF Admits(l, bucket[Key(l, c, w)]) THEN @ \cup {l} ELSE @]
  /\ hitAt' = [hitAt EXCEPT ![r][l] = now]

QuietStep ==
  /\ bucket' = bucket /\ allowed' = allowed /\ hitAt' = hitAt
  /\ client' = client /\ store' = store
  /\ now' = now \/ now' = now + 1

LEMMA GlobalHitStep ==
  ASSUME BookInv, NEW r \in Requests, NEW c \in Clients, NEW claim \in Claims,
         NEW w \in Stores, NEW p \in Limited \cup Open, HitGlobal(r, c, claim, w, p)
  PROVE  HitStep(r, Global, c, w) /\ Global \in Limiters
<1>1. ResolveClientIp(Forwarded(claim, c), Peer(c)) = c
  BY CallerIsResolved, ClaimsAssumption, PeerAssumption
<1>2. TypeOK /\ Global \in Limiters
  BY DEF BookInv, Limiters
<1>3. \A k \in Limiters : hitAt[r][k] = Never
  BY DEF BookInv, HitGlobal
<1>4. /\ client' = [client EXCEPT ![r] = c] /\ store' = [store EXCEPT ![r] = w]
      /\ client \in [Requests -> Clients \cup {Nobody}]
      /\ store \in [Requests -> Stores \cup {Nowhere}]
  BY <1>1, <1>2 DEF HitGlobal, TypeOK
<1>5. client'[r] = c
  BY <1>4
<1>6. Hit(r, Global, Key(Global, c, w), "stats global")
  BY <1>5 DEF HitGlobal
<1> QED
  BY <1>2, <1>3, <1>4, <1>6 DEF Hit, HitStep

LEMMA RouteHitStep ==
  ASSUME BookInv, NEW r \in Requests, HitRoute(r)
  PROVE  /\ path[r] \in Limited /\ path[r] \in Limiters
         /\ client[r] \in Clients /\ store[r] \in Stores
         /\ HitStep(r, path[r], client[r], store[r])
<1>1. pc[r] = "hit route" /\ pc[r] # "idle"
  BY DEF HitRoute
<1>2. /\ path[r] \in Limited /\ client[r] \in Clients /\ store[r] \in Stores
      /\ \A k \in Limited : hitAt[r][k] = Never
  BY <1>1 DEF BookInv
<1>3. hitAt[r][path[r]] = Never /\ path[r] \in Limiters
  BY <1>2 DEF Limiters
<1> QED
  BY <1>2, <1>3 DEF HitRoute, Hit, HitStep

LEMMA OtherSteps ==
  ASSUME NEW r \in Requests, StatsGlobal(r) \/ StatsRoute(r)
  PROVE  QuietStep
BY DEF StatsGlobal, StatsRoute, Stats, QuietStep

LEMMA TickStep == Tick \/ UNCHANGED vars => QuietStep
BY DEF Tick, vars, QuietStep

LEMMA StepKinds ==
  ASSUME BookInv, [Next]_vars
  PROVE  \/ \E r \in Requests, l \in Limiters, c \in Clients, w \in Stores :
              HitStep(r, l, c, w)
         \/ QuietStep
BY GlobalHitStep, RouteHitStep, OtherSteps, TickStep DEF Next

\* What a count changes, one element at a time.
LEMMA HitEffects ==
  ASSUME BookInv, NEW r \in Requests, NEW l \in Limiters, NEW c \in Clients,
         NEW w \in Stores, HitStep(r, l, c, w)
  PROVE  /\ bucket' \in [Keys -> SUBSET Requests]
         /\ bucket'[Key(l, c, w)] = AfterHit(r, l, bucket[Key(l, c, w)])
         /\ \A k \in Limiters, d \in Clients, v \in Stores :
              <<k, d, v>> # <<l, c, w>> => bucket'[Key(k, d, v)] = bucket[Key(k, d, v)]
         /\ hitAt' \in [Requests -> [Limiters -> 0..MaxTime \cup {Never}]]
         /\ hitAt'[r][l] = now
         /\ \A x \in Requests, k \in Limiters :
              <<x, k>> # <<r, l>> => hitAt'[x][k] = hitAt[x][k]
         /\ allowed' \in [Requests -> SUBSET Limiters]
         /\ l \in allowed'[r] <=> Admits(l, bucket[Key(l, c, w)])
         /\ \A x \in Requests, k \in Limiters :
              <<x, k>> # <<r, l>> => (k \in allowed'[x] <=> k \in allowed[x])
<1> DEFINE K == Key(l, c, w)
           B == bucket[K]
<1>1. /\ bucket \in [Keys -> SUBSET Requests] /\ K \in Keys
      /\ hitAt \in [Requests -> [Limiters -> 0..MaxTime \cup {Never}]]
      /\ allowed \in [Requests -> SUBSET Limiters]
      /\ now \in 0..MaxTime /\ l \notin allowed[r]
  BY KeyInKeys DEF BookInv, TypeOK, HitStep
<1>2. B \subseteq Requests /\ AfterHit(r, l, B) \subseteq Requests
  BY <1>1 DEF AfterHit, Counted
<1>3. bucket' = [bucket EXCEPT ![K] = AfterHit(r, l, B)]
  BY DEF HitStep
<1>4. bucket' \in [Keys -> SUBSET Requests] /\ bucket'[K] = AfterHit(r, l, B)
  <2> HIDE DEF K, B
  <2> QED
    BY <1>1, <1>2, <1>3
<1>5. ASSUME NEW k \in Limiters, NEW d \in Clients, NEW v \in Stores,
             <<k, d, v>> # <<l, c, w>>
      PROVE  bucket'[Key(k, d, v)] = bucket[Key(k, d, v)]
  <2>1. Key(k, d, v) # K /\ Key(k, d, v) \in Keys
    BY <1>5, KeyInKeys DEF Key
  <2> HIDE DEF K, B
  <2> QED
    BY <1>1, <1>3, <2>1
<1>6. hitAt' = [hitAt EXCEPT ![r][l] = now]
  BY DEF HitStep
<1>7. /\ hitAt' \in [Requests -> [Limiters -> 0..MaxTime \cup {Never}]]
      /\ hitAt'[r][l] = now
      /\ \A x \in Requests, k \in Limiters :
           <<x, k>> # <<r, l>> => hitAt'[x][k] = hitAt[x][k]
  <2>1. hitAt[r] \in [Limiters -> 0..MaxTime \cup {Never}]
    BY <1>1
  <2>2. /\ [hitAt[r] EXCEPT ![l] = now] \in [Limiters -> 0..MaxTime \cup {Never}]
        /\ [hitAt[r] EXCEPT ![l] = now][l] = now
        /\ \A k \in Limiters : k # l => [hitAt[r] EXCEPT ![l] = now][k] = hitAt[r][k]
    BY <1>1, <2>1
  <2>3. hitAt' = [hitAt EXCEPT ![r] = [hitAt[r] EXCEPT ![l] = now]]
    BY <1>6
  <2>4. hitAt'[r] = [hitAt[r] EXCEPT ![l] = now]
    BY <1>1, <2>3
  <2>5. \A x \in Requests : x # r => hitAt'[x] = hitAt[x]
    BY <1>1, <2>3
  <2>6. hitAt' \in [Requests -> [Limiters -> 0..MaxTime \cup {Never}]]
    BY <1>1, <2>2, <2>3
  <2> QED
    BY <2>2, <2>4, <2>5, <2>6
<1>8. /\ allowed' \in [Requests -> SUBSET Limiters]
      /\ l \in allowed'[r] <=> Admits(l, B)
      /\ \A x \in Requests, k \in Limiters :
           <<x, k>> # <<r, l>> => (k \in allowed'[x] <=> k \in allowed[x])
  <2>1. allowed' = [allowed EXCEPT ![r] = IF Admits(l, B) THEN @ \cup {l} ELSE @]
    BY DEF HitStep
  <2> HIDE DEF K, B
  <2>2. allowed'[r] = IF Admits(l, B) THEN allowed[r] \cup {l} ELSE allowed[r]
    BY <1>1, <2>1
  <2>3. \A x \in Requests : x # r => allowed'[x] = allowed[x]
    BY <1>1, <2>1
  <2>4. allowed' \in [Requests -> SUBSET Limiters]
    BY <1>1, <2>1
  <2> QED
    BY <1>1, <2>2, <2>3, <2>4
<1> QED
  BY <1>4, <1>5, <1>7, <1>8

\* The part of BookInv that is about counts alone.
CountsInv ==
  /\ \A r \in Requests :
       /\ \A l \in Limiters : hitAt[r][l] <= now
       /\ \A l \in allowed[r] : hitAt[r][l] # Never
  /\ \A l \in Limiters, c \in Clients, w \in Stores :
       /\ IsFiniteSet(bucket[Key(l, c, w)])
       /\ \A x \in bucket[Key(l, c, w)] : hitAt[x][l] # Never

LEMMA AfterHitFinite ==
  ASSUME NEW l, NEW r, NEW hits, IsFiniteSet(hits)
  PROVE  /\ AfterHit(r, l, hits) \subseteq hits \cup {r}
         /\ IsFiniteSet(AfterHit(r, l, hits))
<1>1. Counted(l, hits) \subseteq hits /\ IsFiniteSet(Counted(l, hits))
  BY CountedFinite
<1>2. IsFiniteSet(Counted(l, hits) \cup {r})
  BY <1>1, FS_AddElement
<1> QED
  BY <1>1, <1>2 DEF AfterHit

LEMMA HitCounts ==
  ASSUME BookInv, NEW r \in Requests, NEW l \in Limiters, NEW c \in Clients,
         NEW w \in Stores, HitStep(r, l, c, w)
  PROVE  CountsInv'
<1> DEFINE B == bucket[Key(l, c, w)]
<1>1. /\ now \in Nat /\ now' = now /\ now # Never
  BY BookTypes DEF HitStep, Never
<1>2. ASSUME NEW x \in Requests, NEW k \in Limiters
      PROVE  hitAt'[x][k] <= now'
  <2>1. hitAt[x][k] <= now
    BY BookTypes
  <2>2. CASE x = r /\ k = l
    BY <1>1, <2>2, HitEffects
  <2>3. CASE ~ (x = r /\ k = l)
    <3>1. hitAt'[x][k] = hitAt[x][k]
      BY <2>3, HitEffects
    <3> QED
      BY <1>1, <2>1, <3>1
  <2> QED
    BY <2>2, <2>3
<1>3. ASSUME NEW x \in Requests, NEW k \in allowed'[x]
      PROVE  hitAt'[x][k] # Never
  <2>1. k \in Limiters
    BY HitEffects
  <2>2. CASE x = r /\ k = l
    BY <1>1, <2>2, HitEffects
  <2>3. CASE ~ (x = r /\ k = l)
    <3>1. hitAt'[x][k] = hitAt[x][k] /\ k \in allowed[x]
      BY <2>1, <2>3, HitEffects
    <3> QED
      BY <2>1, <3>1, BookTypes
  <2> QED
    BY <2>2, <2>3
<1>4. ASSUME NEW k \in Limiters, NEW d \in Clients, NEW v \in Stores
      PROVE  /\ IsFiniteSet(bucket'[Key(k, d, v)])
             /\ \A x \in bucket'[Key(k, d, v)] : hitAt'[x][k] # Never
  <2>1. \A x \in bucket[Key(k, d, v)] : hitAt'[x][k] # Never
    <3>1. \A x \in bucket[Key(k, d, v)] : x \in Requests /\ hitAt[x][k] # Never
      BY BookTypes
    <3> QED
      BY <3>1, <1>1, HitEffects
  <2>2. CASE <<k, d, v>> = <<l, c, w>>
    <3>1. bucket'[Key(k, d, v)] = AfterHit(r, l, B)
      BY <2>2, HitEffects
    <3>2. IsFiniteSet(B)
      BY BookTypes
    <3>3. AfterHit(r, l, B) \subseteq B \cup {r} /\ IsFiniteSet(AfterHit(r, l, B))
      BY <3>2, AfterHitFinite
    <3>4. hitAt'[r][k] # Never
      BY <2>2, <1>1, HitEffects
    <3>5. \A x \in B : hitAt'[x][k] # Never
      BY <2>1, <2>2
    <3> HIDE DEF B
    <3> QED
      BY <3>1, <3>3, <3>4, <3>5
  <2>3. CASE <<k, d, v>> # <<l, c, w>>
    <3>1. bucket'[Key(k, d, v)] = bucket[Key(k, d, v)]
      BY <2>3, HitEffects
    <3> QED
      BY <2>1, <3>1, BookTypes
  <2> QED
    BY <2>2, <2>3
<1>5. \A x \in Requests, k \in Limiters : hitAt'[x][k] <= now'
  BY <1>2
<1>6. \A x \in Requests : \A k \in allowed'[x] : hitAt'[x][k] # Never
  BY <1>3
<1>7. \A k \in Limiters, d \in Clients, v \in Stores :
        /\ IsFiniteSet(bucket'[Key(k, d, v)])
        /\ \A x \in bucket'[Key(k, d, v)] : hitAt'[x][k] # Never
  BY <1>4
<1> QED
  BY <1>5, <1>6, <1>7 DEF CountsInv, Key

LEMMA QuietCounts ==
  ASSUME BookInv, QuietStep
  PROVE  CountsInv'
<1>1. /\ now \in Nat /\ (now' = now \/ now' = now + 1)
      /\ \A x \in Requests, l \in Limiters : hitAt[x][l] \in Nat \cup {Never} /\ hitAt[x][l] <= now
  BY BookTypes DEF QuietStep
<1>2. \A x \in Requests, l \in Limiters : hitAt[x][l] <= now'
  BY <1>1 DEF Never
<1>3. hitAt' = hitAt /\ bucket' = bucket /\ allowed' = allowed
  BY DEF QuietStep
<1>4. /\ \A r \in Requests : \A l \in allowed[r] : hitAt[r][l] # Never
      /\ \A l \in Limiters, c \in Clients, w \in Stores :
           /\ IsFiniteSet(bucket[Key(l, c, w)])
           /\ \A x \in bucket[Key(l, c, w)] : hitAt[x][l] # Never
  BY DEF BookInv
<1> QED
  BY <1>2, <1>3, <1>4 DEF CountsInv, Key

\* The part of BookInv that is about the place of a request.
PlaceInv(r) ==
  /\ pc[r] = "idle" => \A l \in Limiters : hitAt[r][l] = Never
  /\ pc[r] # "idle" => client[r] \in Clients /\ store[r] \in Stores
                       /\ path[r] \in Limited \cup Open
                       /\ hitAt[r][Global] # Never
  /\ pc[r] \in {"hit route", "stats route"} => path[r] \in Limited
  /\ pc[r] \in {"stats global", "hit route"} =>
       \A l \in Limited : hitAt[r][l] = Never
  /\ pc[r] = "stats route" => hitAt[r][path[r]] # Never

LEMMA BookParts == BookInv <=> TypeOK /\ CountsInv /\ \A r \in Requests : PlaceInv(r)
BY DEF BookInv, CountsInv, PlaceInv

LEMMA BookPartsNext ==
  ASSUME TypeOK', CountsInv', \A r \in Requests : PlaceInv(r)'
  PROVE  BookInv'
BY DEF BookInv, CountsInv, PlaceInv

\* A product of natural numbers is one.
LEMMA Product == \A m, k \in Nat : m * k \in Nat
OBVIOUS

LEMMA Quotient == \A m \in Int, k \in Nat \ {0} : m \div k \in Int
OBVIOUS

\* The time a refused request is told to come back is one.
LEMMA ComeBackTime ==
  ASSUME NEW e \in Nat, NEW n \in Nat, NEW s \in Nat \ {0}
  PROVE  n + s * (IF (e - n) \div s < 1 THEN 1 ELSE (e - n) \div s) \in Nat
<1>1. e - n \in Int
  OBVIOUS
<1>2. PICK q \in Int : q = (e - n) \div s
  BY <1>1, Quotient
<1>3. PICK secs \in Nat : secs = IF q < 1 THEN 1 ELSE q
  OBVIOUS
<1>4. s * secs \in Nat
  BY Product
<1>5. n + s * secs \in Nat
  BY <1>4
<1> QED
  BY <1>2, <1>3, <1>5

\* The requests a step leaves alone keep their place.
LEMMA SamePlace ==
  ASSUME NEW x, PlaceInv(x), pc'[x] = pc[x], client'[x] = client[x],
         store'[x] = store[x], path'[x] = path[x],
         \A k \in Limiters : hitAt'[x][k] = hitAt[x][k]
  PROVE  PlaceInv(x)'
<1>1. Global \in Limiters /\ Limited \subseteq Limiters
  BY DEF Limiters
<1>2. pc'[x] \in {"hit route", "stats route"} => path'[x] \in Limiters
  BY <1>1 DEF PlaceInv
<1> QED
  BY <1>1, <1>2 DEF PlaceInv

LEMMA GlobalHitBooks ==
  ASSUME BookInv, NEW r \in Requests, NEW c \in Clients, NEW claim \in Claims,
         NEW w \in Stores, NEW p \in Limited \cup Open, HitGlobal(r, c, claim, w, p)
  PROVE  BookInv'
<1>1. HitStep(r, Global, c, w) /\ Global \in Limiters
  BY GlobalHitStep
<1>2. CountsInv'
  BY <1>1, HitCounts
<1>3. TypeOK /\ \A x \in Requests : PlaceInv(x)
  BY BookParts
<1>4. /\ caller' = [caller EXCEPT ![r] = c]
      /\ client'[r] = c /\ store'[r] = w
      /\ store' = [store EXCEPT ![r] = w]
      /\ path' = [path EXCEPT ![r] = p]
      /\ pc' = [pc EXCEPT ![r] = "stats global"]
      /\ now' = now /\ stash' = stash /\ retryAt' = retryAt
  BY <1>1 DEF HitGlobal, Hit, HitStep
<1>5. client' = [client EXCEPT ![r] = c]
  <2>1. client' = [client EXCEPT ![r] = ResolveClientIp(Forwarded(claim, c), Peer(c))]
    BY DEF HitGlobal
  <2>2. ResolveClientIp(Forwarded(claim, c), Peer(c)) = c
    BY CallerIsResolved, ClaimsAssumption, PeerAssumption
  <2> QED
    BY <2>1, <2>2
<1>6. /\ bucket' \in [Keys -> SUBSET Requests]
      /\ hitAt' \in [Requests -> [Limiters -> 0..MaxTime \cup {Never}]]
      /\ allowed' \in [Requests -> SUBSET Limiters]
  BY <1>1, HitEffects
<1>7. TypeOK'
  <2>1. now' \in 0..MaxTime /\ stash' = stash /\ retryAt' = retryAt
    BY <1>3, <1>4 DEF TypeOK
  <2>2. /\ caller' \in [Requests -> Clients \cup {Nobody}]
        /\ client' \in [Requests -> Clients \cup {Nobody}]
        /\ store' \in [Requests -> Stores \cup {Nowhere}]
        /\ path' \in [Requests -> Limited \cup Open \cup {Nowhere}]
        /\ pc' \in [Requests -> Steps]
    BY <1>3, <1>4, <1>5 DEF TypeOK, Steps
  <2> QED
    BY <1>3, <1>6, <2>1, <2>2 DEF TypeOK, Keys
<1>8. PlaceInv(r)'
  <2>1. pc'[r] = "stats global" /\ path'[r] = p
    BY <1>3, <1>4 DEF TypeOK
  <2>2. \A k \in Limited : hitAt'[r][k] = Never
    <3>1. pc[r] = "idle"
      BY DEF HitGlobal
    <3>2. \A k \in Limited : k \in Limiters /\ k # Global /\ hitAt[r][k] = Never
      BY <1>3, <3>1, NamesAssumption DEF PlaceInv, Limiters
    <3> QED
      BY <1>1, <3>2, HitEffects
  <2>3. hitAt'[r][Global] # Never
    BY <1>1, HitEffects, BookTypes DEF Never
  <2> QED
    BY <1>4, <2>1, <2>2, <2>3 DEF PlaceInv
<1>9. ASSUME NEW x \in Requests, x # r
      PROVE  PlaceInv(x)'
  <2>1. /\ pc'[x] = pc[x] /\ client'[x] = client[x] /\ store'[x] = store[x]
        /\ path'[x] = path[x]
    BY <1>3, <1>4, <1>5, <1>9 DEF TypeOK
  <2>2. \A k \in Limiters : hitAt'[x][k] = hitAt[x][k]
    BY <1>1, <1>9, HitEffects
  <2> QED
    BY <1>3, <2>1, <2>2, SamePlace
<1>10. \A x \in Requests : PlaceInv(x)'
  BY <1>8, <1>9
<1> QED
  BY <1>2, <1>7, <1>10, BookPartsNext

LEMMA RouteHitBooks ==
  ASSUME BookInv, NEW r \in Requests, HitRoute(r)
  PROVE  BookInv'
<1>1. /\ path[r] \in Limited /\ path[r] \in Limiters
      /\ client[r] \in Clients /\ store[r] \in Stores
      /\ HitStep(r, path[r], client[r], store[r])
  BY RouteHitStep
<1>2. CountsInv'
  BY <1>1, HitCounts
<1>3. TypeOK /\ \A x \in Requests : PlaceInv(x)
  BY BookParts
<1>4. /\ caller' = caller /\ client' = client /\ store' = store /\ path' = path
      /\ pc' = [pc EXCEPT ![r] = "stats route"]
      /\ now' = now /\ stash' = stash /\ retryAt' = retryAt
  BY DEF HitRoute, Hit
<1>5. /\ bucket' \in [Keys -> SUBSET Requests]
      /\ hitAt' \in [Requests -> [Limiters -> 0..MaxTime \cup {Never}]]
      /\ allowed' \in [Requests -> SUBSET Limiters]
  BY <1>1, HitEffects
<1>6. pc' \in [Requests -> Steps] /\ pc'[r] = "stats route" /\ \A x \in Requests : x # r => pc'[x] = pc[x]
  BY <1>3, <1>4 DEF TypeOK, Steps
<1>7. TypeOK'
  BY <1>3, <1>4, <1>5, <1>6 DEF TypeOK, Keys
<1>8. PlaceInv(r)'
  <2>1. hitAt'[r][path[r]] # Never
    BY <1>1, HitEffects, BookTypes DEF Never
  <2>2. Global # path[r] /\ Global \in Limiters
    BY <1>1, NamesAssumption DEF Limiters
  <2>3. hitAt'[r][Global] = hitAt[r][Global]
    BY <1>1, <2>2, HitEffects
  <2>4. hitAt[r][Global] # Never
    BY <1>3 DEF PlaceInv, HitRoute
  <2> QED
    BY <1>1, <1>4, <1>6, <2>1, <2>3, <2>4 DEF PlaceInv
<1>9. ASSUME NEW x \in Requests, x # r
      PROVE  PlaceInv(x)'
  <2>1. \A k \in Limiters : hitAt'[x][k] = hitAt[x][k]
    BY <1>1, <1>9, HitEffects
  <2> QED
    BY <1>3, <1>4, <1>6, <1>9, <2>1, SamePlace
<1>10. \A x \in Requests : PlaceInv(x)'
  BY <1>8, <1>9
<1> QED
  BY <1>2, <1>7, <1>10, BookPartsNext

\* Reading the window stats changes the place and what the caller is told.
LEMMA StatsBooks ==
  ASSUME BookInv, NEW r \in Requests, StatsGlobal(r) \/ StatsRoute(r)
  PROVE  BookInv'
<1>1. TypeOK /\ \A x \in Requests : PlaceInv(x)
  BY BookParts
<1>2. CountsInv'
  BY OtherSteps, QuietCounts
<1>3. PICK l \in Limiters, next \in {"hit route", "handled"} :
        /\ Stats(r, l, next)
        /\ next = "hit route" => path[r] \in Limited /\ pc[r] = "stats global"
        /\ pc[r] # "idle"
  <2>1. CASE StatsGlobal(r)
    BY <2>1 DEF StatsGlobal, Limiters
  <2>2. CASE StatsRoute(r)
    BY <1>1, <2>2 DEF StatsRoute, PlaceInv, Limiters
  <2> QED
    BY <2>1, <2>2
<1>4. client[r] \in Clients /\ store[r] \in Stores
  BY <1>1, <1>3 DEF PlaceInv
<1>5. /\ now' = now /\ bucket' = bucket /\ caller' = caller /\ client' = client
      /\ store' = store /\ path' = path /\ allowed' = allowed /\ hitAt' = hitAt
  BY <1>3 DEF Stats
<1>6. /\ pc' = [pc EXCEPT ![r] = next] \/ pc' = [pc EXCEPT ![r] = "refused"]
      /\ pc'[r] \in {next, "refused"}
      /\ \A x \in Requests : x # r => pc'[x] = pc[x]
      /\ pc' \in [Requests -> Steps]
  BY <1>1, <1>3 DEF Stats, TypeOK, Steps
<1>7. stash' \in [Requests -> [by : Limiters \cup {Nobody}, remaining : Nat]]
  <2>1. stash \in [Requests -> [by : Limiters \cup {Nobody}, remaining : Nat]]
    BY <1>1 DEF TypeOK
  <2>2. Remaining(l, bucket[Key(l, client[r], store[r])]) \in Nat
    BY <1>4, StatsTypes
  <2>3. [by |-> l, remaining |-> Remaining(l, bucket[Key(l, client[r], store[r])])]
          \in [by : Limiters \cup {Nobody}, remaining : Nat]
    BY <2>2
  <2>4. stash' = stash \/
        stash' = [stash EXCEPT ![r] =
          [by |-> l, remaining |-> Remaining(l, bucket[Key(l, client[r], store[r])])]]
    BY <1>3 DEF Stats
  <2> QED
    BY <2>1, <2>3, <2>4
<1>8. retryAt' \in [Requests -> Nat]
  <2> DEFINE wait == (ResetTime(l, bucket[Key(l, client[r], store[r])]) - now) \div Second
             at == now + Second * (IF wait < 1 THEN 1 ELSE wait)
  <2>1. retryAt \in [Requests -> Nat] /\ now \in Nat
    BY <1>1, BookTypes DEF TypeOK
  <2>2. retryAt' = retryAt \/ retryAt' = [retryAt EXCEPT ![r] = at]
    BY <1>3 DEF Stats
  <2>3. at \in Nat
    <3>1. ResetTime(l, bucket[Key(l, client[r], store[r])]) \in Nat
      BY <1>4, StatsTypes
    <3> QED
      BY <2>1, <3>1, LimitsAssumption, ComeBackTime
  <2> HIDE DEF at
  <2> QED
    BY <2>1, <2>2, <2>3
<1>9. TypeOK'
  BY <1>1, <1>5, <1>6, <1>7, <1>8 DEF TypeOK, Keys
<1>10. PlaceInv(r)'
  BY <1>1, <1>3, <1>4, <1>5, <1>6 DEF PlaceInv
<1>11. \A x \in Requests : x # r => PlaceInv(x)'
  BY <1>1, <1>5, <1>6, SamePlace
<1>12. \A x \in Requests : PlaceInv(x)'
  BY <1>10, <1>11
<1> QED
  BY <1>2, <1>9, <1>12, BookPartsNext

LEMMA TickBooks ==
  ASSUME BookInv, Tick \/ UNCHANGED vars
  PROVE  BookInv'
<1>1. TypeOK /\ \A x \in Requests : PlaceInv(x)
  BY BookParts
<1>2. CountsInv'
  BY TickStep, QuietCounts
<1>3. /\ bucket' = bucket /\ caller' = caller /\ client' = client /\ store' = store
      /\ path' = path /\ pc' = pc /\ stash' = stash /\ allowed' = allowed
      /\ hitAt' = hitAt /\ retryAt' = retryAt
  BY DEF Tick, vars
<1>4. now' \in 0..MaxTime
  <2>1. now \in Nat /\ now <= MaxTime /\ MaxTime \in Nat
    BY BookTypes
  <2>2. (now < MaxTime /\ now' = now + 1) \/ now' = now
    BY DEF Tick, vars
  <2> QED
    BY <2>1, <2>2
<1>5. TypeOK'
  BY <1>1, <1>3, <1>4 DEF TypeOK, Keys
<1>6. \A x \in Requests : PlaceInv(x)'
  BY <1>1, <1>3, SamePlace
<1> QED
  BY <1>2, <1>5, <1>6, BookPartsNext

LEMMA NextBookInv == BookInv /\ [Next]_vars => BookInv'
BY GlobalHitBooks, RouteHitBooks, StatsBooks, TickBooks DEF Next

LEMMA SpecBookInv == Spec => []BookInv
BY InitBookInv, NextBookInv, PTL DEF Spec

\* Whatever the interleaving, every variable stays in its type: a window's end
\* is never before the epoch and what remains of a budget is never negative
\* (get_window_stats).
THEOREM RateLimitTypes == Spec => []TypeOK
<1>1. BookInv => TypeOK
  BY DEF BookInv
<1> QED
  BY <1>1, SpecBookInv, PTL

------------------------------------------------------------------------------
(* What a bucket remembers of the requests that were let through.  B is a  *)
(* bucket, P the requests its limiter let through, at[x] when it counted   *)
(* x, A and W the amount and the window, n the time.                       *)

\* A moving window keeps every admitted request that is still in reach.
MovingBook(B, P, at, A, W, n) ==
  /\ B \subseteq P
  /\ Cardinality(B) <= A
  /\ \A x \in P : at[x] + W >= n => x \in B

Late(B, P, at, W, n) == {x \in P \ B : at[x] > n - W}

\* A fixed window was opened by an admitted request, holds at most the amount
\* of them, and that many before it holds a refused one.  What earlier windows
\* let through is older than this window's requests, and less than a whole
\* amount of it is still in reach: the request that opened the last window
\* was out of reach when this one was opened.
FixedBook(B, P, at, A, W, n) ==
  /\ B # {} => \E b \in B \cap P : \A x \in B : at[b] <= at[x]
  /\ Cardinality(B \cap P) <= A
  /\ B \subseteq P \/ Cardinality(B \cap P) >= A
  /\ B = {} => P = {}
  /\ \A x \in P \ B, b \in B : at[x] <= at[b]
  /\ Cardinality(Late(B, P, at, W, n)) <= A - 1

LEMMA SubsetCount ==
  ASSUME NEW S, IsFiniteSet(S), NEW T \in SUBSET S
  PROVE  /\ IsFiniteSet(T)
         /\ Cardinality(T) \in Nat /\ Cardinality(S) \in Nat
         /\ Cardinality(T) <= Cardinality(S)
BY FS_Subset, FS_CardinalityType

LEMMA AddCount ==
  ASSUME NEW S, IsFiniteSet(S), NEW x, x \notin S
  PROVE  /\ IsFiniteSet(S \cup {x})
         /\ Cardinality(S \cup {x}) = Cardinality(S) + 1
         /\ Cardinality(S) \in Nat
BY FS_AddElement, FS_CardinalityType

LEMMA MovingHit ==
  ASSUME NEW B, NEW P, NEW at, NEW at2, NEW r, NEW C, NEW B2, NEW P2,
         NEW A \in Nat \ {0}, NEW W \in Nat \ {0}, NEW n \in Nat,
         IsFiniteSet(B), r \notin P,
         MovingBook(B, P, at, A, W, n),
         \A x \in P : at2[x] = at[x],
         C = {h \in B : at[h] + W >= n},
         B2 = IF Cardinality(C) < A THEN C \cup {r} ELSE C,
         P2 = IF Cardinality(C) < A THEN P \cup {r} ELSE P
  PROVE  MovingBook(B2, P2, at2, A, W, n)
<1>1. C \subseteq B /\ C \subseteq P /\ r \notin C
  BY DEF MovingBook
<1>2. /\ IsFiniteSet(C) /\ Cardinality(C) \in Nat /\ Cardinality(B) \in Nat
      /\ Cardinality(C) <= Cardinality(B)
  BY <1>1, SubsetCount
<1>3. Cardinality(C \cup {r}) = Cardinality(C) + 1
  BY <1>1, <1>2, AddCount
<1>4. \A x \in P : at2[x] + W >= n => x \in C
  BY DEF MovingBook
<1>5. CASE Cardinality(C) < A
  <2>1. B2 = C \cup {r} /\ P2 = P \cup {r}
    BY <1>5
  <2>2. Cardinality(B2) <= A
    BY <1>2, <1>3, <1>5, <2>1
  <2> QED
    BY <1>1, <1>4, <2>1, <2>2 DEF MovingBook
<1>6. CASE ~ (Cardinality(C) < A)
  <2>1. B2 = C /\ P2 = P
    BY <1>6
  <2>2. Cardinality(B2) <= A
    BY <1>2, <2>1 DEF MovingBook
  <2> QED
    BY <1>1, <1>4, <2>1, <2>2 DEF MovingBook
<1> QED
  BY <1>5, <1>6

LEMMA FixedHit ==
  ASSUME NEW B, NEW P, NEW at, NEW at2, NEW r, NEW C, NEW B2, NEW P2,
         NEW A \in Nat \ {0}, NEW W \in Nat \ {0}, NEW n \in Nat,
         IsFiniteSet(B), IsFiniteSet(P), r \notin P, r \notin B,
         FixedBook(B, P, at, A, W, n),
         \A x \in B \cup P : at[x] \in Nat /\ at[x] <= n /\ at2[x] = at[x],
         at2[r] = n,
         C = IF \E h \in B : at[h] + W <= n THEN {} ELSE B,
         B2 = C \cup {r},
         P2 = IF Cardinality(C) < A THEN P \cup {r} ELSE P
  PROVE  FixedBook(B2, P2, at2, A, W, n)
<1>1. Cardinality({}) = 0 /\ IsFiniteSet({}) /\ 0 < A /\ 0 <= A - 1 /\ 1 <= A
  BY FS_EmptySet
<1>2. Cardinality({r}) = 1
  BY FS_Singleton
<1>3. IsFiniteSet(B \cap P) /\ Cardinality(B \cap P) \in Nat
      /\ Cardinality(B) \in Nat /\ Cardinality(B \cap P) <= Cardinality(B)
  BY SubsetCount
<1>4. CASE C = {}
  <2>1. B2 = {r} /\ P2 = P \cup {r}
    BY <1>1, <1>4
  <2>2. B2 \cap P2 = {r} /\ P2 \ B2 = P
    BY <2>1
  <2>3. \A x \in P2 \ B2, b \in B2 : at2[x] <= at2[b]
    BY <2>1, <2>2
  <2>4. \E b \in B2 \cap P2 : \A x \in B2 : at2[b] <= at2[x]
    BY <2>1, <2>2
  <2>5. Cardinality(Late(B2, P2, at2, W, n)) <= A - 1
    <3>1. Late(B2, P2, at2, W, n) = {x \in P : at[x] > n - W}
      BY <2>2 DEF Late
    <3>2. CASE B = {}
      <4>1. {x \in P : at[x] > n - W} = {}
        BY <3>2 DEF FixedBook
      <4> QED
        BY <1>1, <3>1, <4>1
    <3>3. CASE B # {}
      <4>1. PICK h \in B : at[h] + W <= n
        BY <1>4, <3>3
      <4>2. PICK b \in B \cap P : \A x \in B : at[b] <= at[x]
        BY <3>3 DEF FixedBook
      <4>3. at[b] + W <= n /\ at[b] \in Nat
        BY <4>1, <4>2
      <4>4. \A x \in P : at[x] > n - W => x \in (B \cap P) \ {b}
        <5>1. \A x \in P \ B : at[x] <= at[b]
          BY DEF FixedBook
        <5> QED
          BY <4>3, <5>1
      <4>5. {x \in P : at[x] > n - W} \subseteq (B \cap P) \ {b}
        BY <4>4
      <4>6. /\ IsFiniteSet((B \cap P) \ {b})
            /\ Cardinality((B \cap P) \ {b}) = Cardinality(B \cap P) - 1
        BY <1>3, FS_RemoveElement
      <4>7. /\ Cardinality({x \in P : at[x] > n - W}) \in Nat
            /\ Cardinality({x \in P : at[x] > n - W}) <= Cardinality((B \cap P) \ {b})
        BY <4>5, <4>6, SubsetCount
      <4>8. Cardinality(B \cap P) <= A
        BY DEF FixedBook
      <4> DEFINE near == {x \in P : at[x] > n - W}
      <4>9. Cardinality(near) \in Nat /\ Cardinality(near) <= Cardinality(B \cap P) - 1
        BY <4>6, <4>7
      <4> HIDE DEF near
      <4>10. Cardinality(near) <= A - 1
        BY <1>3, <4>8, <4>9
      <4> QED
        BY <3>1, <4>10 DEF near
    <3> QED
      BY <3>2, <3>3
  <2> QED
    BY <1>1, <1>2, <2>1, <2>2, <2>3, <2>4, <2>5 DEF FixedBook
<1>5. CASE C # {}
  <2>1. C = B /\ B # {} /\ B2 = B \cup {r}
    BY <1>5
  <2>2. PICK b \in B \cap P : \A x \in B : at[b] <= at[x]
    BY <2>1 DEF FixedBook
  <2>3. \A x \in B2 : at2[b] <= at2[x]
    BY <2>1, <2>2
  <2>4. b \in B2 \cap P2 /\ P2 \ B2 = P \ B /\ B2 # {}
    BY <2>1
  <2>5. \A x \in P2 \ B2, d \in B2 : at2[x] <= at2[d]
    BY <2>1, <2>4 DEF FixedBook
  <2>6. Late(B2, P2, at2, W, n) = Late(B, P, at, W, n)
    BY <2>4 DEF Late
  <2>7. /\ Cardinality(B2 \cap P2) <= A
        /\ B2 \subseteq P2 \/ Cardinality(B2 \cap P2) >= A
    <3>1. CASE Cardinality(B) < A
      <4>1. P2 = P \cup {r} /\ B2 \cap P2 = (B \cap P) \cup {r}
        BY <2>1, <3>1
      <4>2. Cardinality((B \cap P) \cup {r}) = Cardinality(B \cap P) + 1
        BY <1>3, AddCount
      <4>3. ~ (Cardinality(B \cap P) >= A) /\ Cardinality(B \cap P) + 1 <= A
        BY <1>3, <3>1
      <4>4. B \subseteq P
        BY <4>3 DEF FixedBook
      <4> QED
        BY <2>1, <4>1, <4>2, <4>3, <4>4
    <3>2. CASE ~ (Cardinality(B) < A)
      <4>1. P2 = P /\ B2 \cap P2 = B \cap P
        BY <2>1, <3>2
      <4>2. B \subseteq P => B \cap P = B
        OBVIOUS
      <4>3. Cardinality(B \cap P) >= A
        <5>1. Cardinality(B) >= A
          BY <1>3, <3>2
        <5>2. CASE B \subseteq P
          BY <4>2, <5>1, <5>2
        <5>3. CASE ~ (B \subseteq P)
          BY <5>3 DEF FixedBook
        <5> QED
          BY <5>2, <5>3
      <4>4. Cardinality(B \cap P) <= A
        BY DEF FixedBook
      <4> QED
        BY <4>1, <4>3, <4>4
    <3> QED
      BY <3>1, <3>2
  <2>8. Cardinality(Late(B, P, at, W, n)) <= A - 1
    BY DEF FixedBook
  <2> QED
    BY <2>3, <2>4, <2>5, <2>6, <2>7, <2>8 DEF FixedBook
<1> QED
  BY <1>4, <1>5

\* What was let through within one window length.
LEMMA MovingReach ==
  ASSUME NEW B, NEW P, NEW at, NEW A, NEW W \in Nat, NEW n \in Nat,
         IsFiniteSet(B), A \in Nat, MovingBook(B, P, at, A, W, n),
         \A x \in P : at[x] \in Nat
  PROVE  Cardinality({x \in P : at[x] > n - W}) <= A
<1> DEFINE near == {x \in P : at[x] > n - W}
<1>1. near \subseteq B
  BY DEF MovingBook
<1>2. Cardinality(B) <= A
  BY DEF MovingBook
<1> HIDE DEF near
<1>3. Cardinality(near) \in Nat /\ Cardinality(B) \in Nat /\ Cardinality(near) <= Cardinality(B)
  BY <1>1, SubsetCount
<1>4. Cardinality(near) <= A
  BY <1>2, <1>3
<1> QED
  BY <1>4 DEF near

LEMMA FixedReach ==
  ASSUME NEW B, NEW P, NEW at, NEW A \in Nat, NEW W \in Nat, NEW n \in Nat,
         IsFiniteSet(B), IsFiniteSet(P), FixedBook(B, P, at, A, W, n)
  PROVE  Cardinality({x \in P : at[x] > n - W}) <= 2 * A - 1
<1> DEFINE near == {x \in P : at[x] > n - W}
           late == Late(B, P, at, W, n)
           held == B \cap P
<1>1. near \subseteq held \cup late /\ late \subseteq P /\ held \subseteq P
      /\ held \cap late = {}
  BY DEF Late
<1>2. Cardinality(held) <= A /\ Cardinality(late) <= A - 1
  BY DEF FixedBook
<1> HIDE DEF near, late, held
<1>3. /\ IsFiniteSet(late) /\ Cardinality(late) \in Nat
      /\ IsFiniteSet(held) /\ Cardinality(held) \in Nat
  BY <1>1, SubsetCount
<1>4. IsFiniteSet(held \cup late)
      /\ Cardinality(held \cup late) = Cardinality(held) + Cardinality(late) - Cardinality({})
  BY <1>1, <1>3, FS_Union
<1>5. Cardinality({}) = 0
  BY FS_EmptySet
<1>6. Cardinality(near) \in Nat /\ Cardinality(near) <= Cardinality(held \cup late)
  BY <1>1, <1>4, SubsetCount
<1>7. Cardinality(near) <= 2 * A - 1
  BY <1>2, <1>3, <1>4, <1>5, <1>6
<1> QED
  BY <1>7 DEF near

\* What a limiter that refuses had let through within one window length.
LEMMA MovingCause ==
  ASSUME NEW B, NEW P, NEW at, NEW A \in Nat, NEW W \in Nat, NEW n \in Nat, NEW C,
         IsFiniteSet(P), MovingBook(B, P, at, A, W, n),
         \A x \in P : at[x] \in Nat,
         C = {h \in B : at[h] + W >= n}, ~ (Cardinality(C) < A)
  PROVE  Cardinality({x \in P : at[x] >= n - W}) >= A
<1> DEFINE near == {x \in P : at[x] >= n - W}
<1>1. C \subseteq near /\ near \subseteq P
  BY DEF MovingBook
<1> HIDE DEF near
<1>2. IsFiniteSet(near)
  BY <1>1, SubsetCount
<1>3. Cardinality(near) \in Nat /\ Cardinality(C) \in Nat /\ Cardinality(C) <= Cardinality(near)
  BY <1>1, <1>2, SubsetCount
<1>4. Cardinality(near) >= A
  BY <1>3
<1> QED
  BY <1>4 DEF near

LEMMA FixedCause ==
  ASSUME NEW B, NEW P, NEW at, NEW A \in Nat \ {0}, NEW W \in Nat, NEW n \in Nat,
         NEW N \in SUBSET P,
         IsFiniteSet(B), IsFiniteSet(P), FixedBook(B, P, at, A, W, n),
         B \cap P \subseteq N,
         ~ (Cardinality(B) < A)
  PROVE  Cardinality(N) >= A
<1> DEFINE held == B \cap P
<1>1. Cardinality(B) \in Nat /\ Cardinality(B) >= A
  BY FS_CardinalityType
<1>2. Cardinality(held) >= A
  <2>1. CASE B \subseteq P
    <3>1. held = B
      BY <2>1
    <3> HIDE DEF held
    <3> QED
      BY <1>1, <3>1
  <2>2. CASE ~ (B \subseteq P)
    BY <2>2 DEF FixedBook
  <2> QED
    BY <2>1, <2>2
<1>3. IsFiniteSet(N)
  BY SubsetCount
<1> HIDE DEF held
<1>4. Cardinality(N) \in Nat /\ Cardinality(held) \in Nat
      /\ Cardinality(held) <= Cardinality(N)
  BY <1>3, SubsetCount DEF held
<1> QED
  BY <1>2, <1>4

\* The books stay right when time passes.
LEMMA BookAges ==
  ASSUME NEW B, NEW P, NEW at, NEW A \in Nat, NEW W \in Nat, NEW n \in Nat,
         NEW m \in Nat, n <= m, IsFiniteSet(P), \A x \in P : at[x] \in Nat
  PROVE  /\ MovingBook(B, P, at, A, W, n) => MovingBook(B, P, at, A, W, m)
         /\ FixedBook(B, P, at, A, W, n) => FixedBook(B, P, at, A, W, m)
<1>1. MovingBook(B, P, at, A, W, n) => MovingBook(B, P, at, A, W, m)
  BY DEF MovingBook
<1>2. ASSUME FixedBook(B, P, at, A, W, n) PROVE FixedBook(B, P, at, A, W, m)
  <2> DEFINE old == Late(B, P, at, W, n)
             new == Late(B, P, at, W, m)
  <2>1. new \subseteq old /\ old \subseteq P
    BY DEF Late
  <2>2. Cardinality(old) <= A - 1
    BY <1>2 DEF FixedBook
  <2> HIDE DEF old, new
  <2>3. IsFiniteSet(old)
    BY <2>1, SubsetCount
  <2>4. Cardinality(old) \in Nat /\ Cardinality(new) \in Nat /\ Cardinality(new) <= Cardinality(old)
    BY <2>1, <2>3, SubsetCount
  <2>5. Cardinality(new) <= A - 1
    BY <2>2, <2>4
  <2> QED
    BY <1>2, <2>5 DEF FixedBook, new
<1> QED
  BY <1>1, <1>2

------------------------------------------------------------------------------
(* Every bucket of the limiter keeps such a book.                          *)

Passed(l, c, w) ==
  {x \in Requests : client[x] = c /\ store[x] = w /\ l \in allowed[x]}

Times(l) == [x \in Requests |-> hitAt[x][l]]

Book(l, c, w) ==
  IF Strategy(l) = "moving"
  THEN MovingBook(bucket[Key(l, c, w)], Passed(l, c, w), Times(l), Amount(l), Window(l), now)
  ELSE FixedBook(bucket[Key(l, c, w)], Passed(l, c, w), Times(l), Amount(l), Window(l), now)

StoreInv ==
  \A l \in Limiters, c \in Clients, w \in Stores :
    IsFiniteSet(Passed(l, c, w)) /\ Book(l, c, w)

LEMMA PassedTimes ==
  ASSUME BookInv, NEW l \in Limiters, NEW c \in Clients, NEW w \in Stores
  PROVE  \A x \in bucket[Key(l, c, w)] \cup Passed(l, c, w) :
           /\ x \in Requests
           /\ Times(l)[x] = hitAt[x][l]
           /\ Times(l)[x] \in Nat
           /\ Times(l)[x] <= now
<1> SUFFICES ASSUME NEW x \in bucket[Key(l, c, w)] \cup Passed(l, c, w)
             PROVE  /\ x \in Requests
                    /\ Times(l)[x] = hitAt[x][l]
                    /\ Times(l)[x] \in Nat
                    /\ Times(l)[x] <= now
  OBVIOUS
<1>1. x \in Requests
  BY BookTypes DEF Passed
<1>2. hitAt[x][l] # Never
  BY <1>1, BookTypes DEF Passed
<1>3. hitAt[x][l] \in Nat /\ hitAt[x][l] <= now
  BY <1>1, <1>2, BookTypes
<1> QED
  BY <1>1, <1>3 DEF Times

LEMMA InitStoreInv == Init => StoreInv
<1> SUFFICES ASSUME Init, NEW l \in Limiters, NEW c \in Clients, NEW w \in Stores
             PROVE  IsFiniteSet(Passed(l, c, w)) /\ Book(l, c, w)
  BY DEF StoreInv
<1>1. bucket[Key(l, c, w)] = {}
  BY KeyInKeys DEF Init
<1>2. Passed(l, c, w) = {}
  BY DEF Init, Passed
<1>3. IsFiniteSet({}) /\ Cardinality({}) = 0
  BY FS_EmptySet
<1>4. 0 <= Amount(l) /\ 0 <= Amount(l) - 1
  BY LimitTypes
<1>5. MovingBook({}, {}, Times(l), Amount(l), Window(l), now)
  BY <1>3, <1>4 DEF MovingBook
<1>6. FixedBook({}, {}, Times(l), Amount(l), Window(l), now)
  <2>1. Late({}, {}, Times(l), Window(l), now) = {} /\ {} \cap {} = {}
    BY DEF Late
  <2> QED
    BY <1>3, <1>4, <2>1 DEF FixedBook
<1> QED
  BY <1>1, <1>2, <1>3, <1>5, <1>6 DEF Book

\* What a count changes in what was let through.
LEMMA HitPassed ==
  ASSUME BookInv, NEW r \in Requests, NEW l \in Limiters, NEW c \in Clients,
         NEW w \in Stores, HitStep(r, l, c, w)
  PROVE  /\ r \notin Passed(l, c, w) /\ r \notin bucket[Key(l, c, w)]
         /\ Passed(l, c, w)' = IF Admits(l, bucket[Key(l, c, w)])
                               THEN Passed(l, c, w) \cup {r} ELSE Passed(l, c, w)
         /\ \A k \in Limiters, d \in Clients, v \in Stores :
              <<k, d, v>> # <<l, c, w>> => Passed(k, d, v)' = Passed(k, d, v)
<1>1. hitAt[r][l] = Never /\ client'[r] = c /\ store'[r] = w
      /\ \A x \in Requests \ {r} : client'[x] = client[x] /\ store'[x] = store[x]
  BY DEF HitStep
<1>2. l \notin allowed[r] /\ r \notin bucket[Key(l, c, w)]
  BY <1>1, BookTypes
<1>3. \A x \in Requests, k \in Limiters :
        <<x, k>> # <<r, l>> => (k \in allowed'[x] <=> k \in allowed[x])
  BY HitEffects
<1>4. l \in allowed'[r] <=> Admits(l, bucket[Key(l, c, w)])
  BY HitEffects
<1>5. Passed(l, c, w)' = IF Admits(l, bucket[Key(l, c, w)])
                         THEN Passed(l, c, w) \cup {r} ELSE Passed(l, c, w)
  <2>1. \A x \in Requests : x # r => (x \in Passed(l, c, w)' <=> x \in Passed(l, c, w))
    BY <1>1, <1>3 DEF Passed
  <2>2. r \in Passed(l, c, w)' <=> Admits(l, bucket[Key(l, c, w)])
    BY <1>1, <1>4 DEF Passed
  <2>3. Passed(l, c, w) \subseteq Requests /\ Passed(l, c, w)' \subseteq Requests
        /\ r \notin Passed(l, c, w)
    BY <1>2 DEF Passed
  <2> QED
    BY <2>1, <2>2, <2>3
<1>6. ASSUME NEW k \in Limiters, NEW d \in Clients, NEW v \in Stores,
             <<k, d, v>> # <<l, c, w>>
      PROVE  Passed(k, d, v)' = Passed(k, d, v)
  <2>1. \A x \in Requests : x # r => (x \in Passed(k, d, v)' <=> x \in Passed(k, d, v))
    BY <1>1, <1>3 DEF Passed
  <2>2. r \in Passed(k, d, v)' <=> r \in Passed(k, d, v)
    <3>1. CASE k = l
      <4>1. ~ (c = d /\ w = v)
        BY <1>6, <3>1
      <4> QED
        BY <1>1, <1>2, <3>1, <4>1 DEF Passed
    <3>2. CASE k # l
      <4>1. k \in allowed'[r] <=> k \in allowed[r]
        BY <1>3, <3>2
      <4>2. k \in allowed[r] => client'[r] = client[r] /\ store'[r] = store[r]
        <5>1. k \in allowed[r] => hitAt[r][k] # Never
          BY BookTypes
        <5> QED
          BY <1>1, <5>1 DEF HitStep
      <4> QED
        BY <4>1, <4>2 DEF Passed
    <3> QED
      BY <3>1, <3>2
  <2>3. Passed(k, d, v) \subseteq Requests /\ Passed(k, d, v)' \subseteq Requests
    BY DEF Passed
  <2> QED
    BY <2>1, <2>2, <2>3
<1> QED
  BY <1>2, <1>5, <1>6 DEF Passed

LEMMA HitStoreInv ==
  ASSUME BookInv, StoreInv, NEW r \in Requests, NEW l \in Limiters, NEW c \in Clients,
         NEW w \in Stores, HitStep(r, l, c, w)
  PROVE  StoreInv'
<1>0. now' = now /\ now \in Nat
  BY BookTypes DEF HitStep
<1>1. ASSUME NEW k \in Limiters, NEW d \in Clients, NEW v \in Stores,
             <<k, d, v>> # <<l, c, w>>
      PROVE  IsFiniteSet(Passed(k, d, v)') /\ Book(k, d, v)'
  <2> DEFINE B == bucket[Key(k, d, v)]
             P == Passed(k, d, v)
             T == Times(k)
             T2 == Times(k)'
  <2>1. bucket'[Key(k, d, v)] = B /\ Passed(k, d, v)' = P
    BY <1>1, HitEffects, HitPassed
  <2>2. IsFiniteSet(P) /\ Book(k, d, v)
    BY DEF StoreInv
  <2>3. \A x \in B \cup P : T2[x] = T[x]
    <3>1. \A x \in B \cup P : x \in Requests
      BY PassedTimes
    <3>2. k = l => r \notin B \cup P
      <4>1. hitAt[r][l] = Never
        BY DEF HitStep
      <4> QED
        BY <4>1, BookTypes DEF Passed
    <3>3. \A x \in B \cup P : hitAt'[x][k] = hitAt[x][k]
      BY <3>1, <3>2, HitEffects
    <3> QED
      BY <3>1, <3>3 DEF Times
  <2> HIDE DEF B, P, T, T2
  <2>4. /\ MovingBook(B, P, T, Amount(k), Window(k), now)
             => MovingBook(B, P, T2, Amount(k), Window(k), now)
        /\ FixedBook(B, P, T, Amount(k), Window(k), now)
             => FixedBook(B, P, T2, Amount(k), Window(k), now)
    <3>1. Late(B, P, T2, Window(k), now) = Late(B, P, T, Window(k), now)
      BY <2>3 DEF Late
    <3>2. MovingBook(B, P, T, Amount(k), Window(k), now)
             => MovingBook(B, P, T2, Amount(k), Window(k), now)
      BY <2>3 DEF MovingBook
    <3>3. FixedBook(B, P, T, Amount(k), Window(k), now)
             => FixedBook(B, P, T2, Amount(k), Window(k), now)
      BY <2>3, <3>1 DEF FixedBook
    <3> QED
      BY <3>2, <3>3
  <2>5. Book(k, d, v)' =
          IF Strategy(k) = "moving"
          THEN MovingBook(B, P, T2, Amount(k), Window(k), now)
          ELSE FixedBook(B, P, T2, Amount(k), Window(k), now)
    BY <1>0, <2>1 DEF Book, Key, T2, Strategy, Amount, Window
  <2> QED
    BY <2>1, <2>2, <2>4, <2>5 DEF Book, B, P, T
<1>2. IsFiniteSet(Passed(l, c, w)') /\ Book(l, c, w)'
  <2> DEFINE B == bucket[Key(l, c, w)]
             P == Passed(l, c, w)
             T == Times(l)
             T2 == Times(l)'
             C == Counted(l, B)
             B2 == AfterHit(r, l, B)
             P2 == IF Admits(l, B) THEN P \cup {r} ELSE P
  <2>1. bucket'[Key(l, c, w)] = B2 /\ Passed(l, c, w)' = P2
    BY HitEffects, HitPassed
  <2>2. /\ IsFiniteSet(P) /\ Book(l, c, w) /\ IsFiniteSet(B)
        /\ r \notin P /\ r \notin B
    BY HitPassed, BookTypes DEF StoreInv
  <2>3. \A x \in B \cup P : T[x] = hitAt[x][l] /\ T[x] \in Nat /\ T[x] <= now /\ T2[x] = T[x]
    <3>1. \A x \in B \cup P : x \in Requests /\ T[x] = hitAt[x][l]
                              /\ T[x] \in Nat /\ T[x] <= now
      BY PassedTimes
    <3>2. \A x \in B \cup P : hitAt'[x][l] = hitAt[x][l]
      BY <2>2, <3>1, HitEffects
    <3> QED
      BY <3>1, <3>2 DEF Times
  <2>4. T2[r] = now
    BY HitEffects DEF Times
  <2>5. /\ Amount(l) \in Nat \ {0} /\ Window(l) \in Nat \ {0}
        /\ Strategy(l) \in {"fixed", "moving"}
    BY LimitTypes
  <2>6. Admits(l, B) <=> Cardinality(C) < Amount(l)
    BY DEF Admits, Used
  <2>7. Book(l, c, w)' =
          IF Strategy(l) = "moving"
          THEN MovingBook(B2, P2, T2, Amount(l), Window(l), now)
          ELSE FixedBook(B2, P2, T2, Amount(l), Window(l), now)
    <3> HIDE DEF B2, P2, T2
    <3> QED
      BY <1>0, <2>1 DEF Book, Key, T2, Strategy, Amount, Window
  <2>8. IsFiniteSet(P2)
    BY <2>2, FS_AddElement
  <2>9. CASE Strategy(l) = "moving"
    <3>1. MovingBook(B, P, T, Amount(l), Window(l), now)
      BY <2>2, <2>9 DEF Book
    <3>2. C = {h \in B : T[h] + Window(l) >= now}
      <4>1. C = {h \in B : hitAt[h][l] + Window(l) >= now}
        BY <2>9 DEF Counted
      <4> QED
        BY <2>3, <4>1
    <3>3. /\ B2 = IF Cardinality(C) < Amount(l) THEN C \cup {r} ELSE C
          /\ P2 = IF Cardinality(C) < Amount(l) THEN P \cup {r} ELSE P
      BY <2>6, <2>9 DEF AfterHit
    <3>4. \A x \in P : T2[x] = T[x]
      BY <2>3
    <3> HIDE DEF B, P, T, T2, C, B2, P2
    <3>5. MovingBook(B2, P2, T2, Amount(l), Window(l), now)
      BY <1>0, <2>2, <2>5, <3>1, <3>2, <3>3, <3>4, MovingHit
    <3> QED
      BY <2>1, <2>7, <2>8, <2>9, <3>5
  <2>10. CASE Strategy(l) = "fixed"
    <3>1. FixedBook(B, P, T, Amount(l), Window(l), now)
      BY <2>2, <2>10 DEF Book
    <3>2. C = IF \E h \in B : T[h] + Window(l) <= now THEN {} ELSE B
      <4>1. C = IF \E h \in B : hitAt[h][l] + Window(l) <= now THEN {} ELSE B
        BY <2>10 DEF Counted
      <4> QED
        BY <2>3, <4>1
    <3>3. /\ B2 = C \cup {r}
          /\ P2 = IF Cardinality(C) < Amount(l) THEN P \cup {r} ELSE P
      BY <2>6, <2>10 DEF AfterHit
    <3>4. \A x \in B \cup P : T[x] \in Nat /\ T[x] <= now /\ T2[x] = T[x]
      BY <2>3
    <3> HIDE DEF B, P, T, T2, C, B2, P2
    <3>5. FixedBook(B2, P2, T2, Amount(l), Window(l), now)
      BY <1>0, <2>2, <2>4, <2>5, <3>1, <3>2, <3>3, <3>4, FixedHit
    <3> QED
      BY <2>1, <2>7, <2>8, <2>10, <3>5
  <2> QED
    BY <2>5, <2>9, <2>10
<1>3. \A k \in Limiters, d \in Clients, v \in Stores :
        IsFiniteSet(Passed(k, d, v)') /\ Book(k, d, v)'
  BY <1>1, <1>2
<1> QED
  BY <1>3 DEF StoreInv

LEMMA QuietStoreInv ==
  ASSUME BookInv, StoreInv, QuietStep
  PROVE  StoreInv'
<1> SUFFICES ASSUME NEW l \in Limiters, NEW c \in Clients, NEW w \in Stores
             PROVE  IsFiniteSet(Passed(l, c, w)') /\ Book(l, c, w)'
  BY DEF StoreInv
<1> DEFINE B == bucket[Key(l, c, w)]
           P == Passed(l, c, w)
           T == Times(l)
<1>1. now \in Nat /\ now' \in Nat /\ now <= now'
  BY BookTypes DEF QuietStep
<1>2. bucket'[Key(l, c, w)] = B /\ Passed(l, c, w)' = P /\ Times(l)' = T
  BY DEF QuietStep, Passed, Times
<1>3. IsFiniteSet(P) /\ Book(l, c, w)
  BY DEF StoreInv
<1>4. \A x \in P : T[x] \in Nat
  BY PassedTimes
<1>5. Amount(l) \in Nat /\ Window(l) \in Nat
  BY LimitTypes
<1>6. Book(l, c, w)' =
        IF Strategy(l) = "moving"
        THEN MovingBook(B, P, T, Amount(l), Window(l), now')
        ELSE FixedBook(B, P, T, Amount(l), Window(l), now')
  <2> HIDE DEF B, P, T
  <2> QED
    BY <1>2 DEF Book, Key, Strategy, Amount, Window
<1>7. Book(l, c, w) =
        IF Strategy(l) = "moving"
        THEN MovingBook(B, P, T, Amount(l), Window(l), now)
        ELSE FixedBook(B, P, T, Amount(l), Window(l), now)
  BY DEF Book
<1> HIDE DEF B, P, T
<1> QED
  BY <1>1, <1>2, <1>3, <1>4, <1>5, <1>6, <1>7, BookAges

LEMMA NextStoreInv == BookInv /\ StoreInv /\ [Next]_vars => StoreInv'
BY StepKinds, HitStoreInv, QuietStoreInv

LEMMA SpecStoreInv == Spec => []StoreInv
BY InitStoreInv, NextStoreInv, SpecBookInv, PTL DEF Spec

------------------------------------------------------------------------------
(* Bursts and refusals.                                                    *)

LEMMA AdmittedPassed ==
  ASSUME NEW l, NEW c, NEW w, NEW a, NEW b
  PROVE  Admitted(l, c, w, a, b) = {x \in Passed(l, c, w) : hitAt[x][l] \in a..b}
BY DEF Admitted, Passed

\* A count adds to what was let through, and only at the present time.
LEMMA HitAdmitted ==
  ASSUME BookInv, NEW r \in Requests, NEW l \in Limiters, NEW c \in Clients,
         NEW w \in Stores, HitStep(r, l, c, w),
         NEW k \in Limiters, NEW d \in Clients, NEW v \in Stores,
         NEW a \in Int, NEW b \in Int
  PROVE  /\ Admitted(k, d, v, a, b) \subseteq Admitted(k, d, v, a, b)'
         /\ b < now => Admitted(k, d, v, a, b)' = Admitted(k, d, v, a, b)
<1> DEFINE P == Passed(k, d, v)
           P2 == Passed(k, d, v)'
<1>1. Admitted(k, d, v, a, b) = {x \in P : hitAt[x][k] \in a..b}
  BY AdmittedPassed
<1>2. Admitted(k, d, v, a, b)' = {x \in P2 : hitAt'[x][k] \in a..b}
  BY DEF Admitted, Passed
<1>3. P \subseteq P2 /\ \A x \in P2 \ P : x = r /\ k = l
  BY HitPassed
<1>4. \A x \in P : hitAt'[x][k] = hitAt[x][k]
  <2>1. P \subseteq Requests
    BY DEF Passed
  <2>2. k = l => r \notin P
    <3>1. hitAt[r][l] = Never
      BY DEF HitStep
    <3> QED
      BY <3>1, BookTypes DEF Passed
  <2> QED
    BY <2>1, <2>2, HitEffects
<1>5. hitAt'[r][l] = now /\ now \in Nat
  BY HitEffects, BookTypes
<1>6. b < now => \A x \in P2 \ P : ~ (hitAt'[x][k] \in a..b)
  BY <1>3, <1>5
<1> HIDE DEF P, P2
<1> QED
  BY <1>1, <1>2, <1>3, <1>4, <1>6

LEMMA QuietAdmitted ==
  ASSUME QuietStep, NEW k, NEW d, NEW v, NEW a, NEW b
  PROVE  Admitted(k, d, v, a, b)' = Admitted(k, d, v, a, b)
BY DEF QuietStep, Admitted

Burst(l) == IF Strategy(l) = "fixed" THEN 2 * Amount(l) - 1 ELSE Amount(l)

\* The bound for the window that ends now.
NowBound ==
  \A l \in Limiters, c \in Clients, w \in Stores :
    Cardinality(Admitted(l, c, w, now - Window(l) + 1, now)) <= Burst(l)

LEMMA BooksBound == BookInv /\ StoreInv => NowBound
<1> SUFFICES ASSUME BookInv, StoreInv,
                    NEW l \in Limiters, NEW c \in Clients, NEW w \in Stores
             PROVE  Cardinality(Admitted(l, c, w, now - Window(l) + 1, now)) <= Burst(l)
  BY DEF NowBound
<1> DEFINE B == bucket[Key(l, c, w)]
           P == Passed(l, c, w)
           T == Times(l)
           near == {x \in P : T[x] > now - Window(l)}
<1>1. /\ now \in Nat
      /\ Amount(l) \in Nat /\ Window(l) \in Nat
      /\ Strategy(l) \in {"fixed", "moving"}
  BY BookTypes, LimitTypes
<1>2. \A x \in P : T[x] = hitAt[x][l] /\ T[x] \in Nat /\ T[x] <= now
  BY PassedTimes
<1>3. Admitted(l, c, w, now - Window(l) + 1, now) = near
  <2>1. Admitted(l, c, w, now - Window(l) + 1, now)
          = {x \in P : hitAt[x][l] \in (now - Window(l) + 1)..now}
    BY AdmittedPassed
  <2>2. \A x \in P : hitAt[x][l] \in (now - Window(l) + 1)..now <=> T[x] > now - Window(l)
    <3> HIDE DEF P, T
    <3> QED
      BY <1>1, <1>2
  <2> QED
    BY <2>1, <2>2
<1>4. IsFiniteSet(P) /\ IsFiniteSet(B)
  BY BookTypes DEF StoreInv
<1>5. CASE Strategy(l) = "moving"
  <2>1. MovingBook(B, P, T, Amount(l), Window(l), now)
    BY <1>5 DEF StoreInv, Book
  <2>2. \A x \in P : T[x] \in Nat
    BY <1>2
  <2> HIDE DEF B, P, T
  <2>3. Cardinality(near) <= Amount(l)
    BY <1>1, <1>4, <2>1, <2>2, MovingReach
  <2> QED
    BY <1>3, <1>5, <2>3 DEF Burst
<1>6. CASE Strategy(l) = "fixed"
  <2>1. FixedBook(B, P, T, Amount(l), Window(l), now)
    BY <1>6 DEF StoreInv, Book
  <2> HIDE DEF B, P, T
  <2>2. Cardinality(near) <= 2 * Amount(l) - 1
    BY <1>1, <1>4, <2>1, FixedReach
  <2> QED
    BY <1>3, <1>6, <2>2 DEF Burst
<1> QED
  BY <1>1, <1>5, <1>6

LEMMA NextBurstBound ==
  BurstBound /\ BookInv /\ NowBound' /\ [Next]_vars => BurstBound'
<1> SUFFICES ASSUME BurstBound, BookInv, NowBound', [Next]_vars,
                    NEW l \in Limiters, NEW c \in Clients, NEW w \in Stores,
                    NEW t \in 0..now'
             PROVE  Cardinality(Admitted(l, c, w, t - Window(l) + 1, t)') <= Burst(l)
  BY DEF BurstBound, Burst, Amount, Window, Strategy
<1>1. now \in Nat /\ (now' = now \/ now' = now + 1) /\ Window(l) \in Nat
  BY StepKinds, BookTypes, LimitTypes DEF HitStep, QuietStep
<1>2. t \in Nat /\ t - Window(l) + 1 \in Int /\ t <= now'
  BY <1>1
<1>3. CASE t = now'
  <2>1. Cardinality(Admitted(l, c, w, now - Window(l) + 1, now)') <= Burst(l)
    BY DEF NowBound, Burst, Amount, Window, Strategy
  <2>2. Admitted(l, c, w, t - Window(l) + 1, t)' = Admitted(l, c, w, now - Window(l) + 1, now)'
    BY <1>3 DEF Admitted, Window
  <2> QED
    BY <2>1, <2>2
<1>4. CASE t # now'
  <2>1. t \in 0..now
    BY <1>1, <1>2, <1>4
  <2>2. Cardinality(Admitted(l, c, w, t - Window(l) + 1, t)) <= Burst(l)
    BY <2>1 DEF BurstBound, Burst
  <2>3. Admitted(l, c, w, t - Window(l) + 1, t)' = Admitted(l, c, w, t - Window(l) + 1, t)
    <3>1. CASE QuietStep
      BY <3>1 DEF QuietStep, Admitted, Window
    <3>2. ASSUME NEW r \in Requests, NEW k \in Limiters, NEW d \in Clients,
                 NEW v \in Stores, HitStep(r, k, d, v)
          PROVE  Admitted(l, c, w, t - Window(l) + 1, t)' = Admitted(l, c, w, t - Window(l) + 1, t)
      <4>1. t < now
        BY <1>1, <1>2, <1>4, <3>2 DEF HitStep
      <4>2. PICK a \in Int : a = t - Window(l) + 1
        BY <1>2
      <4>3. Admitted(l, c, w, a, t)' = Admitted(l, c, w, a, t)
        BY <1>2, <3>2, <4>1, HitAdmitted
      <4> QED
        BY <4>2, <4>3 DEF Admitted, Window
    <3> QED
      BY <3>1, <3>2, StepKinds
  <2> QED
    BY <2>2, <2>3
<1> QED
  BY <1>3, <1>4

\* However many requests, storages and window ends interleave, a moving window
\* lets no more of a client through within one window length than the amount,
\* a fixed one less than twice the amount (rate_limit, limits).
THEOREM BurstsBounded == Spec => []BurstBound
<1>1. Init /\ NowBound => BurstBound
  <2> SUFFICES ASSUME Init, NowBound, NEW l \in Limiters, NEW c \in Clients,
                      NEW w \in Stores, NEW t \in 0..now
               PROVE  Cardinality(Admitted(l, c, w, t - Window(l) + 1, t)) <= Burst(l)
    BY DEF BurstBound, Burst
  <2>1. t = now
    BY DEF Init
  <2> QED
    BY <2>1 DEF NowBound
<1> QED
  BY <1>1, BooksBound, NextBurstBound, SpecBookInv, SpecStoreInv, PTL DEF Spec

\* A limiter that does not admit a request has let its amount through.
LEMMA RefusalCause ==
  ASSUME BookInv, StoreInv, NEW l \in Limiters, NEW c \in Clients, NEW w \in Stores,
         ~ Admits(l, bucket[Key(l, c, w)])
  PROVE  Cardinality(Admitted(l, c, w, now - Window(l), now)) >= Amount(l)
<1> DEFINE B == bucket[Key(l, c, w)]
           P == Passed(l, c, w)
           T == Times(l)
           C == Counted(l, B)
           near == {x \in P : T[x] >= now - Window(l)}
<1>1. /\ now \in Nat
      /\ Amount(l) \in Nat \ {0} /\ Window(l) \in Nat
      /\ Strategy(l) \in {"fixed", "moving"}
  BY BookTypes, LimitTypes
<1>2. \A x \in B \cup P : T[x] = hitAt[x][l] /\ T[x] \in Nat /\ T[x] <= now
  BY PassedTimes
<1>3. Admitted(l, c, w, now - Window(l), now) = near
  <2>1. Admitted(l, c, w, now - Window(l), now)
          = {x \in P : hitAt[x][l] \in (now - Window(l))..now}
    BY AdmittedPassed
  <2>2. \A x \in P : hitAt[x][l] \in (now - Window(l))..now <=> T[x] >= now - Window(l)
    <3> HIDE DEF P, T
    <3> QED
      BY <1>1, <1>2
  <2> QED
    BY <2>1, <2>2
<1>4. IsFiniteSet(P) /\ IsFiniteSet(B) /\ ~ (Cardinality(C) < Amount(l))
  BY BookTypes DEF StoreInv, Admits, Used
<1>5. CASE Strategy(l) = "moving"
  <2>1. MovingBook(B, P, T, Amount(l), Window(l), now)
    BY <1>5 DEF StoreInv, Book
  <2>2. C = {h \in B : T[h] + Window(l) >= now}
    <3>1. C = {h \in B : hitAt[h][l] + Window(l) >= now}
      BY <1>5 DEF Counted
    <3> QED
      BY <1>2, <3>1
  <2>3. \A x \in P : T[x] \in Nat
    BY <1>2
  <2> HIDE DEF B, P, T, C
  <2>4. Cardinality(near) >= Amount(l)
    BY <1>1, <1>4, <2>1, <2>2, <2>3, MovingCause
  <2> QED
    BY <1>3, <2>4
<1>6. CASE Strategy(l) = "fixed"
  <2>1. FixedBook(B, P, T, Amount(l), Window(l), now)
    BY <1>6 DEF StoreInv, Book
  <2>2. C = IF \E h \in B : T[h] + Window(l) <= now THEN {} ELSE B
    <3>1. C = IF \E h \in B : hitAt[h][l] + Window(l) <= now THEN {} ELSE B
      BY <1>6 DEF Counted
    <3> QED
      BY <1>2, <3>1
  <2>3. C = B /\ \A h \in B : ~ (T[h] + Window(l) <= now)
    <3> HIDE DEF B, T, C
    <3>1. C # {}
      BY <1>1, <1>4, FS_EmptySet
    <3> QED
      BY <2>2, <3>1
  <2>4. near \subseteq P /\ B \cap P \subseteq near
    <3> HIDE DEF B, T, P
    <3> QED
      BY <1>1, <1>2, <2>3
  <2> HIDE DEF B, P, T, C, near
  <2>5. Cardinality(near) >= Amount(l)
    BY <1>1, <1>4, <2>1, <2>3, <2>4, FixedCause
  <2> QED
    BY <1>3, <2>5
<1> QED
  BY <1>1, <1>5, <1>6

LEMMA NextRefusedForCause ==
  RefusedForCause /\ BookInv /\ StoreInv /\ BookInv' /\ StoreInv' /\ [Next]_vars
    => RefusedForCause'
<1> SUFFICES ASSUME RefusedForCause, BookInv, StoreInv, BookInv', StoreInv', [Next]_vars,
                    NEW x \in Requests, NEW k \in Limiters,
                    hitAt'[x][k] # Never, k \notin allowed'[x]
             PROVE  Cardinality(Admitted(k, client[x], store[x],
                                hitAt[x][k] - Window(k), hitAt[x][k])') >= Amount(k)
  BY DEF RefusedForCause, Amount, Window
<1>1. CASE QuietStep
  <2>1. hitAt[x][k] # Never /\ k \notin allowed[x]
    BY <1>1 DEF QuietStep
  <2>2. Cardinality(Admitted(k, client[x], store[x],
                             hitAt[x][k] - Window(k), hitAt[x][k])) >= Amount(k)
    BY <2>1 DEF RefusedForCause
  <2> QED
    BY <1>1, <2>2 DEF QuietStep, Admitted, Window
<1>2. ASSUME NEW r \in Requests, NEW l \in Limiters, NEW c \in Clients, NEW w \in Stores,
             HitStep(r, l, c, w)
      PROVE  Cardinality(Admitted(k, client[x], store[x],
                                  hitAt[x][k] - Window(k), hitAt[x][k])') >= Amount(k)
  <2>1. PICK a \in Int, b \in Int, d \in Clients, v \in Stores :
          /\ a = hitAt'[x][k] - Window(k) /\ b = hitAt'[x][k]
          /\ d = client'[x] /\ v = store'[x]
          /\ Cardinality(Admitted(k, d, v, a, b)) >= Amount(k)
    <3>1. CASE x = r /\ k = l
      <4>1. hitAt'[x][k] = now /\ client'[x] = c /\ store'[x] = w
        BY <1>2, <3>1, HitEffects DEF HitStep
      <4>2. ~ Admits(k, bucket[Key(k, c, w)])
        BY <1>2, <3>1, HitEffects
      <4>3. Cardinality(Admitted(k, c, w, now - Window(k), now)) >= Amount(k)
        BY <4>2, RefusalCause
      <4>4. now \in Int /\ now - Window(k) \in Int
        BY BookTypes, LimitTypes
      <4> QED
        BY <4>1, <4>3, <4>4
    <3>2. CASE ~ (x = r /\ k = l)
      <4>1. hitAt'[x][k] = hitAt[x][k] /\ k \notin allowed[x] /\ hitAt[x][k] # Never
        BY <1>2, <3>2, HitEffects
      <4>2. client'[x] = client[x] /\ store'[x] = store[x]
        BY <1>2, <4>1 DEF HitStep
      <4>3. client[x] \in Clients /\ store[x] \in Stores
        BY <4>1 DEF BookInv
      <4>4. hitAt[x][k] \in Int /\ hitAt[x][k] - Window(k) \in Int
        <5>1. hitAt[x][k] \in Nat /\ Window(k) \in Nat
          BY <4>1, BookTypes, LimitTypes
        <5> QED
          BY <5>1
      <4>5. Cardinality(Admitted(k, client[x], store[x],
                                 hitAt[x][k] - Window(k), hitAt[x][k])) >= Amount(k)
        BY <4>1 DEF RefusedForCause
      <4> QED
        BY <4>1, <4>2, <4>3, <4>4, <4>5
    <3> QED
      BY <3>1, <3>2
  <2>2. Admitted(k, d, v, a, b) \subseteq Admitted(k, d, v, a, b)'
    BY <1>2, HitAdmitted
  <2>3. IsFiniteSet(Admitted(k, d, v, a, b)')
    <3>1. Admitted(k, d, v, a, b)' \subseteq Passed(k, d, v)'
      BY DEF Admitted, Passed
    <3>2. IsFiniteSet(Passed(k, d, v)')
      BY DEF StoreInv
    <3> QED
      BY <3>1, <3>2, FS_Subset
  <2>4. Cardinality(Admitted(k, d, v, a, b)') >= Amount(k)
    <3> DEFINE old == Admitted(k, d, v, a, b)
               new == Admitted(k, d, v, a, b)'
    <3>1. Cardinality(old) >= Amount(k) /\ Amount(k) \in Nat
      BY <2>1, LimitTypes
    <3> HIDE DEF old, new
    <3>2. Cardinality(old) \in Nat /\ Cardinality(new) \in Nat
          /\ Cardinality(old) <= Cardinality(new)
      BY <2>2, <2>3, SubsetCount DEF old, new
    <3>3. Cardinality(new) >= Amount(k)
      BY <3>1, <3>2
    <3> QED
      BY <3>3 DEF new
  <2>5. Admitted(k, client[x], store[x], hitAt[x][k] - Window(k), hitAt[x][k])'
          = Admitted(k, d, v, a, b)'
    BY <2>1 DEF Admitted, Window
  <2> QED
    BY <2>4, <2>5
<1> QED
  BY <1>1, <1>2, StepKinds

\* A limiter that refuses a request has let its amount of that client's
\* requests through within the last window length: a client is never kept out
\* by its own refused retries (rate_limit, limits).
THEOREM RefusalsHaveCause == Spec => []RefusedForCause
<1>1. Init => RefusedForCause
  BY DEF Init, RefusedForCause
<1> QED
  BY <1>1, NextRefusedForCause, SpecBookInv, SpecStoreInv, PTL DEF Spec

------------------------------------------------------------------------------
(* The reported budget.                                                    *)

\* When a limiter reports that something remains, it is below its amount until
\* it counts another request of that client.
BudgetOf(q, l) ==
  stash[q].by = l /\ stash[q].remaining > 0 =>
    /\ hitAt[q][l] # Never
    /\ \/ \E x \in Requests \ {q} :
            /\ client[x] = client[q] /\ store[x] = store[q]
            /\ hitAt[x][l] >= hitAt[q][l]
       \/ Used(l, bucket[Key(l, client[q], store[q])]) < Amount(l)

BudgetInv == \A q \in Requests, l \in Limiters : BudgetOf(q, l)

LEMMA HitBudget ==
  ASSUME BookInv, BudgetInv, NEW r \in Requests, NEW l \in Limiters, NEW c \in Clients,
         NEW w \in Stores, HitStep(r, l, c, w), stash' = stash
  PROVE  BudgetInv'
<1> SUFFICES ASSUME NEW q \in Requests, NEW k \in Limiters,
                    stash[q].by = k, stash[q].remaining > 0
             PROVE  /\ hitAt'[q][k] # Never
                    /\ \/ \E x \in Requests \ {q} :
                            /\ client'[x] = client'[q] /\ store'[x] = store'[q]
                            /\ hitAt'[x][k] >= hitAt'[q][k]
                       \/ Used(k, bucket[Key(k, client[q], store[q])])' < Amount(k)
  BY DEF BudgetInv, BudgetOf, Amount
<1>1. /\ hitAt[q][k] # Never /\ hitAt[q][k] \in Nat /\ hitAt[q][k] <= now
      /\ \/ \E x \in Requests \ {q} :
              /\ client[x] = client[q] /\ store[x] = store[q]
              /\ hitAt[x][k] >= hitAt[q][k]
         \/ Used(k, bucket[Key(k, client[q], store[q])]) < Amount(k)
  BY BookTypes DEF BudgetInv, BudgetOf
<1>2. hitAt[r][l] = Never /\ client'[r] = c /\ store'[r] = w
      /\ hitAt'[r][l] = now /\ now' = now /\ now \in Nat
  BY HitEffects, BookTypes DEF HitStep
<1>3. \A x \in Requests : hitAt[x][k] # Never =>
        /\ client'[x] = client[x] /\ store'[x] = store[x]
        /\ hitAt'[x][k] = hitAt[x][k]
  BY <1>2, HitEffects DEF HitStep
<1>4. client[q] \in Clients /\ store[q] \in Stores
  BY <1>1 DEF BookInv
<1>5. CASE \E x \in Requests \ {q} :
             /\ client[x] = client[q] /\ store[x] = store[q]
             /\ hitAt[x][k] >= hitAt[q][k]
  <2>1. PICK x \in Requests \ {q} :
          /\ client[x] = client[q] /\ store[x] = store[q]
          /\ hitAt[x][k] >= hitAt[q][k]
    BY <1>5
  <2>2. hitAt[x][k] # Never
    BY <1>1, <2>1 DEF Never
  <2> QED
    BY <1>1, <1>3, <2>1, <2>2
<1>6. CASE Used(k, bucket[Key(k, client[q], store[q])]) < Amount(k)
  <2>1. CASE <<k, client[q], store[q]>> = <<l, c, w>>
    <3>1. r \in Requests \ {q} /\ hitAt'[r][k] >= hitAt'[q][k]
      BY <1>1, <1>2, <1>3, <2>1
    <3> QED
      BY <1>1, <1>2, <1>3, <2>1, <3>1
  <2>2. CASE <<k, client[q], store[q]>> # <<l, c, w>>
    <3> DEFINE B == bucket[Key(k, client[q], store[q])]
    <3>1. bucket'[Key(k, client[q], store[q])] = B
      BY <1>4, <2>2, HitEffects
    <3>2. \A x \in B : x \in Requests /\ hitAt[x][k] # Never
      BY <1>4, BookTypes
    <3>3. \A x \in B : hitAt'[x][k] = hitAt[x][k]
      BY <1>3, <3>2
    <3>4. bucket[Key(k, client[q], store[q])]' = B
      BY <1>1, <1>3, <3>1 DEF Key
    <3> HIDE DEF B
    <3>5. Used(k, bucket[Key(k, client[q], store[q])])' = Used(k, B)
      BY <1>2, <3>3, <3>4 DEF Used, Counted, Window, Strategy
    <3>6. Used(k, bucket[Key(k, client[q], store[q])])' < Amount(k)
      BY <1>6, <3>5 DEF B
    <3> QED
      BY <1>1, <1>3, <3>6
  <2> QED
    BY <2>1, <2>2
<1> QED
  BY <1>1, <1>5, <1>6

\* Time only takes counts out of reach.
LEMMA UsedAges ==
  ASSUME BookInv, NEW l \in Limiters, NEW c \in Clients, NEW w \in Stores,
         bucket' = bucket, hitAt' = hitAt, now' = now \/ now' = now + 1
  PROVE  Used(l, bucket[Key(l, c, w)])' <= Used(l, bucket[Key(l, c, w)])
         /\ Used(l, bucket[Key(l, c, w)])' \in Nat
         /\ Used(l, bucket[Key(l, c, w)]) \in Nat
<1> DEFINE B == bucket[Key(l, c, w)]
           old == Counted(l, B)
           new == Counted(l, B)'
<1>1. now \in Nat /\ Window(l) \in Nat /\ IsFiniteSet(B)
      /\ \A x \in B : hitAt[x][l] \in Nat
  <2>1. \A x \in B : x \in Requests /\ hitAt[x][l] # Never
    BY BookTypes
  <2> QED
    BY <2>1, BookTypes, LimitTypes
<1>2. B' = B
  BY DEF Key
<1>3. new \subseteq old
  <2>1. CASE Strategy(l) = "fixed"
    <3>1. old = IF \E h \in B : hitAt[h][l] + Window(l) <= now THEN {} ELSE B
      BY <2>1 DEF Counted
    <3>2. new = IF \E h \in B : hitAt[h][l] + Window(l) <= now' THEN {} ELSE B
      BY <1>2, <2>1 DEF Counted, Strategy, Window
    <3> HIDE DEF B, old, new
    <3> QED
      BY <1>1, <3>1, <3>2
  <2>2. CASE Strategy(l) # "fixed"
    <3>1. old = {h \in B : hitAt[h][l] + Window(l) >= now}
      BY <2>2 DEF Counted
    <3>2. new = {h \in B : hitAt[h][l] + Window(l) >= now'}
      BY <1>2, <2>2 DEF Counted, Strategy, Window
    <3> HIDE DEF B, old, new
    <3> QED
      BY <1>1, <3>1, <3>2
  <2> QED
    BY <2>1, <2>2
<1>4. old \subseteq B
  BY CountedFinite, <1>1
<1>5. Used(l, B) = Cardinality(old) /\ Used(l, B)' = Cardinality(new)
  BY DEF Used
<1> HIDE DEF B, old, new
<1>6. IsFiniteSet(old)
  BY <1>1, <1>4, SubsetCount
<1>7. Cardinality(new) <= Cardinality(old) /\ Cardinality(new) \in Nat
      /\ Cardinality(old) \in Nat
  BY <1>3, <1>6, SubsetCount
<1> QED
  BY <1>5, <1>7 DEF B

LEMMA QuietBudget ==
  ASSUME BookInv, QuietStep, NEW q \in Requests, NEW k \in Limiters, BudgetOf(q, k),
         stash'[q] = stash[q]
  PROVE  BudgetOf(q, k)'
<1> SUFFICES ASSUME stash[q].by = k, stash[q].remaining > 0
             PROVE  /\ hitAt[q][k] # Never
                    /\ \/ \E x \in Requests \ {q} :
                            /\ client[x] = client[q] /\ store[x] = store[q]
                            /\ hitAt[x][k] >= hitAt[q][k]
                       \/ Used(k, bucket[Key(k, client[q], store[q])])' < Amount(k)
  BY DEF BudgetOf, QuietStep, Amount
<1>1. /\ hitAt[q][k] # Never
      /\ \/ \E x \in Requests \ {q} :
              /\ client[x] = client[q] /\ store[x] = store[q]
              /\ hitAt[x][k] >= hitAt[q][k]
         \/ Used(k, bucket[Key(k, client[q], store[q])]) < Amount(k)
  BY DEF BudgetOf
<1>2. /\ client[q] \in Clients /\ store[q] \in Stores
      /\ client' = client /\ store' = store
  BY <1>1 DEF BookInv, QuietStep
<1>3. PICK c \in Clients, w \in Stores : c = client[q] /\ w = store[q]
  BY <1>2
<1>4. /\ Used(k, bucket[Key(k, c, w)])' <= Used(k, bucket[Key(k, c, w)])
      /\ Used(k, bucket[Key(k, c, w)])' \in Nat
      /\ Used(k, bucket[Key(k, c, w)]) \in Nat
  BY UsedAges DEF QuietStep
<1>5. Used(k, bucket[Key(k, client[q], store[q])])' = Used(k, bucket[Key(k, c, w)])'
  BY <1>2, <1>3 DEF Key
<1>6. Used(k, bucket[Key(k, client[q], store[q])]) = Used(k, bucket[Key(k, c, w)])
  BY <1>3
<1>7. Amount(k) \in Nat
  BY LimitTypes
<1>8. Used(k, bucket[Key(k, client[q], store[q])]) < Amount(k)
        => Used(k, bucket[Key(k, client[q], store[q])])' < Amount(k)
  <2> DEFINE u == Used(k, bucket[Key(k, c, w)])
             v == Used(k, bucket[Key(k, c, w)])'
  <2>1. v <= u /\ v \in Nat /\ u \in Nat
    BY <1>4
  <2> HIDE DEF u, v
  <2>2. u < Amount(k) => v < Amount(k)
    BY <1>7, <2>1
  <2> QED
    BY <1>5, <1>6, <2>2 DEF u, v
<1> QED
  BY <1>1, <1>8

\* What get_window_stats reports is true when it is read.
LEMMA StatsBudget ==
  ASSUME BookInv, BudgetInv, NEW r \in Requests, NEW l \in Limiters, NEW next,
         Stats(r, l, next)
  PROVE  BudgetInv'
<1> DEFINE hits == bucket[Key(l, client[r], store[r])]
<1>1. QuietStep
  BY DEF Stats, QuietStep
<1>2. stash \in [Requests -> [by : Limiters \cup {Nobody}, remaining : Nat]]
  BY DEF BookInv, TypeOK
<1>3. \/ stash' = stash
      \/ /\ l \in allowed[r]
         /\ stash' = [stash EXCEPT ![r] = [by |-> l, remaining |-> Remaining(l, hits)]]
  BY DEF Stats
<1>4. \A q \in Requests : q # r => stash'[q] = stash[q]
  BY <1>2, <1>3
<1>5. ASSUME NEW q \in Requests, NEW k \in Limiters, stash'[q] = stash[q]
      PROVE  BudgetOf(q, k)'
  BY <1>1, <1>5, QuietBudget DEF BudgetInv
<1>6. ASSUME NEW k \in Limiters, stash'[r] # stash[r]
      PROVE  BudgetOf(r, k)'
  <2>1. /\ l \in allowed[r]
        /\ stash'[r] = [by |-> l, remaining |-> Remaining(l, hits)]
    BY <1>2, <1>3, <1>6
  <2>2. hitAt[r][l] # Never
    BY <2>1, BookTypes
  <2>3. client[r] \in Clients /\ store[r] \in Stores
    BY <2>2 DEF BookInv
  <2>4. Remaining(l, hits) > 0 => Used(l, hits) < Amount(l)
    <3>1. Used(l, hits) \in Nat /\ Amount(l) \in Nat
      BY <2>3, BookTypes, CountedFinite, LimitTypes
    <3> QED
      BY <3>1 DEF Remaining
  <2>5. Used(l, bucket[Key(l, client[r], store[r])])' = Used(l, hits)
    BY DEF Stats, Used, Counted, Key, Strategy, Window
  <2>6. hitAt' = hitAt
    BY DEF Stats
  <2>7. stash'[r].by = l /\ stash'[r].remaining = Remaining(l, hits)
    BY <2>1
  <2> HIDE DEF hits
  <2> QED
    BY <2>2, <2>4, <2>5, <2>6, <2>7 DEF BudgetOf, Amount
<1>7. \A q \in Requests, k \in Limiters : BudgetOf(q, k)'
  BY <1>4, <1>5, <1>6
<1> QED
  BY <1>7 DEF BudgetInv

LEMMA NextBudgetInv == BookInv /\ BudgetInv /\ [Next]_vars => BudgetInv'
<1> SUFFICES ASSUME BookInv, BudgetInv, [Next]_vars PROVE BudgetInv'
  OBVIOUS
<1>1. ASSUME NEW r \in Requests, NEW c \in Clients, NEW claim \in Claims,
             NEW w \in Stores, NEW p \in Limited \cup Open, HitGlobal(r, c, claim, w, p)
      PROVE  BudgetInv'
  <2>1. stash' = stash
    BY <1>1 DEF HitGlobal, Hit
  <2> QED
    BY <1>1, <2>1, GlobalHitStep, HitBudget
<1>2. ASSUME NEW r \in Requests, HitRoute(r) PROVE BudgetInv'
  <2>1. stash' = stash
    BY <1>2 DEF HitRoute, Hit
  <2> QED
    BY <1>2, <2>1, RouteHitStep, HitBudget
<1>3. ASSUME NEW r \in Requests, StatsGlobal(r) PROVE BudgetInv'
  BY <1>3, StatsBudget DEF StatsGlobal, Limiters
<1>4. ASSUME NEW r \in Requests, StatsRoute(r) PROVE BudgetInv'
  <2>1. path[r] \in Limiters
    BY <1>4 DEF StatsRoute, BookInv, Limiters
  <2> QED
    BY <1>4, <2>1, StatsBudget DEF StatsRoute
<1>5. CASE Tick \/ UNCHANGED vars
  <2>1. stash' = stash /\ QuietStep
    BY <1>5, TickStep DEF Tick, vars
  <2>2. \A q \in Requests, k \in Limiters : BudgetOf(q, k)'
    BY <2>1, QuietBudget DEF BudgetInv
  <2> QED
    BY <2>2 DEF BudgetInv
<1> QED
  BY <1>1, <1>2, <1>3, <1>4, <1>5 DEF Next

LEMMA SpecBudgetInv == Spec => []BudgetInv
<1>1. Init => BudgetInv
  BY DEF Init, BudgetInv, BudgetOf
<1> QED
  BY <1>1, NextBudgetInv, SpecBookInv, PTL DEF Spec

\* The next request of a client that was told that something remains is not
\* refused by the limiter that said so (apply_rate_limit_headers, rate_limit).
THEOREM BudgetsAreHonoured == Spec => RemainingHonoured
<1>1. ASSUME BookInv, BudgetInv, [Next]_vars
      PROVE  \A r \in Requests, l \in Limiters :
               hitAt[r][l] = Never /\ hitAt'[r][l] # Never /\ ToldThatSomeRemains(r, l)
                 => l \in allowed'[r]
  <2> SUFFICES ASSUME NEW r \in Requests, NEW l \in Limiters,
                      hitAt[r][l] = Never, hitAt'[r][l] # Never, ToldThatSomeRemains(r, l)
               PROVE  l \in allowed'[r]
    OBVIOUS
  <2>1. PICK c \in Clients, w \in Stores : HitStep(r, l, c, w)
    <3>1. ~ QuietStep
      BY DEF QuietStep
    <3>2. PICK x \in Requests, k \in Limiters, c \in Clients, w \in Stores : HitStep(x, k, c, w)
      BY <1>1, <3>1, StepKinds
    <3>3. x = r /\ k = l
      BY <1>1, <3>2, HitEffects
    <3> QED
      BY <3>2, <3>3
  <2>2. client'[r] = c /\ store'[r] = w
    BY <2>1 DEF HitStep
  <2>3. PICK q \in Requests :
          /\ stash[q].by = l /\ stash[q].remaining > 0
          /\ client[q] = c /\ store[q] = w
          /\ \A x \in Requests \ {q, r} : client[x] = client[q] => hitAt[x][l] < hitAt[q][l]
    BY <2>2 DEF ToldThatSomeRemains
  <2>4. hitAt[q][l] # Never
    BY <1>1, <2>3 DEF BudgetInv, BudgetOf
  <2>5. hitAt[q][l] \in Nat
    BY <1>1, <2>4, BookTypes
  <2>6. ~ \E x \in Requests \ {q} :
            /\ client[x] = client[q] /\ store[x] = store[q]
            /\ hitAt[x][l] >= hitAt[q][l]
    <3> SUFFICES ASSUME NEW x \in Requests \ {q}, client[x] = client[q],
                        hitAt[x][l] >= hitAt[q][l]
                 PROVE  FALSE
      OBVIOUS
    <3>1. x # r
      BY <2>5 DEF Never
    <3>2. hitAt[x][l] < hitAt[q][l] /\ hitAt[x][l] \in Int
      BY <1>1, <2>3, <3>1, BookTypes DEF Never
    <3> QED
      BY <2>5, <3>2
  <2>7. Used(l, bucket[Key(l, c, w)]) < Amount(l)
    BY <1>1, <2>3, <2>6 DEF BudgetInv, BudgetOf
  <2> QED
    BY <1>1, <2>1, <2>7, HitEffects DEF Admits
<1> QED
  BY <1>1, SpecBookInv, SpecBudgetInv, PTL DEF Spec, RemainingHonoured

------------------------------------------------------------------------------
(* Retry-After.                                                            *)

\* What a count does to the bucket it goes into.
LEMMA HitBucket ==
  ASSUME BookInv, NEW r \in Requests, NEW l \in Limiters, NEW c \in Clients,
         NEW w \in Stores, HitStep(r, l, c, w)
  PROVE  LET B == bucket[Key(l, c, w)]
             C == Counted(l, B)
         IN  /\ \A x \in B : /\ x \in Requests /\ x # r
                             /\ hitAt[x][l] \in Nat /\ hitAt[x][l] <= now
                             /\ hitAt'[x][l] = hitAt[x][l]
             /\ IsFiniteSet(B)
             /\ bucket[Key(l, c, w)]' = AfterHit(r, l, B)
             /\ now' = now /\ now \in Nat /\ hitAt'[r][l] = now
<1> DEFINE B == bucket[Key(l, c, w)]
<1>1. hitAt[r][l] = Never /\ now' = now
  BY DEF HitStep
<1>2. \A x \in B : x \in Requests /\ hitAt[x][l] # Never
  BY BookTypes
<1>3. \A x \in B : x # r /\ hitAt[x][l] \in Nat /\ hitAt[x][l] <= now
  BY <1>1, <1>2, BookTypes
<1>4. \A x \in B : hitAt'[x][l] = hitAt[x][l]
  BY <1>2, <1>3, HitEffects
<1>5. IsFiniteSet(B) /\ now \in Nat /\ hitAt'[r][l] = now
  BY BookTypes, HitEffects
<1>6. bucket[Key(l, c, w)]' = AfterHit(r, l, B)
  BY HitEffects DEF Key
<1> QED
  BY <1>1, <1>2, <1>3, <1>4, <1>5, <1>6

\* And to the others: nothing.
LEMMA OtherBucket ==
  ASSUME BookInv, NEW r \in Requests, NEW l \in Limiters, NEW c \in Clients,
         NEW w \in Stores, HitStep(r, l, c, w),
         NEW k \in Limiters, NEW d \in Clients, NEW v \in Stores,
         <<k, d, v>> # <<l, c, w>>
  PROVE  /\ bucket[Key(k, d, v)]' = bucket[Key(k, d, v)]
         /\ \A x \in bucket[Key(k, d, v)] : hitAt'[x][k] = hitAt[x][k]
<1>1. bucket[Key(k, d, v)]' = bucket[Key(k, d, v)]
  <2>1. bucket'[Key(k, d, v)] = bucket[Key(k, d, v)]
    BY HitEffects
  <2> QED
    BY <2>1 DEF Key
<1>2. \A x \in bucket[Key(k, d, v)] : x \in Requests /\ hitAt[x][k] # Never
  BY BookTypes
<1>3. hitAt[r][l] = Never
  BY DEF HitStep
<1> QED
  BY <1>1, <1>2, <1>3, HitEffects

\* The hits of a fixed window are less than its length apart.
WindowInv ==
  \A l \in Limiters, c \in Clients, w \in Stores :
    Strategy(l) = "fixed" =>
      \A g, h \in bucket[Key(l, c, w)] : hitAt[h][l] < hitAt[g][l] + Window(l)

LEMMA NextWindowInv == BookInv /\ WindowInv /\ [Next]_vars => WindowInv'
<1> SUFFICES ASSUME BookInv, WindowInv, [Next]_vars PROVE WindowInv'
  OBVIOUS
<1>1. CASE QuietStep
  BY <1>1 DEF QuietStep, WindowInv, Key, Strategy, Window
<1>2. ASSUME NEW r \in Requests, NEW l \in Limiters, NEW c \in Clients, NEW w \in Stores,
             HitStep(r, l, c, w),
             NEW k \in Limiters, NEW d \in Clients, NEW v \in Stores, Strategy(k) = "fixed",
             NEW g \in bucket[Key(k, d, v)]', NEW h \in bucket[Key(k, d, v)]'
      PROVE  hitAt'[h][k] < hitAt'[g][k] + Window(k)
  <2>1. CASE <<k, d, v>> # <<l, c, w>>
    <3>1. /\ bucket[Key(k, d, v)]' = bucket[Key(k, d, v)]
          /\ \A x \in bucket[Key(k, d, v)] : hitAt'[x][k] = hitAt[x][k]
      BY <1>2, <2>1, OtherBucket
    <3> QED
      BY <1>2, <3>1 DEF WindowInv
  <2>2. CASE <<k, d, v>> = <<l, c, w>>
    <3> DEFINE B == bucket[Key(l, c, w)]
    <3>0. k = l /\ bucket[Key(k, d, v)]' = bucket[Key(l, c, w)]'
      BY <2>2 DEF Key
    <3>1. /\ \A x \in B : /\ hitAt[x][l] \in Nat /\ hitAt[x][l] <= now
                          /\ hitAt'[x][l] = hitAt[x][l]
          /\ bucket[Key(k, d, v)]' = AfterHit(r, l, B)
          /\ now \in Nat /\ hitAt'[r][l] = now
      BY <1>2, <3>0, HitBucket
    <3>2. AfterHit(r, l, B)
            = (IF \E x \in B : hitAt[x][l] + Window(l) <= now THEN {} ELSE B) \cup {r}
      BY <1>2, <3>0 DEF AfterHit, Counted
    <3>3. \A x, y \in B : hitAt[x][l] < hitAt[y][l] + Window(l)
      BY <1>2, <3>0 DEF WindowInv
    <3>4. Window(l) \in Nat \ {0}
      BY LimitTypes
    <3> HIDE DEF B
    <3>5. g \in B \cup {r} /\ h \in B \cup {r}
      BY <1>2, <3>1, <3>2
    <3>6. CASE \E x \in B : hitAt[x][l] + Window(l) <= now
      <4>1. g = r /\ h = r
        BY <1>2, <3>1, <3>2, <3>6
      <4> QED
        BY <3>0, <3>1, <3>4, <4>1
    <3>7. CASE ~ \E x \in B : hitAt[x][l] + Window(l) <= now
      <4>1. \A x \in B : now < hitAt[x][l] + Window(l)
        BY <3>1, <3>4, <3>7
      <4> QED
        BY <3>0, <3>1, <3>3, <3>4, <3>5, <4>1
    <3> QED
      BY <3>6, <3>7
  <2> QED
    BY <2>1, <2>2
<1>3. ASSUME NEW r \in Requests, NEW l \in Limiters, NEW c \in Clients, NEW w \in Stores,
             HitStep(r, l, c, w)
      PROVE  WindowInv'
  BY <1>2, <1>3 DEF WindowInv, Key, Strategy, Window
<1> QED
  BY <1>1, <1>3, StepKinds

\* The bucket that counts request q at limiter l.
Hits(q, l) == bucket[Key(l, client[q], store[q])]

\* Limiter l has counted a later request of the same client than q.
Later(q, l) ==
  \E x \in Requests \ {q} :
    client[x] = client[q] /\ store[x] = store[q] /\ hitAt[x][l] > hitAt[q][l]

LEMMA LaterStays ==
  ASSUME BookInv, [Next]_vars, NEW q \in Requests, NEW l \in Limiters,
         hitAt[q][l] # Never
  PROVE  /\ client'[q] = client[q] /\ store'[q] = store[q] /\ hitAt'[q][l] = hitAt[q][l]
         /\ client[q] \in Clients /\ store[q] \in Stores
         /\ hitAt[q][l] \in Nat /\ hitAt[q][l] <= now
         /\ Later(q, l) => Later(q, l)'
<1>1. hitAt[q][l] \in Nat /\ hitAt[q][l] <= now
  BY BookTypes
<1>2. \A x \in Requests : hitAt[x][l] # Never =>
        /\ client'[x] = client[x] /\ store'[x] = store[x] /\ hitAt'[x][l] = hitAt[x][l]
  <2>1. CASE QuietStep
    BY <2>1 DEF QuietStep
  <2>2. ASSUME NEW r \in Requests, NEW k \in Limiters, NEW c \in Clients,
               NEW w \in Stores, HitStep(r, k, c, w), NEW x \in Requests,
               hitAt[x][l] # Never
        PROVE  client'[x] = client[x] /\ store'[x] = store[x] /\ hitAt'[x][l] = hitAt[x][l]
    <3>1. <<x, l>> # <<r, k>>
      BY <2>2 DEF HitStep
    <3>2. hitAt'[x][l] = hitAt[x][l]
      BY <2>2, <3>1, HitEffects
    <3> QED
      BY <2>2, <3>2 DEF HitStep
  <2> QED
    BY <2>1, <2>2, StepKinds
<1>3. client[q] \in Clients /\ store[q] \in Stores
  BY DEF BookInv
<1>4. Later(q, l) => Later(q, l)'
  <2> SUFFICES ASSUME Later(q, l) PROVE Later(q, l)'
    OBVIOUS
  <2>1. PICK x \in Requests \ {q} :
          client[x] = client[q] /\ store[x] = store[q] /\ hitAt[x][l] > hitAt[q][l]
    BY DEF Later
  <2>2. hitAt[x][l] # Never
    BY <1>1, <2>1 DEF Never
  <2> QED
    BY <1>2, <2>1, <2>2 DEF Later
<1> QED
  BY <1>1, <1>2, <1>3, <1>4

\* A fixed window holds every request it counted until a later one opens the
\* next window.
KeptInv ==
  \A q \in Requests, l \in Limiters :
    Strategy(l) = "fixed" /\ hitAt[q][l] # Never => q \in Hits(q, l) \/ Later(q, l)

LEMMA NextKeptInv == BookInv /\ WindowInv /\ KeptInv /\ [Next]_vars => KeptInv'
<1> SUFFICES ASSUME BookInv, WindowInv, KeptInv, [Next]_vars,
                    NEW q \in Requests, NEW k \in Limiters,
                    Strategy(k) = "fixed", hitAt'[q][k] # Never
             PROVE  q \in Hits(q, k)' \/ Later(q, k)'
  BY DEF KeptInv, Strategy
<1>1. CASE QuietStep
  BY <1>1 DEF QuietStep, KeptInv, Hits, Later, Key
<1>2. ASSUME NEW r \in Requests, NEW l \in Limiters, NEW c \in Clients, NEW w \in Stores,
             HitStep(r, l, c, w)
      PROVE  q \in Hits(q, k)' \/ Later(q, k)'
  <2> DEFINE B == bucket[Key(l, c, w)]
  <2>1. /\ \A x \in B : /\ x \in Requests /\ x # r
                        /\ hitAt[x][l] \in Nat /\ hitAt[x][l] <= now
                        /\ hitAt'[x][l] = hitAt[x][l]
        /\ bucket[Key(l, c, w)]' = AfterHit(r, l, B)
        /\ now \in Nat /\ hitAt'[r][l] = now
        /\ client'[r] = c /\ store'[r] = w
    <3>1. /\ \A x \in B : /\ x \in Requests /\ x # r
                          /\ hitAt[x][l] \in Nat /\ hitAt[x][l] <= now
                          /\ hitAt'[x][l] = hitAt[x][l]
          /\ bucket[Key(l, c, w)]' = AfterHit(r, l, B)
          /\ now \in Nat /\ hitAt'[r][l] = now
      BY <1>2, HitBucket
    <3> QED
      BY <1>2, <3>1 DEF HitStep
  <2>2. Strategy(l) = "fixed" =>
          AfterHit(r, l, B)
            = (IF \E x \in B : hitAt[x][l] + Window(l) <= now THEN {} ELSE B) \cup {r}
    BY DEF AfterHit, Counted
  <2>3. CASE q = r /\ k = l
    <3>1. Hits(q, k)' = bucket[Key(l, c, w)]'
      BY <2>1, <2>3 DEF Hits, Key
    <3> QED
      BY <2>1, <2>2, <2>3, <3>1
  <2>4. CASE ~ (q = r /\ k = l)
    <3>1. hitAt[q][k] # Never
      BY <1>2, <2>4, HitEffects
    <3>2. /\ client'[q] = client[q] /\ store'[q] = store[q] /\ hitAt'[q][k] = hitAt[q][k]
          /\ client[q] \in Clients /\ store[q] \in Stores
          /\ hitAt[q][k] \in Nat
          /\ Later(q, k) => Later(q, k)'
      BY <3>1, LaterStays
    <3>3. CASE Later(q, k)
      BY <3>2, <3>3
    <3>4. CASE q \in Hits(q, k)
      <4>1. CASE <<k, client[q], store[q]>> # <<l, c, w>>
        <5>1. bucket[Key(k, client[q], store[q])]' = bucket[Key(k, client[q], store[q])]
          <6>1. PICK d \in Clients, v \in Stores : d = client[q] /\ v = store[q]
            BY <3>2
          <6>2. bucket[Key(k, d, v)]' = bucket[Key(k, d, v)]
            BY <1>2, <4>1, <6>1, OtherBucket
          <6> QED
            BY <3>2, <6>1, <6>2 DEF Key
        <5> QED
          BY <3>4, <5>1 DEF Hits
      <4>2. CASE <<k, client[q], store[q]>> = <<l, c, w>>
        <5>1. k = l /\ client[q] = c /\ store[q] = w /\ q \in B
          BY <3>4, <4>2 DEF Hits
        <5>2. Hits(q, k)' = AfterHit(r, l, B)
          <6>1. Hits(q, k)' = bucket[Key(l, c, w)]'
            BY <3>2, <5>1 DEF Hits, Key
          <6> QED
            BY <2>1, <6>1
        <5>3. CASE \E x \in B : hitAt[x][l] + Window(l) <= now
          <6>1. PICK x \in B : hitAt[x][l] + Window(l) <= now
            BY <5>3
          <6>2. hitAt[q][l] < hitAt[x][l] + Window(l)
            BY <5>1, <6>1 DEF WindowInv
          <6>3. hitAt[q][l] < now
            BY <2>1, <5>1, <6>1, <6>2, LimitTypes
          <6>4. r \in Requests \ {q} /\ hitAt'[r][k] > hitAt'[q][k]
            BY <2>1, <3>2, <5>1, <6>3
          <6>5. Later(q, k)'
            BY <2>1, <3>2, <5>1, <6>4 DEF Later
          <6> QED
            BY <6>5
        <5>4. CASE ~ \E x \in B : hitAt[x][l] + Window(l) <= now
          <6>1. Hits(q, k)' = B \cup {r}
            BY <2>2, <5>1, <5>2, <5>4
          <6> QED
            BY <5>1, <6>1
        <5> QED
          BY <5>3, <5>4
      <4> QED
        BY <4>1, <4>2
    <3> QED
      BY <3>1, <3>3, <3>4 DEF KeptInv
  <2> QED
    BY <2>3, <2>4
<1> QED
  BY <1>1, <1>2, StepKinds

\* A limiter that is full stays full as long as the time is the same.
LEMMA StillFull ==
  ASSUME BookInv, NEW r \in Requests, NEW l \in Limiters, NEW c \in Clients,
         NEW w \in Stores, HitStep(r, l, c, w), ~ Admits(l, bucket[Key(l, c, w)])
  PROVE  ~ Admits(l, bucket[Key(l, c, w)])'
<1> DEFINE B == bucket[Key(l, c, w)]
           C == Counted(l, B)
           new == Counted(l, bucket[Key(l, c, w)])'
<1>1. /\ \A x \in B : /\ x \in Requests /\ x # r
                      /\ hitAt[x][l] \in Nat /\ hitAt[x][l] <= now
                      /\ hitAt'[x][l] = hitAt[x][l]
      /\ IsFiniteSet(B)
      /\ bucket[Key(l, c, w)]' = AfterHit(r, l, B)
      /\ now' = now /\ now \in Nat /\ hitAt'[r][l] = now
  BY HitBucket
<1>2. /\ Amount(l) \in Nat \ {0} /\ Window(l) \in Nat \ {0}
      /\ Strategy(l) \in {"fixed", "moving"}
  BY LimitTypes
<1>3. ~ (Cardinality(C) < Amount(l)) /\ IsFiniteSet(C) /\ C \subseteq B
  BY <1>1, CountedFinite DEF Admits, Used
<1>4. C # {}
  BY <1>2, <1>3, FS_EmptySet
<1>5. IsFiniteSet(new) /\ C \subseteq new
  <2>1. CASE Strategy(l) = "fixed"
    <3>1. C = IF \E h \in B : hitAt[h][l] + Window(l) <= now THEN {} ELSE B
      BY <2>1 DEF Counted
    <3>2. AfterHit(r, l, B) = C \cup {r}
      BY <2>1 DEF AfterHit
    <3>3. new = IF \E h \in AfterHit(r, l, B) : hitAt'[h][l] + Window(l) <= now
                THEN {} ELSE AfterHit(r, l, B)
      BY <1>1, <2>1 DEF Counted, Strategy, Window
    <3> HIDE DEF B, C, new
    <3>4. \A h \in C \cup {r} : ~ (hitAt'[h][l] + Window(l) <= now)
      BY <1>1, <1>2, <1>4, <3>1
    <3>5. new = C \cup {r}
      BY <3>2, <3>3, <3>4
    <3> QED
      BY <1>3, <3>5, FS_AddElement
  <2>2. CASE Strategy(l) = "moving"
    <3>1. C = {h \in B : hitAt[h][l] + Window(l) >= now}
      BY <2>2 DEF Counted
    <3>2. AfterHit(r, l, B) = C
      BY <2>2 DEF AfterHit
    <3>3. new = {h \in AfterHit(r, l, B) : hitAt'[h][l] + Window(l) >= now}
      BY <1>1, <2>2 DEF Counted, Strategy, Window
    <3> HIDE DEF B, C, new
    <3>4. new = C
      BY <1>1, <3>1, <3>2, <3>3
    <3> QED
      BY <1>3, <3>4
  <2> QED
    BY <1>2, <2>1, <2>2
<1>6. Admits(l, bucket[Key(l, c, w)])' <=> Cardinality(new) < Amount(l)
  BY DEF Admits, Used, Amount
<1> HIDE DEF B, C, new
<1>7. Cardinality(C) \in Nat /\ Cardinality(new) \in Nat /\ Cardinality(C) <= Cardinality(new)
  BY <1>5, SubsetCount
<1> QED
  BY <1>2, <1>3, <1>6, <1>7

Refused(q, l) == hitAt[q][l] # Never /\ l \notin allowed[q]

\* At the time of a refusal its limiter is full.
FullInv ==
  \A q \in Requests, l \in Limiters :
    Refused(q, l) /\ hitAt[q][l] = now => ~ Admits(l, Hits(q, l))

LEMMA NextFullInv == BookInv /\ FullInv /\ [Next]_vars => FullInv'
<1> SUFFICES ASSUME BookInv, FullInv, [Next]_vars,
                    NEW q \in Requests, NEW k \in Limiters,
                    hitAt'[q][k] # Never, k \notin allowed'[q], hitAt'[q][k] = now'
             PROVE  ~ Admits(k, Hits(q, k))'
  BY DEF FullInv, Refused
<1>1. CASE QuietStep
  <2>1. hitAt[q][k] # Never /\ k \notin allowed[q] /\ hitAt[q][k] = now'
    BY <1>1 DEF QuietStep
  <2>2. now' = now
    <3>1. hitAt[q][k] <= now /\ now \in Nat
      BY BookTypes
    <3> QED
      BY <1>1, <2>1, <3>1 DEF QuietStep
  <2>3. ~ Admits(k, Hits(q, k))
    BY <2>1, <2>2 DEF FullInv, Refused
  <2> QED
    BY <1>1, <2>2, <2>3
       DEF QuietStep, Admits, Used, Counted, Hits, Key, Amount, Window, Strategy
<1>2. ASSUME NEW r \in Requests, NEW l \in Limiters, NEW c \in Clients, NEW w \in Stores,
             HitStep(r, l, c, w)
      PROVE  ~ Admits(k, Hits(q, k))'
  <2>0. client'[r] = c /\ store'[r] = w /\ now' = now
    BY <1>2 DEF HitStep
  <2>1. CASE q = r /\ k = l
    <3>1. ~ Admits(l, bucket[Key(l, c, w)])
      BY <1>2, <2>1, HitEffects
    <3>2. ~ Admits(l, bucket[Key(l, c, w)])'
      BY <1>2, <3>1, StillFull
    <3>3. Hits(q, k)' = bucket[Key(l, c, w)]'
      BY <2>0, <2>1 DEF Hits, Key
    <3> QED
      BY <2>1, <3>2, <3>3 DEF Admits, Used, Counted, Amount, Window, Strategy
  <2>2. CASE ~ (q = r /\ k = l)
    <3>1. hitAt[q][k] # Never /\ k \notin allowed[q] /\ hitAt[q][k] = now
      BY <1>2, <2>0, <2>2, HitEffects
    <3>2. PICK d \in Clients, v \in Stores :
            client[q] = d /\ store[q] = v /\ client'[q] = d /\ store'[q] = v
      BY <3>1, LaterStays
    <3>3. ~ Admits(k, bucket[Key(k, d, v)])
      BY <3>1, <3>2 DEF FullInv, Refused, Hits
    <3>4. Hits(q, k)' = bucket[Key(k, d, v)]'
      BY <3>2 DEF Hits, Key
    <3>5. ~ Admits(k, bucket[Key(k, d, v)])'
      <4>1. CASE <<k, d, v>> = <<l, c, w>>
        BY <1>2, <3>3, <4>1, StillFull
      <4>2. CASE <<k, d, v>> # <<l, c, w>>
        <5> DEFINE B == bucket[Key(k, d, v)]
        <5>1. /\ bucket[Key(k, d, v)]' = B
              /\ \A x \in B : hitAt'[x][k] = hitAt[x][k]
          BY <1>2, <4>2, OtherBucket
        <5> HIDE DEF B
        <5>2. Counted(k, bucket[Key(k, d, v)])' = Counted(k, B)
          BY <2>0, <5>1 DEF Counted, Window, Strategy
        <5>3. Admits(k, bucket[Key(k, d, v)])' <=> Admits(k, B)
          BY <5>2 DEF Admits, Used, Amount
        <5> QED
          BY <3>3, <5>3 DEF B
      <4> QED
        BY <4>1, <4>2
    <3> QED
      BY <3>4, <3>5 DEF Admits, Used, Counted, Amount, Window, Strategy
  <2> QED
    BY <2>1, <2>2
<1> QED
  BY <1>1, <1>2, StepKinds

\* A request is refused by the limiter that counted it last.
LastInv ==
  \A q \in Requests, l \in Limiters :
    Refused(q, l) => \/ pc[q] = "refused"
                     \/ pc[q] = "stats global" /\ l = Global
                     \/ pc[q] = "stats route" /\ l = path[q]

LEMMA NextLastInv == BookInv /\ LastInv /\ [Next]_vars => LastInv'
<1> SUFFICES ASSUME BookInv, LastInv, [Next]_vars,
                    NEW q \in Requests, NEW k \in Limiters, Refused(q, k)'
             PROVE  \/ pc'[q] = "refused"
                    \/ pc'[q] = "stats global" /\ k = Global
                    \/ pc'[q] = "stats route" /\ k = path'[q]
  BY DEF LastInv
<1>0. /\ pc \in [Requests -> Steps] /\ Global \in Limiters
      /\ path \in [Requests -> Limited \cup Open \cup {Nowhere}]
  BY DEF BookInv, TypeOK, Limiters
<1>1. ASSUME NEW r \in Requests, NEW c \in Clients, NEW claim \in Claims,
             NEW w \in Stores, NEW p \in Limited \cup Open, HitGlobal(r, c, claim, w, p)
      PROVE  \/ pc'[q] = "refused"
             \/ pc'[q] = "stats global" /\ k = Global
             \/ pc'[q] = "stats route" /\ k = path'[q]
  <2>1. HitStep(r, Global, c, w)
    BY <1>1, GlobalHitStep
  <2>2. pc' = [pc EXCEPT ![r] = "stats global"] /\ path' = [path EXCEPT ![r] = p]
    BY <1>1 DEF HitGlobal, Hit
  <2>3. CASE q = r
    <3>1. \A j \in Limiters : hitAt[r][j] = Never
      BY <1>1 DEF HitGlobal, BookInv
    <3>2. k = Global
      BY <1>0, <2>1, <2>3, <3>1, HitEffects DEF Refused
    <3> QED
      BY <1>0, <2>2, <2>3, <3>2
  <2>4. CASE q # r
    <3>1. Refused(q, k)
      BY <1>0, <2>1, <2>4, HitEffects DEF Refused
    <3> QED
      BY <1>0, <2>2, <2>4, <3>1 DEF LastInv
  <2> QED
    BY <2>3, <2>4
<1>2. ASSUME NEW r \in Requests, HitRoute(r)
      PROVE  \/ pc'[q] = "refused"
             \/ pc'[q] = "stats global" /\ k = Global
             \/ pc'[q] = "stats route" /\ k = path'[q]
  <2>1. path[r] \in Limiters /\ HitStep(r, path[r], client[r], store[r])
        /\ client[r] \in Clients /\ store[r] \in Stores
    BY <1>2, RouteHitStep
  <2>2. pc[r] = "hit route" /\ pc' = [pc EXCEPT ![r] = "stats route"] /\ path' = path
    BY <1>2 DEF HitRoute, Hit
  <2>3. CASE q = r /\ k = path[r]
    BY <1>0, <2>2, <2>3
  <2>4. CASE ~ (q = r /\ k = path[r])
    <3>1. Refused(q, k)
      BY <2>1, <2>4, HitEffects DEF Refused
    <3> QED
      BY <1>0, <2>2, <2>4, <3>1 DEF LastInv
  <2> QED
    BY <2>3, <2>4
<1>3. ASSUME NEW r \in Requests, StatsGlobal(r) \/ StatsRoute(r)
      PROVE  \/ pc'[q] = "refused"
             \/ pc'[q] = "stats global" /\ k = Global
             \/ pc'[q] = "stats route" /\ k = path'[q]
  <2>1. Refused(q, k) /\ path' = path
    BY <1>3 DEF StatsGlobal, StatsRoute, Stats, Refused
  <2>2. CASE q # r
    <3>1. pc'[q] = pc[q]
      BY <1>0, <1>3, <2>2 DEF StatsGlobal, StatsRoute, Stats
    <3> QED
      BY <2>1, <3>1 DEF LastInv
  <2>3. CASE q = r
    <3>1. \/ pc[r] = "stats global" /\ k = Global
          \/ pc[r] = "stats route" /\ k = path[r]
      BY <1>3, <2>1, <2>3 DEF LastInv, StatsGlobal, StatsRoute
    <3>2. k \notin allowed[r]
      BY <2>1, <2>3 DEF Refused
    <3>3. pc'[r] = "refused"
      BY <1>0, <1>3, <3>1, <3>2 DEF StatsGlobal, StatsRoute, Stats
    <3> QED
      BY <2>3, <3>3
  <2> QED
    BY <2>2, <2>3
<1>4. CASE Tick \/ UNCHANGED vars
  BY <1>4 DEF Tick, vars, LastInv, Refused
<1> QED
  BY <1>1, <1>2, <1>3, <1>4 DEF Next

\* The time a request is told to come back, and what is left out of it, is not
\* before the window's end e; with a whole second more it is after it.
LEMMA ComeBackEnough ==
  ASSUME NEW e \in Nat, NEW n \in Nat, NEW s \in Nat \ {0}, NEW at,
         at = n + s * (IF (e - n) \div s < 1 THEN 1 ELSE (e - n) \div s)
  PROVE  /\ at \in Nat
         /\ e <= at + (s - 1) /\ e < at + s
         /\ n < at
<1>1. at \in Nat
  BY ComeBackTime
<1>2. PICK d \in Int : d = e - n
  OBVIOUS
<1>3. PICK q \in Int : q = d \div s
  BY <1>2, Quotient
<1>4. q * s <= d /\ d < q * s + s
  BY <1>3
<1>5. CASE q < 1
  <2>1. at = n + s
    BY <1>2, <1>3, <1>5
  <2>2. PICK m \in Nat : q = 0 - m
    <3>1. 0 - q \in Nat /\ q = 0 - (0 - q)
      BY <1>3, <1>5
    <3> QED
      BY <3>1
  <2>3. q * s = 0 - m * s /\ m * s \in Nat
    BY <2>2, Product
  <2>4. d < s
    BY <1>4, <2>3
  <2> QED
    BY <1>1, <1>2, <2>1, <2>4
<1>6. CASE ~ (q < 1)
  <2>1. at = n + s * q
    BY <1>2, <1>3, <1>6
  <2>2. s * q = q * s
    BY <1>3
  <2>3. PICK m \in Nat : q = m + 1
    <3>1. q - 1 \in Nat /\ q = (q - 1) + 1
      BY <1>3, <1>6
    <3> QED
      BY <3>1
  <2>4. q * s = m * s + s /\ m * s \in Nat
    BY <2>3, Product
  <2> QED
    BY <1>1, <1>2, <1>4, <2>1, <2>2, <2>4
<1> QED
  BY <1>5, <1>6

\* At time t the hits of this bucket leave room for another.
FreeAt(l, B, t) ==
  IF Strategy(l) = "fixed"
  THEN \E h \in B : hitAt[h][l] + Window(l) <= t
  ELSE Cardinality({h \in B : hitAt[h][l] + Window(l) >= t}) < Amount(l)

\* Its limiter will have room for a refused request when it is told to come
\* back, and what is left out of that, unless it has counted a later one.
ReturnOf(q, l) ==
  Refused(q, l) /\ pc[q] = "refused" =>
    Later(q, l) \/ FreeAt(l, Hits(q, l), retryAt[q] + LeftOut(l))

ReturnInv == \A q \in Requests, l \in Limiters : ReturnOf(q, l)

LEMMA FreeStays ==
  ASSUME BookInv, NEW r \in Requests, NEW l \in Limiters, NEW c \in Clients,
         NEW w \in Stores, HitStep(r, l, c, w), NEW t \in Int,
         ~ Admits(l, bucket[Key(l, c, w)]),
         FreeAt(l, bucket[Key(l, c, w)], t)
  PROVE  FreeAt(l, bucket[Key(l, c, w)], t)'
<1> DEFINE B == bucket[Key(l, c, w)]
           C == Counted(l, B)
<1>1. /\ \A x \in B : hitAt'[x][l] = hitAt[x][l]
      /\ IsFiniteSet(B)
      /\ bucket[Key(l, c, w)]' = AfterHit(r, l, B)
  BY HitBucket
<1>2. /\ Amount(l) \in Nat \ {0} /\ Strategy(l) \in {"fixed", "moving"}
  BY LimitTypes
<1>3. ~ (Cardinality(C) < Amount(l)) /\ C \subseteq B
  BY <1>1, CountedFinite DEF Admits, Used
<1>4. CASE Strategy(l) = "fixed"
  <2>1. C # {}
    BY <1>2, <1>3, FS_EmptySet
  <2>2. AfterHit(r, l, B) = B \cup {r}
    BY <1>4, <2>1 DEF AfterHit, Counted
  <2>3. PICK h \in B : hitAt[h][l] + Window(l) <= t
    BY <1>4 DEF FreeAt
  <2> HIDE DEF B
  <2>4. h \in bucket[Key(l, c, w)]' /\ hitAt'[h][l] + Window(l) <= t
    BY <1>1, <2>2, <2>3
  <2> QED
    BY <1>4, <2>4 DEF FreeAt, Strategy, Window
<1>5. CASE Strategy(l) = "moving"
  <2> DEFINE old == {h \in B : hitAt[h][l] + Window(l) >= t}
             new == {h \in AfterHit(r, l, B) : hitAt'[h][l] + Window(l) >= t}
  <2>1. AfterHit(r, l, B) = C
    BY <1>3, <1>5 DEF AfterHit, Admits, Used
  <2>2. new \subseteq old /\ old \subseteq B
    BY <1>1, <1>3, <2>1
  <2>3. Cardinality(old) < Amount(l)
    BY <1>5 DEF FreeAt
  <2>4. FreeAt(l, bucket[Key(l, c, w)], t)' <=> Cardinality(new) < Amount(l)
    BY <1>1, <1>5 DEF FreeAt, Strategy, Window, Amount
  <2> HIDE DEF B, C, old, new
  <2>5. IsFiniteSet(old)
    BY <1>1, <2>2, SubsetCount
  <2>6. Cardinality(old) \in Nat /\ Cardinality(new) \in Nat
        /\ Cardinality(new) <= Cardinality(old)
    BY <2>2, <2>5, SubsetCount
  <2> QED
    BY <1>2, <2>3, <2>4, <2>6
<1> QED
  BY <1>2, <1>4, <1>5

LEMMA HitReturn ==
  ASSUME BookInv, FullInv, ReturnInv, [Next]_vars, NEW r \in Requests, NEW l \in Limiters,
         NEW c \in Clients, NEW w \in Stores, HitStep(r, l, c, w),
         pc'[r] # "refused", retryAt' = retryAt,
         \A x \in Requests : x # r => pc'[x] = pc[x]
  PROVE  ReturnInv'
<1> SUFFICES ASSUME NEW q \in Requests, NEW k \in Limiters,
                    Refused(q, k)', pc'[q] = "refused"
             PROVE  Later(q, k)' \/ FreeAt(k, Hits(q, k), retryAt[q] + LeftOut(k))'
  BY DEF ReturnInv, ReturnOf
<1>1. q # r /\ pc[q] = "refused" /\ Refused(q, k)
  BY HitEffects DEF Refused
<1>2. /\ client'[q] = client[q] /\ store'[q] = store[q] /\ hitAt'[q][k] = hitAt[q][k]
      /\ hitAt[q][k] \in Nat /\ hitAt[q][k] <= now
      /\ Later(q, k) => Later(q, k)'
  BY <1>1, LaterStays DEF Refused
<1>3. PICK d \in Clients, v \in Stores : client[q] = d /\ store[q] = v
  BY <1>1, LaterStays DEF Refused
<1>4. PICK t \in Int : t = retryAt[q] + LeftOut(k)
  <2>1. retryAt \in [Requests -> Nat]
    BY DEF BookInv, TypeOK
  <2>2. retryAt[q] \in Nat
    BY <2>1
  <2>3. LeftOut(k) \in Int
    BY LimitsAssumption DEF LeftOut
  <2>4. retryAt[q] + LeftOut(k) \in Int
    BY <2>2, <2>3
  <2> QED
    BY <2>4
<1>5. Later(q, k) \/ FreeAt(k, bucket[Key(k, d, v)], t)
  BY <1>1, <1>3, <1>4 DEF ReturnInv, ReturnOf, Hits
<1>6. /\ Hits(q, k)' = bucket[Key(k, d, v)]'
      /\ (retryAt[q] + LeftOut(k))' = t
  BY <1>2, <1>3, <1>4 DEF Hits, Key, LeftOut, Strategy
<1>7. FreeAt(k, bucket[Key(k, d, v)], t)
        => Later(q, k)' \/ FreeAt(k, bucket[Key(k, d, v)], t)'
  <2> SUFFICES ASSUME FreeAt(k, bucket[Key(k, d, v)], t)
               PROVE  Later(q, k)' \/ FreeAt(k, bucket[Key(k, d, v)], t)'
    OBVIOUS
  <2>1. CASE <<k, d, v>> # <<l, c, w>>
    <3> DEFINE B == bucket[Key(k, d, v)]
    <3>1. bucket[Key(k, d, v)]' = B /\ \A x \in B : hitAt'[x][k] = hitAt[x][k]
      BY <2>1, OtherBucket
    <3>2. FreeAt(k, B, t) = IF Strategy(k) = "fixed"
                            THEN \E h \in B : hitAt[h][k] + Window(k) <= t
                            ELSE Cardinality({h \in B : hitAt[h][k] + Window(k) >= t}) < Amount(k)
      BY DEF FreeAt
    <3>3. FreeAt(k, bucket[Key(k, d, v)], t)'
            = IF Strategy(k) = "fixed"
              THEN \E h \in B : hitAt'[h][k] + Window(k) <= t
              ELSE Cardinality({h \in B : hitAt'[h][k] + Window(k) >= t}) < Amount(k)
      BY <3>1 DEF FreeAt, Strategy, Window, Amount
    <3>4. FreeAt(k, B, t)
      OBVIOUS
    <3> HIDE DEF B
    <3>5. {h \in B : hitAt'[h][k] + Window(k) >= t} = {h \in B : hitAt[h][k] + Window(k) >= t}
      BY <3>1
    <3>6. (\E h \in B : hitAt[h][k] + Window(k) <= t)
            => \E h \in B : hitAt'[h][k] + Window(k) <= t
      BY <3>1
    <3> QED
      BY <3>2, <3>3, <3>4, <3>5, <3>6
  <2>2. CASE <<k, d, v>> = <<l, c, w>>
    <3>1. CASE hitAt[q][k] = now
      <4>1. ~ Admits(l, bucket[Key(l, c, w)])
        BY <1>1, <1>3, <2>2, <3>1 DEF FullInv, Hits
      <4>2. FreeAt(l, bucket[Key(l, c, w)], t)
        BY <2>2
      <4>3. FreeAt(l, bucket[Key(l, c, w)], t)'
        BY <4>1, <4>2, FreeStays
      <4> QED
        BY <2>2, <4>3 DEF FreeAt, Key, Strategy, Window, Amount
    <3>2. CASE hitAt[q][k] # now
      <4>1. hitAt'[r][l] = now /\ now \in Nat
        BY HitEffects, BookTypes
      <4>2. hitAt'[r][k] > hitAt'[q][k]
        BY <1>2, <2>2, <3>2, <4>1
      <4>3. client'[r] = client'[q] /\ store'[r] = store'[q]
        BY <1>2, <1>3, <2>2 DEF HitStep
      <4> QED
        BY <1>1, <4>2, <4>3 DEF Later
    <3> QED
      BY <3>1, <3>2
  <2> QED
    BY <2>1, <2>2
<1>8. FreeAt(k, Hits(q, k), retryAt[q] + LeftOut(k))'
        <=> FreeAt(k, bucket[Key(k, d, v)], t)'
  BY <1>6 DEF FreeAt, Strategy, Window, Amount
<1> QED
  BY <1>2, <1>5, <1>7, <1>8

\* When a refused request is told to come back, there will be room, and soon
\* enough: the earliest hit that counts has then left the window.
LEMMA RoomOnReturn ==
  ASSUME BookInv, StoreInv, KeptInv, NEW q \in Requests, NEW l \in Limiters, Refused(q, l),
         ~ Later(q, l), NEW at,
         at = LET wait == (ResetTime(l, Hits(q, l)) - now) \div Second
              IN  now + Second * (IF wait < 1 THEN 1 ELSE wait)
  PROVE  FreeAt(l, Hits(q, l), at + LeftOut(l))
<1> DEFINE B == Hits(q, l)
           C == Counted(l, B)
           end == ResetTime(l, B)
           times == {hitAt[h][l] : h \in C}
<1>1. PICK c \in Clients, w \in Stores : client[q] = c /\ store[q] = w
  BY DEF BookInv, Refused
<1>2. B = bucket[Key(l, c, w)]
  BY <1>1 DEF Hits
<1>3. /\ now \in Nat /\ IsFiniteSet(B)
      /\ Amount(l) \in Nat \ {0} /\ Window(l) \in Nat \ {0} /\ Second \in Nat \ {0}
      /\ Strategy(l) \in {"fixed", "moving"}
  BY <1>2, BookTypes, LimitTypes, LimitsAssumption
<1>4. \A x \in B : hitAt[x][l] \in Nat
  <2>1. \A x \in B : x \in Requests /\ hitAt[x][l] # Never
    BY <1>2, BookTypes
  <2> QED
    BY <2>1, BookTypes
<1>5. end \in Nat
  BY <1>2, StatsTypes
<1>6. /\ at \in Nat /\ now < at
      /\ end <= at + (Second - 1) /\ end < at + Second
  <2> HIDE DEF B
  <2>1. at = now + Second * (IF (end - now) \div Second < 1 THEN 1 ELSE (end - now) \div Second)
    BY DEF B
  <2> HIDE DEF end
  <2> QED
    BY <1>3, <1>5, <2>1, ComeBackEnough
<1>7. C \subseteq B /\ IsFiniteSet(C)
  BY <1>3, CountedFinite
<1>8. C # {} => \E h \in C : hitAt[h][l] + Window(l) = end
  <2> SUFFICES ASSUME C # {} PROVE \E h \in C : hitAt[h][l] + Window(l) = end
    OBVIOUS
  <2>1. end = Min(times) + Window(l)
    BY DEF ResetTime
  <2>2. times \in SUBSET Nat /\ times # {}
    <3> HIDE DEF B, C
    <3> QED
      BY <1>4, <1>7
  <2>3. IsFiniteSet(times)
    <3> DEFINE f == [h \in C |-> hitAt[h][l]]
    <3>1. f \in Surjection(C, times)
      BY DEF Surjection
    <3> HIDE DEF C, times, f
    <3> QED
      BY <1>7, <3>1, FS_Surjection
  <2>4. Min(times) \in times
    <3> HIDE DEF times
    <3> QED
      BY <2>2, <2>3, MinOfTimes
  <2>5. PICK h \in C : Min(times) = hitAt[h][l]
    BY <2>4
  <2> QED
    BY <2>1, <2>5
<1>9. CASE Strategy(l) = "fixed"
  <2>1. LeftOut(l) = Second - 1
    BY <1>9 DEF LeftOut
  <2>2. q \in B
    BY <1>9 DEF KeptInv, Refused
  <2>3. \E h \in B : hitAt[h][l] + Window(l) <= at + (Second - 1)
    <3>1. CASE C = {}
      <4>1. C = IF \E h \in B : hitAt[h][l] + Window(l) <= now THEN {} ELSE B
        BY <1>9 DEF Counted
      <4>2. PICK h \in B : hitAt[h][l] + Window(l) <= now
        BY <2>2, <3>1, <4>1
      <4>3. hitAt[h][l] \in Nat
        BY <1>4
      <4> HIDE DEF B
      <4>4. hitAt[h][l] + Window(l) <= at + (Second - 1)
        BY <1>3, <1>6, <4>2, <4>3
      <4> QED
        BY <4>4
    <3>2. CASE C # {}
      <4>1. PICK h \in C : hitAt[h][l] + Window(l) = end
        BY <1>8, <3>2
      <4> HIDE DEF B, C, end
      <4> QED
        BY <1>6, <1>7, <4>1
    <3> QED
      BY <3>1, <3>2
  <2> QED
    BY <1>9, <2>1, <2>3 DEF FreeAt
<1>10. CASE Strategy(l) = "moving"
  <2> DEFINE left == {h \in B : hitAt[h][l] + Window(l) >= at + Second}
  <2>1. LeftOut(l) = Second
    BY <1>10 DEF LeftOut
  <2>2. C = {h \in B : hitAt[h][l] + Window(l) >= now}
    BY <1>10 DEF Counted
  <2>3. left \subseteq C
    <3> SUFFICES ASSUME NEW h \in B, hitAt[h][l] + Window(l) >= at + Second
                 PROVE  hitAt[h][l] + Window(l) >= now
      BY <2>2
    <3>1. hitAt[h][l] \in Nat
      BY <1>4
    <3> HIDE DEF B
    <3> QED
      BY <1>3, <1>6, <3>1
  <2>4. Cardinality(left) < Amount(l)
    <3>1. CASE C = {}
      <4>1. left = {}
        BY <2>3, <3>1
      <4> HIDE DEF left
      <4> QED
        BY <1>3, <4>1, FS_EmptySet
    <3>2. CASE C # {}
      <4>1. PICK h \in C : hitAt[h][l] + Window(l) = end
        BY <1>8, <3>2
      <4>2. h \notin left
        <5> HIDE DEF B, C, end
        <5> QED
          BY <1>3, <1>5, <1>6, <4>1
      <4>3. left \subseteq B \ {h} /\ h \in B
        BY <1>7, <4>2
      <4>4. Cardinality(B) <= Amount(l)
        <5>1. MovingBook(bucket[Key(l, c, w)], Passed(l, c, w), Times(l),
                         Amount(l), Window(l), now)
          BY <1>10 DEF StoreInv, Book
        <5>2. Cardinality(bucket[Key(l, c, w)]) <= Amount(l)
          BY <5>1 DEF MovingBook
        <5> QED
          BY <1>2, <5>2
      <4> HIDE DEF B, left
      <4>5. IsFiniteSet(B \ {h}) /\ Cardinality(B \ {h}) = Cardinality(B) - 1
            /\ Cardinality(B) \in Nat
        BY <1>3, <4>3, FS_RemoveElement, FS_CardinalityType
      <4>6. Cardinality(left) \in Nat /\ Cardinality(left) <= Cardinality(B \ {h})
        BY <4>3, <4>5, SubsetCount
      <4> QED
        BY <1>3, <4>4, <4>5, <4>6
    <3> QED
      BY <3>1, <3>2
  <2> QED
    BY <1>10, <2>1, <2>4 DEF FreeAt
<1> QED
  BY <1>3, <1>9, <1>10

LEMMA StatsReturn ==
  ASSUME BookInv, StoreInv, KeptInv, LastInv, ReturnInv,
         NEW r \in Requests, StatsGlobal(r) \/ StatsRoute(r)
  PROVE  ReturnInv'
<1> SUFFICES ASSUME NEW q \in Requests, NEW k \in Limiters,
                    Refused(q, k)', pc'[q] = "refused"
             PROVE  Later(q, k)' \/ FreeAt(k, Hits(q, k), retryAt[q] + LeftOut(k))'
  BY DEF ReturnInv, ReturnOf
<1>1. /\ now' = now /\ bucket' = bucket /\ client' = client /\ store' = store
      /\ allowed' = allowed /\ hitAt' = hitAt
      /\ pc \in [Requests -> Steps] /\ retryAt \in [Requests -> Nat]
  BY DEF StatsGlobal, StatsRoute, Stats, BookInv, TypeOK
<1>2. /\ Later(q, k)' <=> Later(q, k)
      /\ Hits(q, k)' = Hits(q, k)
      /\ FreeAt(k, Hits(q, k), retryAt[q] + LeftOut(k))'
           <=> FreeAt(k, Hits(q, k), retryAt'[q] + LeftOut(k))
      /\ Refused(q, k)
  <2>1. Hits(q, k)' = Hits(q, k)
    BY <1>1 DEF Hits, Key
  <2> QED
    BY <1>1, <2>1 DEF Later, FreeAt, LeftOut, Strategy, Window, Amount, Refused
<1>3. CASE q # r
  <2>1. pc'[q] = pc[q] /\ retryAt'[q] = retryAt[q]
    BY <1>1, <1>3 DEF StatsGlobal, StatsRoute, Stats
  <2> QED
    BY <1>2, <2>1 DEF ReturnInv, ReturnOf
<1>4. CASE q = r
  <2>1. \/ pc[r] = "stats global" /\ k = Global /\ StatsGlobal(r)
        \/ pc[r] = "stats route" /\ k = path[r] /\ StatsRoute(r)
    BY <1>2, <1>4 DEF LastInv, StatsGlobal, StatsRoute
  <2>2. PICK next : Stats(r, k, next)
    BY <2>1 DEF StatsGlobal, StatsRoute
  <2>3. k \notin allowed[r]
    BY <1>2, <1>4 DEF Refused
  <2>4. retryAt'[r] = LET wait == (ResetTime(k, Hits(r, k)) - now) \div Second
                      IN  now + Second * (IF wait < 1 THEN 1 ELSE wait)
    BY <1>1, <2>2, <2>3 DEF Stats, Hits
  <2>5. ~ Later(r, k) => FreeAt(k, Hits(r, k), retryAt'[r] + LeftOut(k))
    BY <1>2, <1>4, <2>4, RoomOnReturn
  <2> QED
    BY <1>2, <1>4, <2>5
<1> QED
  BY <1>3, <1>4

LEMMA NextReturnInv ==
  BookInv /\ StoreInv /\ KeptInv /\ FullInv /\ LastInv /\ ReturnInv /\ [Next]_vars
    => ReturnInv'
<1> SUFFICES ASSUME BookInv, StoreInv, KeptInv, FullInv, LastInv, ReturnInv, [Next]_vars
             PROVE  ReturnInv'
  OBVIOUS
<1>1. ASSUME NEW r \in Requests, NEW c \in Clients, NEW claim \in Claims,
             NEW w \in Stores, NEW p \in Limited \cup Open, HitGlobal(r, c, claim, w, p)
      PROVE  ReturnInv'
  <2>1. pc \in [Requests -> Steps]
    BY DEF BookInv, TypeOK
  <2>2. retryAt' = retryAt /\ pc' = [pc EXCEPT ![r] = "stats global"]
    BY <1>1 DEF HitGlobal, Hit
  <2>3. pc'[r] # "refused" /\ \A x \in Requests : x # r => pc'[x] = pc[x]
    BY <2>1, <2>2
  <2>4. HitStep(r, Global, c, w) /\ Global \in Limiters
    BY <1>1, GlobalHitStep
  <2> QED
    BY <2>2, <2>3, <2>4, HitReturn
<1>2. ASSUME NEW r \in Requests, HitRoute(r) PROVE ReturnInv'
  <2>1. pc \in [Requests -> Steps]
    BY DEF BookInv, TypeOK
  <2>2. retryAt' = retryAt /\ pc' = [pc EXCEPT ![r] = "stats route"]
    BY <1>2 DEF HitRoute, Hit
  <2>3. pc'[r] # "refused" /\ \A x \in Requests : x # r => pc'[x] = pc[x]
    BY <2>1, <2>2
  <2>4. /\ path[r] \in Limiters /\ client[r] \in Clients /\ store[r] \in Stores
        /\ HitStep(r, path[r], client[r], store[r])
    BY <1>2, RouteHitStep
  <2> QED
    BY <2>2, <2>3, <2>4, HitReturn
<1>3. ASSUME NEW r \in Requests, StatsGlobal(r) \/ StatsRoute(r) PROVE ReturnInv'
  BY <1>3, StatsReturn
<1>4. CASE Tick \/ UNCHANGED vars
  BY <1>4 DEF Tick, vars, ReturnInv, ReturnOf, Refused, Later, FreeAt, Hits, Key, LeftOut,
                Strategy, Window, Amount
<1> QED
  BY <1>1, <1>2, <1>3, <1>4 DEF Next

LEMMA SpecReturnInv == Spec => []ReturnInv
<1>1. Init => WindowInv /\ KeptInv /\ FullInv /\ LastInv /\ ReturnInv
  <2> SUFFICES ASSUME Init PROVE WindowInv /\ KeptInv /\ FullInv /\ LastInv /\ ReturnInv
    OBVIOUS
  <2>1. \A q \in Requests, l \in Limiters : hitAt[q][l] = Never
    BY DEF Init
  <2>2. WindowInv
    BY KeyInKeys DEF Init, WindowInv
  <2> QED
    BY <2>1, <2>2 DEF KeptInv, FullInv, LastInv, ReturnInv, ReturnOf, Refused
<1> QED
  BY <1>1, NextWindowInv, NextKeptInv, NextFullInv, NextLastInv, NextReturnInv,
     SpecBookInv, SpecStoreInv, PTL DEF Spec

\* A client that waits as long as Retry-After says, and what the code leaves
\* out of it, is not refused again by the limiter that refused it: what fails
\* in RetryAfterHonoured is the rounding and the far end, and nothing else
\* (rate_limit, get_window_stats).
THEOREM RetriesAreAdmitted == Spec => RetryAfterNearlyHonoured
<1>1. ASSUME BookInv, ReturnInv, [Next]_vars
      PROVE  \A r \in Requests, l \in Limiters :
               hitAt[r][l] = Never /\ hitAt'[r][l] # Never /\ Waited(r, l, LeftOut(l))
                 => l \in allowed'[r]
  <2> SUFFICES ASSUME NEW r \in Requests, NEW l \in Limiters,
                      hitAt[r][l] = Never, hitAt'[r][l] # Never, Waited(r, l, LeftOut(l))
               PROVE  l \in allowed'[r]
    OBVIOUS
  <2>1. PICK c \in Clients, w \in Stores : HitStep(r, l, c, w)
    <3>1. ~ QuietStep
      BY DEF QuietStep
    <3>2. PICK x \in Requests, k \in Limiters, c \in Clients, w \in Stores : HitStep(x, k, c, w)
      BY <1>1, <3>1, StepKinds
    <3>3. x = r /\ k = l
      BY <1>1, <3>2, HitEffects
    <3> QED
      BY <3>2, <3>3
  <2>2. client'[r] = c /\ store'[r] = w
    BY <2>1 DEF HitStep
  <2>3. PICK q \in Requests :
          /\ pc[q] = "refused" /\ Refused(q, l)
          /\ client[q] = c /\ store[q] = w
          /\ retryAt[q] + LeftOut(l) <= now
          /\ \A x \in Requests \ {q, r} : client[x] = client[q] => hitAt[x][l] <= hitAt[q][l]
    BY <2>2 DEF Waited, Refused
  <2>4. hitAt[q][l] \in Nat
    BY <1>1, <2>3, BookTypes DEF Refused
  <2>5. ~ Later(q, l)
    <3> SUFFICES ASSUME NEW x \in Requests \ {q}, client[x] = client[q],
                        hitAt[x][l] > hitAt[q][l]
                 PROVE  FALSE
      BY DEF Later
    <3>1. x # r
      BY <2>4 DEF Never
    <3>2. hitAt[x][l] <= hitAt[q][l] /\ hitAt[x][l] \in Int
      BY <1>1, <2>3, <3>1, BookTypes DEF Never
    <3> QED
      BY <2>4, <3>2
  <2> DEFINE B == bucket[Key(l, c, w)]
             t == retryAt[q] + LeftOut(l)
  <2>6. FreeAt(l, B, t)
    BY <1>1, <2>3, <2>5 DEF ReturnInv, ReturnOf, Hits
  <2>7. t \in Int /\ t <= now /\ now \in Nat
    <3>1. retryAt[q] \in Nat
      BY <1>1 DEF BookInv, TypeOK
    <3>2. LeftOut(l) \in Int
      BY LimitsAssumption DEF LeftOut
    <3> QED
      BY <1>1, <2>3, <3>1, <3>2, BookTypes
  <2>8. /\ IsFiniteSet(B) /\ \A h \in B : hitAt[h][l] \in Nat
        /\ Amount(l) \in Nat \ {0} /\ Window(l) \in Nat
        /\ Strategy(l) \in {"fixed", "moving"}
    <3>1. \A h \in B : h \in Requests /\ hitAt[h][l] # Never
      BY <1>1, BookTypes
    <3> QED
      BY <1>1, <3>1, BookTypes, LimitTypes
  <2>9. Admits(l, B)
    <3> HIDE DEF B, t
    <3>1. CASE Strategy(l) = "fixed"
      <4>1. PICK h \in B : hitAt[h][l] + Window(l) <= t
        BY <2>6, <3>1 DEF FreeAt
      <4>2. hitAt[h][l] + Window(l) <= now
        BY <2>7, <2>8, <4>1
      <4>3. Counted(l, B) = {}
        BY <3>1, <4>2 DEF Counted
      <4> QED
        BY <2>8, <4>3, FS_EmptySet DEF Admits, Used
    <3>2. CASE Strategy(l) = "moving"
      <4> DEFINE C == Counted(l, B)
                 room == {h \in B : hitAt[h][l] + Window(l) >= t}
      <4>1. C = {h \in B : hitAt[h][l] + Window(l) >= now}
        BY <3>2 DEF Counted
      <4>2. C \subseteq room /\ room \subseteq B
        BY <2>7, <2>8, <4>1
      <4>3. Cardinality(room) < Amount(l)
        BY <2>6, <3>2 DEF FreeAt
      <4> HIDE DEF C, room
      <4>4. IsFiniteSet(room)
        BY <2>8, <4>2, SubsetCount
      <4>5. Cardinality(C) \in Nat /\ Cardinality(room) \in Nat
            /\ Cardinality(C) <= Cardinality(room)
        BY <4>2, <4>4, SubsetCount
      <4>6. Cardinality(C) < Amount(l)
        BY <2>8, <4>3, <4>5
      <4> QED
        BY <4>6 DEF C, Admits, Used
    <3> QED
      BY <2>8, <3>1, <3>2
  <2> QED
    BY <1>1, <2>1, <2>9, HitEffects
<1> QED
  BY <1>1, SpecBookInv, SpecReturnInv, PTL DEF Spec, RetryAfterNearlyHonoured
==============================================================================
