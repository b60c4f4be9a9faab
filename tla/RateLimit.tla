------------------------------ MODULE RateLimit ------------------------------
(***************************************************************************)
(* The layered rate limiter: every API route runs the app-wide dependency  *)
(* of app/api.py first and, when it has one, its own stricter limiter      *)
(* second.  A dependency is two calls to the storage, each in a worker     *)
(* thread of its own: hit, which counts the request and decides, and       *)
(* get_window_stats, which is read for the headers and for Retry-After.    *)
(* Other requests and the clock move between the two.                      *)
(*                                                                         *)
(* A limiter counts a request at most once, so a bucket is the set of the  *)
(* requests it counted and `hitAt` has their times.  The storage and its   *)
(* two window algorithms belong to the `limits` library and are modelled   *)
(* from what rate_limit asks of them: "fixed" counts every hit of a window *)
(* opened by its first one, "moving" counts the admitted hits of the last  *)
(* window length.  With memory:// each worker process has a store of its   *)
(* own, with redis:// there is one.  Whose bucket it is follows from the   *)
(* header and the connection the request arrives with (ClientAddress).     *)
(***************************************************************************)
EXTENDS ClientAddress, FiniteSetsExt

CONSTANTS
  Clients,                         \* the addresses callers have
  Claims,                          \* what they put in X-Forwarded-For
  Stores,                          \* rate-limit storages
  Requests,                        \* one-shot
  Global,                          \* the app-wide limiter
  Limited,                         \* routes with a limiter of their own
  Open,                            \* routes without
  Nobody, Nowhere,
  GlobalAmount, GlobalWindow,      \* RATE_LIMIT_GLOBAL, e.g. 1000/minute
  RouteAmount, RouteWindow,        \* e.g. 5/minute
  GlobalStrategy, RouteStrategy,   \* "fixed" or "moving"
  Second,                          \* clock ticks per second
  MaxTime                          \* bound of the clock

Limiters == {Global} \cup Limited
Never == -1

ASSUME NamesAssumption == Global \notin Limited \cup Open /\ Limited \cap Open = {}

\* net.py: "Set it to the exact number of proxies in front of the app".
ASSUME HopsAssumption == TrustedProxyHops = Len(Proxies)

ASSUME ClaimsAssumption == Claims \subseteq Seq(Clients)

\* Over TCP the server knows the other end of every connection.
ASSUME PeerAssumption == NoPeer \notin Clients

ASSUME LimitsAssumption ==
  /\ GlobalAmount \in Nat \ {0} /\ GlobalWindow \in Nat \ {0}
  /\ RouteAmount \in Nat \ {0} /\ RouteWindow \in Nat \ {0}
  /\ GlobalStrategy \in {"fixed", "moving"} /\ RouteStrategy \in {"fixed", "moving"}
  /\ Second \in Nat \ {0} /\ MaxTime \in Nat

VARIABLES
  now,        \* the clock
  bucket,     \* the requests each limiter counts for a client and a store
  caller,     \* who sent a request
  client,     \* whose request client_ip takes it for
  store,      \* the storage of the worker that serves it
  path,       \* its route
  pc,         \* the call it is about to make
  stash,      \* request.state.rate_limit: whose budget, and what remains of it
  allowed,    \* the limiters whose hit let the request through
  hitAt,      \* when each limiter counted the request
  retryAt     \* when a refused request was told to come back

vars == <<now, bucket, caller, client, store, path, pc, stash, allowed, hitAt, retryAt>>

Amount(l) == IF l = Global THEN GlobalAmount ELSE RouteAmount
Window(l) == IF l = Global THEN GlobalWindow ELSE RouteWindow
Strategy(l) == IF l = Global THEN GlobalStrategy ELSE RouteStrategy

Keys == Limiters \X Clients \X Stores

Steps == {"idle", "stats global", "hit route", "stats route",
          "handled", "refused"}

TypeOK ==
  /\ now \in 0..MaxTime
  /\ bucket \in [Keys -> SUBSET Requests]
  /\ caller \in [Requests -> Clients \cup {Nobody}]
  /\ client \in [Requests -> Clients \cup {Nobody}]
  /\ store \in [Requests -> Stores \cup {Nowhere}]
  /\ path \in [Requests -> Limited \cup Open \cup {Nowhere}]
  /\ pc \in [Requests -> Steps]
  /\ stash \in [Requests -> [by : Limiters \cup {Nobody},
                           remaining : Nat]]
  /\ allowed \in [Requests -> SUBSET Limiters]
  /\ hitAt \in [Requests -> [Limiters -> 0..MaxTime \cup {Never}]]
  /\ retryAt \in [Requests -> Nat]

Init ==
  /\ now = 0
  /\ bucket = [k \in Keys |-> {}]
  /\ caller = [r \in Requests |-> Nobody]
  /\ client = [r \in Requests |-> Nobody]
  /\ store = [r \in Requests |-> Nowhere]
  /\ path = [r \in Requests |-> Nowhere]
  /\ pc = [r \in Requests |-> "idle"]
  /\ stash = [r \in Requests |-> [by |-> Nobody, remaining |-> 0]]
  /\ allowed = [r \in Requests |-> {}]
  /\ hitAt = [r \in Requests |-> [l \in Limiters |-> Never]]
  /\ retryAt = [r \in Requests |-> 0]

------------------------------------------------------------------------------
(* The storage.                                                            *)

\* Mutant: the caller is left out of the key.
KeyOfNobody(l, c, s) == <<l, CHOOSE x \in Clients : TRUE, s>>

\* build_key: the app-wide limiter leaves the path out.
Key(l, c, s) == <<l, c, s>>

\* The hits of a bucket that still count.  A fixed window lasts from its first
\* hit; a moving one reaches back from now, its far end included.
Counted(l, hits) ==
  IF Strategy(l) = "fixed"
  THEN IF \E h \in hits : hitAt[h][l] + Window(l) <= now THEN {} ELSE hits
  ELSE {h \in hits : hitAt[h][l] + Window(l) >= now}

Used(l, hits) == Cardinality(Counted(l, hits))

\* Mutant: the comparison is off by one.
AdmitsOneMore(l, hits) == Used(l, hits) <= Amount(l)

Admits(l, hits) == Used(l, hits) < Amount(l)

\* "moving" counts the admitted hits only, "fixed" the refused ones too.
AfterHit(r, l, hits) ==
  IF Admits(l, hits) \/ Strategy(l) = "fixed"
  THEN Counted(l, hits) \cup {r}
  ELSE Counted(l, hits)

\* Mutant: what was left before this request.
RemainingBefore(l, hits) ==
  LET left == Amount(l) + 1 - Used(l, hits) IN IF left < 0 THEN 0 ELSE left

\* Mutant: the difference as it is, also when refused hits were counted.
RemainingUnclamped(l, hits) == Amount(l) - Used(l, hits)

\* get_window_stats: what is left of the budget.
Remaining(l, hits) ==
  LET left == Amount(l) - Used(l, hits) IN IF left < 0 THEN 0 ELSE left

\* Mutant: the window is taken to end with its last tick, not after it.
ResetTimeEarly(l, hits) ==
  IF Counted(l, hits) # {}
  THEN Min({hitAt[h][l] : h \in Counted(l, hits)}) + Window(l) - 1
  ELSE now

\* get_window_stats: when the window ends.  Without a hit that counts, a fixed
\* window has ended and a moving one is a whole length from here.
ResetTime(l, hits) ==
  IF Counted(l, hits) # {}
  THEN Min({hitAt[h][l] : h \in Counted(l, hits)}) + Window(l)
  ELSE IF Strategy(l) = "fixed" THEN now ELSE now + Window(l)

------------------------------------------------------------------------------
(* A request.                                                              *)

\* allowed = limiter.hit(rate, key)
Hit(r, l, k, next) ==
  LET hits == bucket[k] IN
  /\ bucket' = [bucket EXCEPT ![k] = AfterHit(r, l, hits)]
  /\ allowed' = [allowed EXCEPT ![r] = IF Admits(l, hits) THEN @ \cup {l} ELSE @]
  /\ hitAt' = [hitAt EXCEPT ![r][l] = now]
  /\ pc' = [pc EXCEPT ![r] = next]
  /\ UNCHANGED <<now, stash, retryAt>>

\* get_window_stats, then either 429 with Retry-After in whole seconds or the
\* stash for the headers.
Stats(r, l, next) ==
  LET hits == bucket[Key(l, client[r], store[r])]
      wait == (ResetTime(l, hits) - now) \div Second
  IN
  /\ IF l \in allowed[r]
     THEN /\ pc' = [pc EXCEPT ![r] = next]
          /\ stash' = [stash EXCEPT ![r] =
                         [by |-> l, remaining |-> Remaining(l, hits)]]
          /\ UNCHANGED retryAt
     ELSE /\ pc' = [pc EXCEPT ![r] = "refused"]
          /\ retryAt' = [retryAt EXCEPT ![r] =
                           now + Second * (IF wait < 1 THEN 1 ELSE wait)]
          /\ UNCHANGED stash
  /\ UNCHANGED <<now, bucket, caller, client, store, path, allowed, hitAt>>

\* The router's dependency, then the route's.
HitGlobal(r, c, claim, s, p) ==
  /\ pc[r] = "idle"
  /\ caller' = [caller EXCEPT ![r] = c]
  /\ client' = [client EXCEPT ![r] = ResolveClientIp(Forwarded(claim, c), Peer(c))]
  /\ store' = [store EXCEPT ![r] = s]
  /\ path' = [path EXCEPT ![r] = p]
  /\ Hit(r, Global, Key(Global, client'[r], s), "stats global")

StatsGlobal(r) ==
  /\ pc[r] = "stats global"
  /\ Stats(r, Global, IF path[r] \in Limited THEN "hit route" ELSE "handled")

HitRoute(r) ==
  /\ pc[r] = "hit route"
  /\ Hit(r, path[r], Key(path[r], client[r], store[r]), "stats route")
  /\ UNCHANGED <<caller, client, store, path>>

StatsRoute(r) == pc[r] = "stats route" /\ Stats(r, path[r], "handled")

Tick ==
  /\ now < MaxTime
  /\ now' = now + 1
  /\ UNCHANGED <<bucket, caller, client, store, path, pc, stash, allowed, hitAt, retryAt>>

Next ==
  \/ \E r \in Requests, c \in Clients, claim \in Claims, s \in Stores,
        p \in Limited \cup Open : HitGlobal(r, c, claim, s, p)
  \/ \E r \in Requests :
       StatsGlobal(r) \/ HitRoute(r) \/ StatsRoute(r)
  \/ Tick

Spec == Init /\ [][Next]_vars

------------------------------------------------------------------------------
(* Properties.                                                             *)

\* Both the log and the limiter "attribute a request to the same caller"
\* (net.py): whatever a caller writes into X-Forwarded-For, its requests are
\* counted in its own bucket and in nobody else's.
OneBucketPerCaller == client = caller

\* The requests of client c that limiter l let through from time a to time b,
\* counted by storage w.
Admitted(l, c, w, a, b) ==
  {r \in Requests : /\ client[r] = c /\ store[r] = w
                    /\ l \in allowed[r] /\ hitAt[r][l] \in a..b}

\* However requests and window ends interleave, one window length sees no more
\* of a client than the budget with a moving window, and one less than twice
\* the budget with a fixed one: the hit that opened a window is never in reach
\* of the next.  Each storage grants that much, which is why
\* docs/configuration.md says "N workers give N times the intended limit".
BurstBound ==
  \A l \in Limiters, c \in Clients, w \in Stores, t \in 0..now :
    Cardinality(Admitted(l, c, w, t - Window(l) + 1, t))
      <= IF Strategy(l) = "fixed" THEN 2 * Amount(l) - 1 ELSE Amount(l)

\* A refusal has a cause in what was let through, never in what was refused:
\* a limiter that refuses a request has admitted a full budget of the same
\* client on the same storage within the last window length, so a client that
\* keeps retrying is not kept out by its own retries.
RefusedForCause ==
  \A r \in Requests, l \in Limiters :
    hitAt[r][l] # Never /\ l \notin allowed[r] =>
      Cardinality(Admitted(l, client[r], store[r],
                           hitAt[r][l] - Window(l), hitAt[r][l])) >= Amount(l)

\* The last request of the client of r that limiter l counted is over, it was
\* told that something remains, and nothing else of that client is under way.
ToldThatSomeRemains(r, l) ==
  \E q \in Requests :
    /\ pc[q] = "handled" /\ stash[q].by = l /\ stash[q].remaining > 0
    /\ <<client[q], store[q]>> = <<client[r]', store[r]'>>
    /\ \A x \in Requests \ {q, r} : client[x] = client[q] =>
         pc[x] \in {"handled", "refused"} /\ hitAt[x][l] < hitAt[q][l]

\* docs/api-contract.md: "Successful responses carry the current budget".  A
\* client that paces itself by X-RateLimit-Remaining is not refused by the
\* limiter that reported it, although the number is read after the hit, when
\* other hits and the window's end may have come in between.
RemainingHonoured ==
  [][\A r \in Requests, l \in Limiters :
       hitAt[r][l] = Never /\ hitAt'[r][l] # Never /\ ToldThatSomeRemains(r, l)
         => l \in allowed'[r]]_vars

\* Since limiter l refused it last, the client of r has sent nothing else that
\* l counts and has waited as long as it was told and `longer`.
Waited(r, l, longer) ==
  \E q \in Requests :
    /\ pc[q] = "refused" /\ hitAt[q][l] # Never /\ l \notin allowed[q]
    /\ <<client[q], store[q]>> = <<client[r]', store[r]'>>
    /\ retryAt[q] + longer <= now
    /\ \A x \in Requests \ {q, r} : client[x] = client[q] =>
         pc[x] \in {"handled", "refused"} /\ hitAt[x][l] <= hitAt[q][l]

\* docs/api-contract.md: "Wait Retry-After seconds before retrying".  A client
\* that does is not refused again by the limiter that refused it.
RetryAfterHonoured ==
  [][\A r \in Requests, l \in Limiters :
       hitAt[r][l] = Never /\ hitAt'[r][l] # Never /\ Waited(r, l, 0)
         => l \in allowed'[r]]_vars

\* What Retry-After leaves out: the fraction of a second that is cut off, and
\* with a moving window its far end, which still counts.
LeftOut(l) == IF Strategy(l) = "fixed" THEN Second - 1 ELSE Second

\* A client that waits that much longer is not refused again, although the
\* window's end is read after the refusal, when others may have been counted,
\* and although its refused request may have been counted as well.
RetryAfterNearlyHonoured ==
  [][\A r \in Requests, l \in Limiters :
       hitAt[r][l] = Never /\ hitAt'[r][l] # Never /\ Waited(r, l, LeftOut(l))
         => l \in allowed'[r]]_vars
==============================================================================
