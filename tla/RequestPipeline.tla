--------------------------- MODULE RequestPipeline ---------------------------
(***************************************************************************)
(* A request from the outermost middleware to its use case and back:       *)
(* create_app's stack, FastAPI's dependencies in the order it solves them, *)
(* the route's use case and event, the unit of work of get_session, and    *)
(* the exception handler that turns what was raised into an answer.        *)
(* Several requests are under way in one worker (Worker); their events run *)
(* on the bus (EventBus), their probes share the Redis client (Health).    *)
(*                                                                         *)
(* A request is what is left of its route's Stages.  Each stage is passed, *)
(* refuses the request with one of its status codes, or breaks.  Whether   *)
(* get_session's COMMIT comes before or after the response depends on the  *)
(* FastAPI version, so a behaviour has either order.                       *)
(***************************************************************************)
EXTENDS Health, EventBus, Sequences

CONSTANT
  Offered      \* the routes each request may take (bound)

VARIABLES
  order,       \* "commit first" or "answer first"
  route,       \* where a request was sent
  pc,          \* what it is doing
  todo,        \* the stages it still has to pass
  budgeted,    \* requests whose request.state.rate_limit is set
  outcome,     \* the answer decided on: its status and the layer it comes from
  answered,    \* requests whose answer was sent
  stored,      \* requests whose writes are in the database
  troubled,    \* history: requests that met an outage, a full pool or a cut PING
  clashed      \* history: requests with a statement that raised although the
               \* database answered it

history == <<troubled, clashed>>
requestVars == <<order, route, pc, todo, budgeted, outcome, answered, stored>>
vars == <<workerVars, checkVars, task, requestVars, history>>

\* What a request passes, route by route.  The host, the route and the body are
\* looked at before any dependency is solved; the router's dependencies run
\* before the route's; what else is invalid is raised when all are solved.
Stages ==
  [ live       |-> <<"door">>,
    ready      |-> <<"door", "checks">>,
    unknown    |-> <<"door">>,
    register   |-> <<"door", "budget", "route_budget", "use_case", "dispatch">>,
    login      |-> <<"door", "budget", "route_budget", "use_case", "dispatch", "tokens">>,
    refresh    |-> <<"door", "budget", "route_budget", "use_case">>,
    me         |-> <<"door", "budget", "account">>,
    get_user   |-> <<"door", "budget", "account", "use_case">>,
    list_users |-> <<"door", "budget", "account", "use_case">> ]

Routes  == {"live", "ready", "unknown", "register", "login", "refresh",
            "me", "get_user", "list_users"}
Api     == Routes \ {"live", "ready", "unknown"}
Writing == {"register", "login", "refresh"}

StageNames == {"door", "budget", "route_budget", "account", "use_case",
               "dispatch", "tokens", "checks"}
Budgets    == {"budget", "route_budget"}
Statements == {"account", "use_case", "tokens"}

\* The status codes a stage refuses a request with before it asks the database:
\* a body that cannot be parsed or read, no route, no budget, no access token,
\* not a superuser, invalid input, a refresh token that cannot be decoded.
EarlyRefusals(p, s) ==
  CASE s = "door" /\ p = "unknown"                           -> {404, 405}
    [] s = "door" /\ p \in {"register", "login", "refresh"}  -> {400, 422}
    [] s \in Budgets                                         -> {429}
    [] s = "account"                                         -> {401}
    [] s = "use_case" /\ p \in {"get_user", "list_users"}    -> {403, 422}
    [] s = "use_case" /\ p = "refresh"                       -> {401, 422}
    [] s = "use_case" /\ p \in {"register", "login"}         -> {422}
    [] OTHER                                                 -> {}

\* The AppErrors that follow from what the database said.
LateRefusals(p, s) ==
  CASE s = "account"                                         -> {401}
    [] s = "use_case" /\ p = "register"                      -> {409}
    [] s = "use_case" /\ p \in {"login", "refresh"}          -> {401}
    [] s = "use_case" /\ p = "get_user"                      -> {404}
    [] OTHER                                                 -> {}

\* Mutant: include_router does not pass on the router's own responses.
DocumentedByRoute ==
  [ register   |-> {409, 422}, login      |-> {401, 422}, refresh |-> {401, 422},
    me         |-> {},         get_user   |-> {403, 404, 422},
    list_users |-> {403, 422} ]

\* The error_responses of a route and of the routers that include it.
Documented ==
  [ register   |-> {409, 422, 429}, login      |-> {401, 422, 429},
    refresh    |-> {401, 422, 429}, me         |-> {401, 429},
    get_user   |-> {401, 403, 404, 422, 429},
    list_users |-> {401, 403, 422, 429} ]

\* Mutant: middlewares wrap in the order they are added.
StackAsAdded ==
  <<"server error", "cors", "trusted host", "gzip", "session",
    "request context", "limit headers", "exceptions", "router">>

\* Starlette's stack, outermost first: the last one added is the first to run.
Stack ==
  <<"server error", "limit headers", "request context", "session", "gzip",
    "trusted host", "cors", "exceptions", "router">>

Layers == {"server error", "limit headers", "request context", "session",
           "gzip", "trusted host", "cors", "exceptions", "router"}

ASSUME OfferedAssumption == \A r \in Requests : Offered[r] \subseteq Routes

Undecided == [status |-> 0, layer |-> "router"]
Refusals == {400, 401, 403, 404, 405, 409, 422, 429}
Answers  == [status : {0, 200, 201, 500, 503} \cup Refusals, layer : Layers]

Steps == {"idle", "stages", "gather", "checks", "commit", "respond", "unwind", "done"}
InFlight == {r \in Requests : pc[r] \notin {"idle", "done"}}

TypeOK ==
  /\ WorkerTypeOK
  /\ HealthTypeOK
  /\ BusTypeOK
  /\ order \in {"commit first", "answer first"}
  /\ route \in [Requests -> Routes]
  /\ pc \in [Requests -> Steps]
  /\ todo \in [Requests -> Seq(StageNames)]
  /\ budgeted \subseteq Requests
  /\ outcome \in [Requests -> Answers]
  /\ answered \subseteq Requests
  /\ stored \subseteq Requests
  /\ troubled \subseteq Requests
  /\ clashed \subseteq Requests

Init ==
  /\ WorkerInit
  /\ HealthInit
  /\ BusInit
  /\ order \in {"commit first", "answer first"}
  /\ route = [r \in Requests |-> "unknown"]
  /\ pc = [r \in Requests |-> "idle"]
  /\ todo = [r \in Requests |-> <<>>]
  /\ budgeted = {}
  /\ outcome = [r \in Requests |-> Undecided]
  /\ answered = {}
  /\ stored = {}
  /\ troubled = {}
  /\ clashed = {}

------------------------------------------------------------------------------
(* Going in.                                                               *)

At(r, s) == pc[r] = "stages" /\ todo[r] # <<>> /\ Head(todo[r]) = s

Goto(r, step) == pc' = [pc EXCEPT ![r] = step]

\* The stage is passed.
Pass(r) == todo' = [todo EXCEPT ![r] = Tail(@)]

\* What is raised unwinds the dependencies, get_session among them, before a
\* handler answers it.
Raise(r, status, layer) ==
  /\ Goto(r, "unwind")
  /\ todo' = [todo EXCEPT ![r] = <<>>]
  /\ outcome' = [outcome EXCEPT ![r] = [status |-> status, layer |-> layer]]
  /\ UNCHANGED <<workerVars, checkVars, task, order, route, budgeted, answered, stored>>

\* The route returned: its answer is decided, the exit of get_session is next.
Return(r, status) ==
  /\ Goto(r, IF order = "commit first" THEN "commit" ELSE "respond")
  /\ outcome' = [outcome EXCEPT ![r] = [status |-> status, layer |-> "router"]]
  /\ UNCHANGED <<workerVars, checkVars, task, order, route, todo, budgeted,
                 answered, stored, history>>

Receive(r, p) ==
  /\ pc[r] = "idle"
  /\ Goto(r, "stages")
  /\ route' = [route EXCEPT ![r] = p]
  /\ todo' = [todo EXCEPT ![r] = Stages[p]]
  /\ troubled' = IF redis \in {"none", "up"} /\ database = "up"
                 THEN troubled ELSE troubled \cup {r}
  /\ UNCHANGED <<workerVars, checkVars, task, order, budgeted, outcome, answered,
                 stored, clashed>>

\* The host is allowed, there is a route, and its body, if any, was read.
Admit(r) ==
  /\ At(r, "door")
  /\ route[r] # "unknown"
  /\ Pass(r)
  /\ UNCHANGED <<workerVars, checkVars, task, order, route, pc, budgeted,
                 outcome, answered, stored, history>>

\* Mutant: what is left is kept by route.
SpendByRoute(r) ==
  /\ \E s \in Budgets : At(r, s)
  /\ redis \in {"none", "up"}
  /\ Pass(r)
  /\ budgeted' = budgeted \cup {route[r]}
  /\ UNCHANGED <<workerVars, checkVars, task, order, route, pc, outcome,
                 answered, stored, history>>

\* A rate_limit dependency admits the request and stashes what is left.
Spend(r) ==
  /\ \E s \in Budgets : At(r, s)
  /\ redis \in {"none", "up"}
  /\ Pass(r)
  /\ budgeted' = budgeted \cup {r}
  /\ UNCHANGED <<workerVars, checkVars, task, order, route, pc, outcome,
                 answered, stored, history>>

\* The statements of a stage, on the request's connection.
Query(r) ==
  /\ \E s \in Statements : At(r, s)
  /\ StatementWorks(r)
  /\ Pass(r)
  /\ UNCHANGED <<workerVars, checkVars, task, order, route, pc, budgeted,
                 outcome, answered, stored, history>>

\* TrustedHostMiddleware answers a foreign host itself.
RefuseHost(r) ==
  /\ At(r, "door")
  /\ Raise(r, 400, "trusted host")
  /\ UNCHANGED history

\* An AppError, an HTTPException or a RequestValidationError, each answered by
\* the handler that ExceptionMiddleware has for it.
Refuse(r) ==
  /\ \E s \in StageNames :
       /\ At(r, s)
       /\ s \in Budgets => redis \in {"none", "up"}
       /\ \/ \E status \in EarlyRefusals(route[r], s) : Raise(r, status, "exceptions")
          \/ /\ StatementWorks(r)
             /\ \E status \in LateRefusals(route[r], s) : Raise(r, status, "exceptions")
  /\ UNCHANGED history

\* Mutant: dispatch_events raises what a handler raised.
BreakWithHandler(r) ==
  /\ \/ (\E s \in Budgets : At(r, s)) /\ redis = "down"
     \/ (\E s \in Statements : At(r, s)) /\ StatementFails(r)
     \/ At(r, "dispatch") /\ ~CanPublish(route[r])
     \/ pc[r] = "gather" /\ Gathered(r) /\ \E h \in Handlers : task[r][h] = "failed"
  /\ Raise(r, 500, "server error")
  /\ UNCHANGED history

\* Anything else that is raised passes every middleware and is answered by
\* ServerErrorMiddleware: the storage is unreachable, a statement is not
\* answered, the event cannot be published.
Break(r) ==
  /\ \/ (\E s \in Budgets : At(r, s)) /\ redis = "down"
     \/ (\E s \in Statements : At(r, s)) /\ StatementFails(r)
     \/ At(r, "dispatch") /\ ~CanPublish(route[r])
  /\ Raise(r, 500, "server error")
  /\ UNCHANGED history

\* Where a statement can raise although both servers are up: the key, row or
\* lock a request that writes needs is another request's (a duplicate INSERT, a
\* row deleted in between, a deadlock), an address finds two accounts, the ORM
\* cannot evaluate the cleanup's condition, a page has no OFFSET that fits.
MayRaise(p, s) ==
  \/ s = "use_case" /\ p \in Writing \cup {"list_users"}
  \/ s = "tokens"

\* The database answers and the statement raises all the same; it is answered
\* like any other exception nobody has a handler for.
StatementRaises(r) ==
  /\ \E s \in Statements : At(r, s) /\ MayRaise(route[r], s)
  /\ StatementWorks(r)
  /\ Raise(r, 500, "server error")
  /\ clashed' = clashed \cup {r}
  /\ UNCHANGED troubled

\* No connection of the pool came free in time.
PoolTimesOut(r) ==
  /\ \E s \in Statements : At(r, s)
  /\ conn[r] = "none" /\ PoolFull
  /\ Raise(r, 500, "server error")
  /\ troubled' = troubled \cup {r}
  /\ UNCHANGED clashed

TakeConnection(r) ==
  /\ \/ \E s \in Statements : At(r, s)
     \/ pc[r] = "checks" /\ dbCheck[r] = "running"
  /\ Connect(r)
  /\ UNCHANGED <<checkVars, task, requestVars, history>>

\* The route dispatches its event and waits for the handlers.
Dispatch(r) ==
  /\ At(r, "dispatch")
  /\ CanPublish(route[r])
  /\ Publish(r)
  /\ Goto(r, "gather")
  /\ Pass(r)
  /\ UNCHANGED <<workerVars, checkVars, order, route, budgeted, outcome, answered,
                 stored, history>>

Handle(r) ==
  /\ \E h \in Handlers, how \in Endings : HandlerEnds(r, h, how)
  /\ UNCHANGED <<workerVars, checkVars, requestVars, history>>

GoOn(r) ==
  /\ pc[r] = "gather"
  /\ Gathered(r)
  /\ Goto(r, "stages")
  /\ UNCHANGED <<workerVars, checkVars, task, order, route, todo, budgeted,
                 outcome, answered, stored, history>>

Success(p) == IF p = "register" THEN 201 ELSE 200

Finish(r) ==
  /\ pc[r] = "stages" /\ todo[r] = <<>>
  /\ Return(r, Success(route[r]))

------------------------------------------------------------------------------
(* Probes.                                                                 *)

Probe(r) ==
  /\ At(r, "checks")
  /\ BeginChecks(r)
  /\ Goto(r, "checks")
  /\ Pass(r)
  /\ UNCHANGED <<task, order, route, budgeted, outcome, answered, stored, history>>

\* A step of one of the two checks.
RunCheck(r) ==
  /\ pc[r] = "checks"
  /\ Check(r)
  /\ troubled' = troubled \cup (cut' \ cut)
                   \cup {q \in {r} : conn[q] = "none" /\ PoolFull /\ dbCheck'[q] # dbCheck[q]}
  /\ UNCHANGED <<task, requestVars, clashed>>

\* Mutant: one check out of two will do.
VerdictOfEither(r) == IF "ok" \in {dbCheck[r], redisCheck[r]} THEN 200 ELSE 503

\* all(c.status == "ok" ...): 200, or 503 with the same body.
Verdict(r) == IF AllOk(r) THEN 200 ELSE 503

Conclude(r) ==
  /\ pc[r] = "checks"
  /\ ChecksEnded(r)
  /\ Return(r, Verdict(r))

------------------------------------------------------------------------------
(* Coming out.                                                             *)

\* The response is sent and get_session's COMMIT is still to come.
Respond(r) ==
  /\ pc[r] = "respond"
  /\ answered' = answered \cup {r}
  /\ Goto(r, "commit")
  /\ UNCHANGED <<workerVars, checkVars, task, order, route, todo, budgeted,
                 outcome, stored, history>>

\* The session is closed and the connection given back; the answer that is
\* decided on is sent unless it was sent before.
End(r) ==
  /\ conn' = [conn EXCEPT ![r] = "none"]
  /\ answered' = answered \cup {r}
  /\ Goto(r, "done")
  /\ UNCHANGED <<redis, database, checkVars, task, order, route, todo,
                 budgeted, outcome, history>>

\* session.commit(), which has nothing to do without a connection.
Commit(r) ==
  /\ pc[r] = "commit"
  /\ conn[r] = "none" \/ StatementWorks(r)
  /\ stored' = IF route[r] \in Writing THEN stored \cup {r} ELSE stored
  /\ End(r)

\* A connection that was lost, or given up by a cancelled SELECT, cannot
\* commit; after the response nobody hears of it.
CommitRaises(r) ==
  /\ pc[r] = "commit"
  /\ conn[r] = "broken"
  /\ Goto(r, "unwind")
  /\ outcome' = IF r \in answered THEN outcome
                ELSE [outcome EXCEPT ![r] = [status |-> 500, layer |-> "server error"]]
  /\ UNCHANGED <<workerVars, checkVars, task, order, route, todo, budgeted,
                 answered, stored, history>>

\* Mutant: the commit of get_session is in a finally clause.
UnwindCommitting(r) ==
  /\ pc[r] = "unwind"
  /\ conn[r] = "open" => database = "up"
  /\ stored' = IF conn[r] = "open" /\ route[r] \in Writing THEN stored \cup {r} ELSE stored
  /\ End(r)

\* session.rollback(), and the handler of what was raised answers.
Unwind(r) ==
  /\ pc[r] = "unwind"
  /\ conn[r] = "open" => database = "up"
  /\ UNCHANGED stored
  /\ End(r)

------------------------------------------------------------------------------
(* The servers come and go.                                                *)

Trouble(s) == IF s = "up" THEN troubled ELSE troubled \cup InFlight

RedisChanges ==
  /\ redis # "none"
  /\ \E s \in {"up", "down", "hung"} \ {redis} :
       RedisTurns(s) /\ troubled' = Trouble(s)
  /\ UNCHANGED <<task, requestVars, clashed>>

\* A database that goes down during a COMMIT may have carried it out.
DatabaseChanges ==
  /\ \E s \in {"up", "down", "hung"} \ {database} :
       /\ DatabaseTurns(s)
       /\ troubled' = Trouble(s)
       /\ \E S \in SUBSET {r \in Requests : /\ pc[r] = "commit" /\ conn[r] = "open"
                                            /\ route[r] \in Writing} :
            /\ s # "down" => S = {}
            /\ stored' = stored \cup S
  /\ UNCHANGED <<checkVars, task, order, route, pc, todo, budgeted, outcome, answered,
                 clashed>>

Advance(r) ==
  \/ Admit(r) \/ Spend(r) \/ Query(r) \/ RefuseHost(r) \/ Refuse(r) \/ Break(r)
  \/ StatementRaises(r) \/ TakeConnection(r) \/ Dispatch(r) \/ GoOn(r) \/ Finish(r)
  \/ Handle(r) \/ Probe(r) \/ RunCheck(r) \/ Conclude(r)
  \/ Commit(r) \/ CommitRaises(r) \/ Unwind(r) \/ Respond(r)

Next ==
  \/ \E r \in Requests : \E p \in Offered[r] : Receive(r, p)
  \/ \E r \in Requests : Advance(r) \/ PoolTimesOut(r)
  \/ RedisChanges
  \/ DatabaseChanges

Spec == Init /\ [][Next]_vars

\* The event loop runs every task of a request that is ready, its checks with
\* their timeouts and its handlers, which are assumed to end.  Servers, clients
\* and the pool's own timeout get no fairness.
FairSpec == Spec /\ \A r \in Requests : WF_vars(Advance(r))

------------------------------------------------------------------------------
(* Properties.                                                             *)

\* The client and the database agree on what happened (get_session): a client
\* that was refused left nothing behind, with the COMMIT before the response a
\* success is stored, and a failure that is stored all the same met an outage
\* (a COMMIT whose acknowledgement was lost).  With the response first, a
\* success may be lost, but only to an outage.
AnswerMatchesDatabase ==
  \A r \in Requests : r \in answered =>
    /\ outcome[r].status \in 400..499 => r \notin stored
    /\ outcome[r].status \in {500, 503} /\ r \in stored => r \in troubled
    /\ outcome[r].status < 300 /\ route[r] \in Writing /\ r \notin stored =>
         order = "answer first" /\ (pc[r] # "done" \/ r \in troubled)

\* A 5xx has its cause on the request's own way: an outage, a full pool or a
\* PING cut off by another check's aclose(), its own statement, which raises only
\* in login, registration, refresh and a walk through the list, or its own event
\* with a subscriber that cannot be called.  The rows two requests both need are
\* the one way a request fails for what another one wrote; a handler that raises
\* or is cancelled, another request's rollback or its closed connection fail
\* nobody.  Routes that read the caller's account or one account by its id fail
\* with a server or with the pool only, and the liveness probe never fails.
FaultsStayLocal ==
  \A r \in Requests : r \in answered /\ outcome[r].status >= 500 =>
    /\ route[r] \notin {"live", "unknown"}
    /\ \/ r \in troubled
       \/ r \in clashed /\ route[r] \in Writing \cup {"list_users"}
       \/ ~CanPublish(route[r])

\* gather waits for its tasks: a handler that runs belongs to a request that
\* waits for it, so no handler works on a request that was answered, rolled
\* back or given its connection away.
NoHandlerOutlivesItsRequest ==
  \A r \in Requests, h \in Handlers : task[r][h] = "running" => pc[r] = "gather"

\* What a probe says is so (_run_checks, _unavailable): 200 takes both checks,
\* 503 one that failed.  Where it says neither, the COMMIT came first and an
\* outage took the connection its SELECT was on: no other probe is answered 500,
\* whatever the requests around it do.
ProbeTellsTheTruth ==
  \A r \in Requests : r \in answered /\ route[r] = "ready" =>
    LET status == outcome[r].status IN
    /\ status = 200 => AllOk(r)
    /\ status = 503 => "failed" \in {dbCheck[r], redisCheck[r]}
    /\ status = 500 => order = "commit first" /\ r \in troubled

\* What the documentation says of a probe that finds a server unavailable:
\* tests/test_health.py, "Readiness probe returns 503 (not 500) when database is
\* unavailable", and health/routes.py, "Returns 503 if any critical dependency
\* is unavailable".  get_session commits after the checks, on a connection the
\* failed SELECT has cost it, and what session.commit() raises is answered 500.
UnavailableIsSaid ==
  \A r \in Requests :
    /\ r \in answered /\ route[r] = "ready"
    /\ "failed" \in {dbCheck[r], redisCheck[r]}
    => outcome[r].status = 503

\* Redis is reachable, no PING was cut off and no client is being closed.
Recovered == redis \in {"none", "up"} /\ cut = {} /\ \A r \in Requests : redisCheck[r] # "closing"

\* The closing of a client fails other PINGs, which close it again.  Once no
\* check of an outage is left, that chain is over: as long as Redis stays up
\* no PING fails, however many probes run.
RecoveryIsLasting == [][Recovered /\ redis' = redis => Recovered']_vars

\* A response made in layer l passes layer m on its way out.
Depth(l) == CHOOSE i \in 1..Len(Stack) : Stack[i] = l
Passes(l, m) == Depth(m) < Depth(l)

\* docs/api-contract.md: meta.request_id "is echoed in the X-Request-ID response
\* header and written to the server log", and "Successful responses carry the
\* current budget".  Every answer but the 500 of the outermost layer passes
\* RequestContextMiddleware, refused hosts included, and every success of the
\* API passes RateLimitHeadersMiddleware with its numbers set.
AnswersAreTraceable ==
  \A r \in Requests : r \in answered =>
    /\ outcome[r].status # 500 => Passes(outcome[r].layer, "request context")
    /\ outcome[r].status < 300 /\ route[r] \in Api =>
         r \in budgeted /\ Passes(outcome[r].layer, "limit headers")

\* openapi.py: "the documented status codes [...] cannot drift from the
\* exceptions themselves".  Whatever a route refuses with, from whichever layer,
\* is in its documentation, but for the 400 of a host or a body that cannot be
\* read.
RefusalsAreDocumented ==
  \A r \in Requests :
    r \in answered /\ route[r] \in Api /\ outcome[r].status \in 401..499
      => outcome[r].status \in Documented[route[r]]

\* The one thing a request may wait for without end: its own next step needs
\* an answer of a server that hangs, or a connection to it.
WaitsForHung(r) ==
  \/ /\ redis = "hung"
     /\ \E s \in Budgets : At(r, s)
  \/ /\ database = "hung"
     /\ \/ conn[r] # "broken" /\ \E s \in Statements : At(r, s)
        \/ conn[r] = "open" /\ pc[r] \in {"commit", "unwind"}

\* Every request ends, and with it gives its connection back, through outages,
\* full pools, failing handlers and failing COMMITs, unless its own next step
\* needs a server that hangs.  A hung Redis stops no request that has its budget,
\* a hung database none that is not at a statement, and the checks of a probe
\* end whichever server hangs and whoever holds the pool.
EveryRequestEnds ==
  \A r \in Requests : []<>(r \in InFlight => WaitsForHung(r))
==============================================================================
