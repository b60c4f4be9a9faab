------------------------ MODULE RequestPipelineProofs ------------------------
(***************************************************************************)
(* Proofs about RequestPipeline, for any requests, routes offered, pool    *)
(* size, handlers and subscribers that cannot be called.                   *)
(***************************************************************************)
EXTENDS RequestPipeline, SequenceTheorems, TLAPS

\* Most steps leave both history variables alone.
USE DEF history

\* The stages of a route.
StagesOf(p) == {Stages[p][i] : i \in 1..Len(Stages[p])}

LEMMA StagesAreSequences ==
  ASSUME NEW p \in Routes
  PROVE  Stages[p] \in Seq(StageNames) /\ Stages[p] \in Seq(StagesOf(p))
<1>1. Stages[p] \in Seq(StageNames)
  <2> USE DEF StageNames
  <2>1. Stages.live \in Seq(StageNames)
    BY DEF Stages
  <2>2. Stages.ready \in Seq(StageNames)
    BY DEF Stages
  <2>3. Stages.unknown \in Seq(StageNames)
    BY DEF Stages
  <2>4. Stages.register \in Seq(StageNames)
    BY DEF Stages
  <2>5. Stages.login \in Seq(StageNames)
    BY DEF Stages
  <2>6. Stages.refresh \in Seq(StageNames)
    BY DEF Stages
  <2>7. Stages.me \in Seq(StageNames)
    BY DEF Stages
  <2>8. Stages.get_user \in Seq(StageNames)
    BY DEF Stages
  <2>9. Stages.list_users \in Seq(StageNames)
    BY DEF Stages
  <2> QED
    BY <2>1, <2>2, <2>3, <2>4, <2>5, <2>6, <2>7, <2>8, <2>9 DEF Routes, Stages
<1>2. \A i \in 1..Len(Stages[p]) : Stages[p][i] \in StagesOf(p)
  BY DEF StagesOf
<1> QED
  BY <1>1, <1>2

\* What the later stages are, route by route.
LEMMA StagesByRoute ==
  /\ StagesOf("live") \subseteq {"door"} /\ StagesOf("unknown") \subseteq {"door"}
  /\ StagesOf("ready") \subseteq {"door", "checks"}
  /\ StagesOf("register") \subseteq {"door", "budget", "route_budget", "use_case", "dispatch"}
  /\ StagesOf("login") \subseteq {"door", "budget", "route_budget", "use_case", "dispatch", "tokens"}
  /\ StagesOf("refresh") \subseteq {"door", "budget", "route_budget", "use_case"}
  /\ StagesOf("me") \subseteq {"door", "budget", "account"}
  /\ StagesOf("get_user") \subseteq {"door", "budget", "account", "use_case"}
  /\ StagesOf("list_users") \subseteq {"door", "budget", "account", "use_case"}
  BY DEF StagesOf, Stages

\* A refusal of the API is a documented one (error_responses), stage by stage.
LEMMA RefusalsByRoute ==
  ASSUME NEW p \in Api, NEW s \in StagesOf(p),
         NEW status \in EarlyRefusals(p, s) \cup LateRefusals(p, s),
         status # 400
  PROVE  status \in Documented[p]
<1>1. p \in {"register", "login", "refresh", "me", "get_user", "list_users"}
  BY DEF Api, Routes
<1> QED
  BY <1>1, StagesByRoute DEF EarlyRefusals, LateRefusals, Documented, Budgets

------------------------------------------------------------------------------
(* Types.                                                                  *)

LEMMA TypeInit == Init => TypeOK
<1> SUFFICES ASSUME Init PROVE TypeOK
  OBVIOUS
<1> USE DEF Init
<1>1. WorkerTypeOK
  BY DEF WorkerInit, WorkerTypeOK
<1>2. HealthTypeOK
  BY DEF HealthInit, HealthTypeOK
<1>3. BusTypeOK
  BY DEF BusInit, BusTypeOK
<1>4. outcome \in [Requests -> Answers]
  <2>1. Undecided \in Answers
    BY DEF Undecided, Answers, Layers
  <2> QED
    BY <2>1
<1>5. todo \in [Requests -> Seq(StageNames)]
  BY EmptySeq
<1> QED
  BY <1>1, <1>2, <1>3, <1>4, <1>5 DEF TypeOK, Routes, Steps

\* A check of a probe keeps the types of the worker and of the checks.
LEMMA CheckTypes ==
  ASSUME TypeOK, NEW r \in Requests, Check(r)
  PROVE  WorkerTypeOK' /\ HealthTypeOK'
<1> USE DEF TypeOK, WorkerTypeOK, HealthTypeOK, workerVars
<1>1. CASE SelectAnswers(r)
  BY <1>1 DEF SelectAnswers
<1>2. CASE SelectRaises(r)
  BY <1>2 DEF SelectRaises
<1>3. CASE SelectTimesOut(r)
  BY <1>3 DEF SelectTimesOut
<1>4. CASE PingAnswers(r)
  BY <1>4 DEF PingAnswers
<1>5. CASE PingRaises(r)
  BY <1>5 DEF PingRaises
<1>6. CASE PingTimesOut(r)
  BY <1>6 DEF PingTimesOut
<1>7. CASE CloseClient(r)
  BY <1>7 DEF CloseClient, Pinging
<1> QED
  BY <1>1, <1>2, <1>3, <1>4, <1>5, <1>6, <1>7 DEF Check

\* What is left of a request's stages is a sequence of stages.
LEMMA TailOfTodo ==
  ASSUME NEW S, NEW q \in Seq(S), q # <<>>
  PROVE  Tail(q) \in Seq(S) /\ Head(q) \in S
  OBVIOUS

LEMMA AnswerTypes ==
  ASSUME NEW status \in {200, 201, 500, 503} \cup Refusals, NEW layer \in Layers
  PROVE  [status |-> status, layer |-> layer] \in Answers
  BY DEF Answers

LEMMA RefusalTypes ==
  ASSUME NEW p \in Routes, NEW s \in StageNames
  PROVE  EarlyRefusals(p, s) \subseteq Refusals /\ LateRefusals(p, s) \subseteq Refusals
<1>1. EarlyRefusals(p, s) \subseteq Refusals
  BY DEF EarlyRefusals, Refusals
<1>2. LateRefusals(p, s) \subseteq Refusals
  BY DEF LateRefusals, Refusals
<1> QED
  BY <1>1, <1>2

\* Whatever is raised, the types are kept.
LEMMA RaiseTypes ==
  ASSUME TypeOK, NEW r \in Requests, NEW status \in {500} \cup Refusals,
         NEW layer \in Layers, Raise(r, status, layer), troubled' \subseteq Requests,
         clashed' \subseteq Requests
  PROVE  TypeOK'
<1>1. outcome' \in [Requests -> Answers]
  <2>1. [status |-> status, layer |-> layer] \in Answers
    BY AnswerTypes
  <2> QED
    BY <2>1 DEF TypeOK, Raise
<1>2. todo' \in [Requests -> Seq(StageNames)]
  BY EmptySeq DEF TypeOK, Raise
<1>3. pc' \in [Requests -> Steps]
  BY DEF TypeOK, Raise, Goto, Steps
<1>4. UNCHANGED <<redis, database, conn, dbCheck, redisCheck, cut, task>>
  BY DEF Raise, workerVars, checkVars
<1>5. WorkerTypeOK' /\ HealthTypeOK' /\ BusTypeOK'
  BY <1>4 DEF TypeOK, WorkerTypeOK, HealthTypeOK, BusTypeOK
<1> QED
  BY <1>1, <1>2, <1>3, <1>5 DEF TypeOK, Raise

LEMMA ReturnTypes ==
  ASSUME TypeOK, NEW r \in Requests, NEW status \in {200, 201, 503}, Return(r, status)
  PROVE  TypeOK'
<1>1. outcome' \in [Requests -> Answers]
  <2>1. [status |-> status, layer |-> "router"] \in Answers
    <3>1. status \in {200, 201, 500, 503} \cup Refusals /\ "router" \in Layers
      BY DEF Layers
    <3> QED
      BY <3>1, AnswerTypes
  <2> QED
    BY <2>1 DEF TypeOK, Return
<1>2. pc' \in [Requests -> Steps]
  BY DEF TypeOK, Return, Goto, Steps
<1>3. UNCHANGED <<redis, database, conn, dbCheck, redisCheck, cut, task>>
  BY DEF Return, workerVars, checkVars
<1>4. WorkerTypeOK' /\ HealthTypeOK' /\ BusTypeOK'
  <2>1. WorkerTypeOK'
    <3>1. WorkerTypeOK
      BY DEF TypeOK
    <3> QED
      BY <1>3, <3>1 DEF WorkerTypeOK
  <2>2. HealthTypeOK'
    BY <1>3 DEF TypeOK, HealthTypeOK
  <2>3. BusTypeOK'
    BY <1>3 DEF TypeOK, BusTypeOK
  <2> QED
    BY <2>1, <2>2, <2>3
<1> QED
  BY <1>1, <1>2, <1>4 DEF TypeOK, Return

LEMMA EndTypes ==
  ASSUME TypeOK, NEW r \in Requests, End(r), stored' \subseteq Requests
  PROVE  TypeOK'
<1> USE DEF TypeOK, End
<1>1. pc' \in [Requests -> Steps]
  BY DEF Goto, Steps
<1>2. WorkerTypeOK' /\ HealthTypeOK' /\ BusTypeOK'
  BY DEF WorkerTypeOK, HealthTypeOK, BusTypeOK, checkVars
<1> QED
  BY <1>1, <1>2

LEMMA TypeStep == TypeOK /\ [Next]_vars => TypeOK'
<1> SUFFICES ASSUME TypeOK, [Next]_vars PROVE TypeOK'
  OBVIOUS
<1> USE DEF Goto, At, requestVars, workerVars, checkVars
<1>1. ASSUME NEW r \in Requests, NEW p \in Offered[r], Receive(r, p)
      PROVE  TypeOK'
  <2>1. p \in Routes
    BY OfferedAssumption
  <2>2. Stages[p] \in Seq(StageNames)
    BY <2>1, StagesAreSequences
  <2> QED
    BY <1>1, <2>1, <2>2 DEF TypeOK, Receive, WorkerTypeOK, HealthTypeOK, BusTypeOK, Pinging, Steps
<1>2. ASSUME NEW r \in Requests, Admit(r)
      PROVE  TypeOK'
  <2>1. Tail(todo[r]) \in Seq(StageNames)
    BY <1>2, TailOfTodo DEF TypeOK, Admit
  <2> QED
    BY <1>2, <2>1 DEF TypeOK, Admit, Pass, WorkerTypeOK, HealthTypeOK, BusTypeOK, Pinging, Steps
<1>3. ASSUME NEW r \in Requests, Spend(r)
      PROVE  TypeOK'
  <2>1. Tail(todo[r]) \in Seq(StageNames)
    BY <1>3, TailOfTodo DEF TypeOK, Spend
  <2> QED
    BY <1>3, <2>1 DEF TypeOK, Spend, Pass, WorkerTypeOK, HealthTypeOK, BusTypeOK, Pinging, Steps
<1>4. ASSUME NEW r \in Requests, Query(r)
      PROVE  TypeOK'
  <2>1. Tail(todo[r]) \in Seq(StageNames)
    BY <1>4, TailOfTodo DEF TypeOK, Query
  <2> QED
    BY <1>4, <2>1 DEF TypeOK, Query, Pass, WorkerTypeOK, HealthTypeOK, BusTypeOK, Pinging, Steps
<1>5. ASSUME NEW r \in Requests, RefuseHost(r)
      PROVE  TypeOK'
  <2>1. Raise(r, 400, "trusted host") /\ troubled' \subseteq Requests /\ clashed' \subseteq Requests
    BY <1>5 DEF RefuseHost, TypeOK
  <2>2. 400 \in {500} \cup Refusals /\ "trusted host" \in Layers
    BY DEF Refusals, Layers
  <2> QED
    BY <2>1, <2>2, RaiseTypes
<1>6. ASSUME NEW r \in Requests, Refuse(r)
      PROVE  TypeOK'
  <2>1. PICK s \in StageNames : \E status \in EarlyRefusals(route[r], s) \cup LateRefusals(route[r], s) :
                                 Raise(r, status, "exceptions")
    BY <1>6 DEF Refuse
  <2>2. EarlyRefusals(route[r], s) \cup LateRefusals(route[r], s) \subseteq Refusals
    BY RefusalTypes DEF TypeOK
  <2>3. PICK status \in Refusals : Raise(r, status, "exceptions")
    BY <2>1, <2>2
  <2>4. troubled' = troubled /\ clashed' = clashed
    BY <1>6 DEF Refuse
  <2> QED
    BY <2>3, <2>4, RaiseTypes DEF TypeOK, Layers
<1>7. ASSUME NEW r \in Requests, Break(r)
      PROVE  TypeOK'
  <2>1. Raise(r, 500, "server error") /\ troubled' \subseteq Requests /\ clashed' \subseteq Requests
    BY <1>7 DEF Break, TypeOK
  <2>2. 500 \in {500} \cup Refusals /\ "server error" \in Layers
    BY DEF Refusals, Layers
  <2> QED
    BY <2>1, <2>2, RaiseTypes
<1>8. ASSUME NEW r \in Requests, PoolTimesOut(r)
      PROVE  TypeOK'
  <2>1. Raise(r, 500, "server error") /\ troubled' \subseteq Requests /\ clashed' \subseteq Requests
    BY <1>8 DEF PoolTimesOut, TypeOK
  <2>2. 500 \in {500} \cup Refusals /\ "server error" \in Layers
    BY DEF Refusals, Layers
  <2> QED
    BY <2>1, <2>2, RaiseTypes
<1>9. ASSUME NEW r \in Requests, TakeConnection(r)
      PROVE  TypeOK'
  BY <1>9 DEF TypeOK, TakeConnection, Connect, WorkerTypeOK, HealthTypeOK, BusTypeOK, Pinging, Steps
<1>10. ASSUME NEW r \in Requests, Dispatch(r)
      PROVE  TypeOK'
  <2>1. Tail(todo[r]) \in Seq(StageNames)
    BY <1>10, TailOfTodo DEF TypeOK, Dispatch
  <2>2. BusTypeOK'
    BY <1>10 DEF TypeOK, Dispatch, Publish, BusTypeOK
  <2> QED
    BY <1>10, <2>1, <2>2 DEF TypeOK, Dispatch, Publish, Pass, WorkerTypeOK, HealthTypeOK, Pinging, Steps
<1>11. ASSUME NEW r \in Requests, GoOn(r)
      PROVE  TypeOK'
  BY <1>11 DEF TypeOK, GoOn, WorkerTypeOK, HealthTypeOK, BusTypeOK, Pinging, Steps
<1>12. ASSUME NEW r \in Requests, Finish(r)
      PROVE  TypeOK'
  <2>1. Return(r, Success(route[r])) /\ Success(route[r]) \in {200, 201}
    BY <1>12 DEF Finish, Success
  <2> QED
    BY <2>1, ReturnTypes
<1>13. ASSUME NEW r \in Requests, Handle(r)
      PROVE  TypeOK'
  <2>1. PICK h \in Handlers, how \in Endings : HandlerEnds(r, h, how)
    BY <1>13 DEF TypeOK, Handle
  <2>2. task' = [task EXCEPT ![r] = [task[r] EXCEPT ![h] = how]]
    BY <2>1 DEF TypeOK, HandlerEnds
  <2>3. BusTypeOK'
    BY <2>2 DEF TypeOK, BusTypeOK
  <2> QED
    BY <1>13, <2>3 DEF TypeOK, Handle, WorkerTypeOK, HealthTypeOK, Pinging
<1>14. ASSUME NEW r \in Requests, Probe(r)
      PROVE  TypeOK'
  <2>1. Tail(todo[r]) \in Seq(StageNames)
    BY <1>14, TailOfTodo DEF TypeOK, Probe
  <2> QED
    BY <1>14, <2>1 DEF TypeOK, Probe, BeginChecks, Pass, WorkerTypeOK, HealthTypeOK, BusTypeOK, Pinging, Steps
<1>15. ASSUME NEW r \in Requests, RunCheck(r)
      PROVE  TypeOK'
  <2>1. WorkerTypeOK' /\ HealthTypeOK'
    BY <1>15, CheckTypes DEF TypeOK, RunCheck
  <2>2. troubled' \subseteq Requests
    BY <1>15, <2>1 DEF TypeOK, RunCheck, HealthTypeOK
  <2> QED
    BY <1>15, <2>1, <2>2 DEF TypeOK, RunCheck, BusTypeOK
<1>16. ASSUME NEW r \in Requests, Conclude(r)
      PROVE  TypeOK'
  <2>1. Return(r, Verdict(r)) /\ Verdict(r) \in {200, 503}
    BY <1>16 DEF Conclude, Verdict
  <2> QED
    BY <2>1, ReturnTypes
<1>17. ASSUME NEW r \in Requests, Commit(r)
      PROVE  TypeOK'
  <2>1. End(r) /\ stored' \subseteq Requests
    BY <1>17 DEF Commit, TypeOK
  <2> QED
    BY <2>1, EndTypes
<1>18. ASSUME NEW r \in Requests, CommitRaises(r)
      PROVE  TypeOK'
  <2>1. outcome' \in [Requests -> Answers]
    <3>1. 500 \in {200, 201, 500, 503} \cup Refusals /\ "server error" \in Layers
      BY DEF Layers
    <3>2. [status |-> 500, layer |-> "server error"] \in Answers
      BY <3>1, AnswerTypes
    <3> QED
      BY <1>18, <3>2 DEF CommitRaises, TypeOK
  <2> QED
    BY <1>18, <2>1 DEF TypeOK, CommitRaises, WorkerTypeOK, HealthTypeOK, BusTypeOK, Pinging, Steps
<1>19. ASSUME NEW r \in Requests, Unwind(r)
      PROVE  TypeOK'
  <2>1. End(r) /\ stored' \subseteq Requests
    BY <1>19 DEF Unwind, TypeOK
  <2> QED
    BY <2>1, EndTypes
<1>20. ASSUME NEW r \in Requests, Respond(r)
      PROVE  TypeOK'
  BY <1>20 DEF TypeOK, Respond, WorkerTypeOK, HealthTypeOK, BusTypeOK, Pinging, Steps
<1>21. CASE RedisChanges
  BY <1>21 DEF TypeOK, RedisChanges, RedisTurns, Trouble, InFlight, WorkerTypeOK, HealthTypeOK, BusTypeOK, Pinging
<1>22. CASE DatabaseChanges
  BY <1>22 DEF TypeOK, DatabaseChanges, DatabaseTurns, Trouble, InFlight, WorkerTypeOK, HealthTypeOK, BusTypeOK
<1>24. ASSUME NEW r \in Requests, StatementRaises(r)
       PROVE  TypeOK'
  <2>1. /\ Raise(r, 500, "server error")
        /\ troubled' \subseteq Requests /\ clashed' \subseteq Requests
    BY <1>24 DEF StatementRaises, TypeOK
  <2>2. 500 \in {500} \cup Refusals /\ "server error" \in Layers
    BY DEF Refusals, Layers
  <2> QED
    BY <2>1, <2>2, RaiseTypes
<1>23. CASE UNCHANGED vars
  BY <1>23 DEF TypeOK, vars, WorkerTypeOK, HealthTypeOK, BusTypeOK, Pinging
<1> QED
  BY <1>1, <1>2, <1>3, <1>4, <1>5, <1>6, <1>7, <1>8, <1>9, <1>10, <1>11, <1>12, <1>13, <1>14, <1>15, <1>16, <1>17, <1>18, <1>19, <1>20, <1>21, <1>22, <1>23, <1>24 DEF TypeOK, Next, Advance

\* Every variable keeps its type.
THEOREM PipelineTypeCorrect == Spec => []TypeOK
  BY TypeInit, TypeStep, PTL DEF Spec

------------------------------------------------------------------------------
(* The inductive invariant, request by request.                            *)

Settled   == {"commit", "respond", "unwind", "done"}
Successes == {200, 201}
Crashes   == {500, 503}

\* Where a request is on the way through the stages of its route.
Way(r) ==
  /\ todo[r] \in Seq(StagesOf(route[r]))
  /\ pc[r] = "checks" => route[r] = "ready"
  /\ pc[r] = "gather" => route[r] # "ready"
  /\ pc[r] = "stages" /\ route[r] = "ready" =>
       todo[r] \in {Stages["ready"], Tail(Stages["ready"])}
  /\ pc[r] \in {"stages", "gather"} /\ route[r] \in Api /\ r \notin budgeted =>
       todo[r] \in {Stages[route[r]], Tail(Stages[route[r]])}

\* Who was told.
Told(r) ==
  /\ pc[r] \notin Settled \/ pc[r] = "respond" => r \notin answered
  /\ pc[r] = "respond" => order = "answer first"
  /\ pc[r] = "commit" => (r \in answered <=> order = "answer first")
  /\ pc[r] = "done" => r \in answered
  /\ pc[r] = "unwind" /\ r \in answered => order = "answer first" /\ r \in troubled

\* What has been decided.
Decided(r) ==
  /\ pc[r] \in Settled <=> outcome[r].status # 0
  /\ pc[r] \in {"commit", "respond"} =>
       outcome[r].status \in Successes \/ (outcome[r].status = 503 /\ route[r] = "ready")
  /\ pc[r] = "unwind" => (r \in answered <=> outcome[r].status \in Successes \cup {503})

\* Where it was decided, and that the documentation has it.
Traced(r) ==
  /\ outcome[r].status \in Successes \cup {503} => outcome[r].layer = "router"
  /\ outcome[r].status \in Refusals => outcome[r].layer \in {"trusted host", "exceptions"}
  /\ outcome[r].status \in Successes /\ route[r] \in Api => r \in budgeted
  /\ route[r] \in Api /\ outcome[r].status \in Refusals \ {400} =>
       outcome[r].status \in Documented[route[r]]

\* What a request may fail for.
Excused(r) ==
  \/ r \in troubled
  \/ r \in clashed /\ route[r] \in Writing \cup {"list_users"}
  \/ ~CanPublish(route[r])

\* Whom an outage reaches.
Faults(r) ==
  /\ r \in InFlight /\ ~(redis \in {"none", "up"} /\ database = "up") => r \in troubled
  /\ conn[r] # "none" => pc[r] \notin {"idle", "done"} /\ route[r] \notin {"live", "unknown"}
  /\ conn[r] = "broken" => r \in troubled
  /\ outcome[r].status \in Crashes => /\ route[r] \notin {"live", "unknown"}
                                      /\ Excused(r)

\* Whom a check that failed belongs to.
Checking(r) ==
  /\ dbCheck[r] = "running" => pc[r] = "checks"
  /\ redisCheck[r] \in {"pinging", "closing"} => pc[r] = "checks"
  /\ dbCheck[r] = "failed" \/ redisCheck[r] \in {"closing", "failed"} \/ r \in cut =>
       r \in troubled

\* What is in the database.
Written(r) ==
  /\ r \in stored => /\ route[r] \in Writing
                     /\ pc[r] \in {"commit", "unwind", "done"}
                     /\ outcome[r].status \notin Refusals
                     /\ pc[r] # "done" \/ outcome[r].status \in Crashes => r \in troubled
                     /\ pc[r] = "commit" => conn[r] = "broken"
  /\ pc[r] = "done" /\ outcome[r].status \in Successes /\ route[r] \in Writing /\ r \notin stored =>
       order = "answer first" /\ r \in troubled

\* What a probe found.
Probed(r) ==
  route[r] = "ready" /\ pc[r] \in Settled =>
    /\ outcome[r].status = 200 => AllOk(r)
    /\ outcome[r].status = 503 => "failed" \in {dbCheck[r], redisCheck[r]}
    /\ outcome[r].status = 500 => order = "commit first" /\ r \in troubled

Inv(r) ==
  /\ Way(r) /\ Told(r) /\ Decided(r) /\ Traced(r)
  /\ Faults(r) /\ Checking(r) /\ Written(r) /\ Probed(r)

PipelineInv == TypeOK /\ \A r \in Requests : Inv(r)

------------------------------------------------------------------------------
(* The steps of other requests.                                            *)

StepOf(r) ==
  \/ \E p \in Offered[r] : Receive(r, p)
  \/ Advance(r)
  \/ PoolTimesOut(r)

\* What a step leaves of a request that does not take it: a PING may be cut
\* off, and that is trouble.
Kept(q) ==
  /\ UNCHANGED <<redis, database, order>>
  /\ UNCHANGED <<conn[q], dbCheck[q], redisCheck[q]>>
  /\ UNCHANGED <<route[q], pc[q], todo[q], outcome[q]>>
  /\ q \in budgeted' <=> q \in budgeted
  /\ q \in answered' <=> q \in answered
  /\ q \in stored' <=> q \in stored
  /\ q \in troubled => q \in troubled'
  /\ q \in clashed => q \in clashed'
  /\ q \in cut' => q \in cut \/ q \in troubled'

LEMMA OthersKeep ==
  ASSUME TypeOK, NEW r \in Requests, NEW q \in Requests, q # r, StepOf(r)
  PROVE  Kept(q)
<1>0. /\ conn \in [Requests -> {"none", "open", "broken"}]
      /\ dbCheck \in [Requests -> {"idle", "running", "ok", "failed"}]
      /\ redisCheck \in [Requests -> {"idle", "pinging", "closing", "ok", "failed"}]
      /\ task \in [Requests -> [Handlers -> {"none", "running"} \cup Endings]]
      /\ route \in [Requests -> Routes]
      /\ pc \in [Requests -> Steps]
      /\ todo \in [Requests -> Seq(StageNames)]
      /\ outcome \in [Requests -> Answers]
  BY DEF TypeOK, WorkerTypeOK, HealthTypeOK, BusTypeOK
<1> USE <1>0 DEF Kept, Goto, Pass, workerVars, checkVars, requestVars
<1>1. CASE \E p \in Offered[r] : Receive(r, p)
  BY <1>1 DEF Receive
<1>2. CASE Admit(r)
  BY <1>2 DEF Admit
<1>3. CASE Spend(r)
  BY <1>3 DEF Spend
<1>4. CASE Query(r)
  BY <1>4 DEF Query
<1>5. CASE RefuseHost(r)
  BY <1>5 DEF RefuseHost, Raise
<1>6. CASE Refuse(r)
  BY <1>6 DEF Refuse, Raise
<1>7. CASE Break(r)
  BY <1>7 DEF Break, Raise
<1>8. CASE TakeConnection(r)
  BY <1>8 DEF TakeConnection, Connect
<1>9. CASE Dispatch(r)
  BY <1>9 DEF Dispatch, Publish
<1>10. CASE GoOn(r)
  BY <1>10 DEF GoOn
<1>11. CASE Finish(r)
  BY <1>11 DEF Finish, Return
<1>12. CASE Handle(r)
  BY <1>12 DEF Handle, HandlerEnds
<1>13. CASE Probe(r)
  BY <1>13 DEF Probe, BeginChecks
<1>14. CASE RunCheck(r)
  BY <1>14 DEF RunCheck, Check, SelectAnswers, SelectRaises, SelectTimesOut, PingAnswers, PingRaises, PingTimesOut, CloseClient
<1>15. CASE Conclude(r)
  BY <1>15 DEF Conclude, Return
<1>16. CASE Commit(r)
  BY <1>16 DEF Commit, End
<1>17. CASE CommitRaises(r)
  BY <1>17 DEF CommitRaises
<1>18. CASE Unwind(r)
  BY <1>18 DEF Unwind, End
<1>19. CASE Respond(r)
  BY <1>19 DEF Respond
<1>20. CASE PoolTimesOut(r)
  BY <1>20 DEF PoolTimesOut, Raise
<1>21. CASE StatementRaises(r)
  BY <1>21 DEF StatementRaises, Raise
<1> QED
  BY <1>1, <1>2, <1>3, <1>4, <1>5, <1>6, <1>7, <1>8, <1>9, <1>10, <1>11, <1>12, <1>13, <1>14, <1>15, <1>16, <1>17, <1>18, <1>19, <1>20, <1>21 DEF StepOf, Advance

LEMMA OthersInv ==
  ASSUME NEW q \in Requests, Inv(q), Kept(q)
  PROVE  Inv(q)'
<1>1. /\ redis' = redis /\ database' = database /\ order' = order
      /\ conn'[q] = conn[q] /\ dbCheck'[q] = dbCheck[q] /\ redisCheck'[q] = redisCheck[q]
      /\ route'[q] = route[q] /\ pc'[q] = pc[q] /\ todo'[q] = todo[q]
      /\ outcome'[q] = outcome[q]
      /\ q \in budgeted' <=> q \in budgeted
      /\ q \in answered' <=> q \in answered
      /\ q \in stored' <=> q \in stored
      /\ q \in troubled => q \in troubled'
      /\ q \in clashed => q \in clashed'
      /\ q \in cut' => q \in cut \/ q \in troubled'
  BY DEF Kept
<1>2. Way(q)'
  BY <1>1 DEF Inv, Way, StagesOf
<1>3. Told(q)'
  BY <1>1 DEF Inv, Told
<1>4. Decided(q)'
  BY <1>1 DEF Inv, Decided
<1>5. Traced(q)'
  <2>1. Traced(q)
    BY DEF Inv
  <2>2. outcome'[q].status = outcome[q].status /\ outcome'[q].layer = outcome[q].layer
    BY <1>1
  <2>3. Documented[route[q]]' = Documented[route[q]]
    BY <1>1
  <2> QED
    <3>1. outcome'[q].status \in Successes \cup {503} => outcome'[q].layer = "router"
      BY ZenonT(40), <2>1, <2>2 DEF Traced
    <3>2. outcome'[q].status \in Refusals => outcome'[q].layer \in {"trusted host", "exceptions"}
      BY <2>1, <2>2 DEF Traced
    <3>3. outcome'[q].status \in Successes /\ route'[q] \in Api => q \in budgeted'
      BY <1>1, <2>1, <2>2 DEF Traced
    <3>4. route'[q] \in Api /\ outcome'[q].status \in Refusals \ {400} =>
            outcome'[q].status \in Documented[route'[q]]
      BY <1>1, <2>1, <2>2, <2>3 DEF Traced
    <3> QED
      BY <3>1, <3>2, <3>3, <3>4 DEF Traced
<1>6. Faults(q)'
  BY <1>1 DEF Inv, Faults, Excused, InFlight, CanPublish
<1>7. Checking(q)' /\ Written(q)'
  <2>1. Checking(q)'
    BY <1>1 DEF Inv, Checking
  <2>2. Written(q)'
    BY <1>1 DEF Inv, Written
  <2> QED
    BY <2>1, <2>2
<1>8. Probed(q)'
  <2>1. Probed(q)
    BY DEF Inv
  <2>2. outcome'[q].status = outcome[q].status
    BY <1>1
  <2>3. AllOk(q)' <=> AllOk(q)
    BY <1>1 DEF AllOk
  <2> QED
    BY ZenonT(40), <1>1, <2>1, <2>2, <2>3 DEF Probed
<1> QED
  BY <1>2, <1>3, <1>4, <1>5, <1>6, <1>7, <1>8 DEF Inv

\* A server that turns away reaches everybody in flight, and only them.
LEMMA ServersInv ==
  ASSUME TypeOK, NEW q \in Requests, Inv(q), RedisChanges \/ DatabaseChanges
  PROVE  Inv(q)'
<1>0. /\ Way(q) /\ Told(q) /\ Decided(q) /\ Traced(q)
      /\ Faults(q) /\ Checking(q) /\ Written(q) /\ Probed(q)
  BY DEF Inv
<1>1. /\ UNCHANGED <<order, route, pc, todo, budgeted, outcome, answered, dbCheck, redisCheck, task>>
      /\ q \in troubled => q \in troubled'
      /\ clashed' = clashed
  BY DEF RedisChanges, DatabaseChanges, RedisTurns, DatabaseTurns, Trouble, requestVars, checkVars
<1>2. Way(q)'
  BY <1>0, <1>1 DEF Way, StagesOf
<1>3. Told(q)' /\ Decided(q)' /\ Traced(q)'
  <2>1. Told(q)'
    BY <1>0, <1>1 DEF Told
  <2>2. Decided(q)'
    BY <1>0, <1>1 DEF Decided
  <2>3. Traced(q)'
    BY ZenonT(40), <1>0, <1>1 DEF Traced
  <2> QED
    BY <2>1, <2>2, <2>3
<1>4. Probed(q)'
  BY <1>0, <1>1 DEF Probed, AllOk
<1>5. Faults(q)' /\ Checking(q)' /\ Written(q)'
  <2>1. CASE RedisChanges
    <3>1. redis' # "up" /\ q \in InFlight => q \in troubled'
      BY <2>1 DEF RedisChanges, RedisTurns, Trouble
    <3>2. UNCHANGED <<conn, database, stored>>
      BY <2>1 DEF RedisChanges, RedisTurns, requestVars
    <3>3. q \in cut' => q \in cut \/ q \in troubled'
      BY <2>1, <1>0, <1>1 DEF RedisChanges, RedisTurns, Pinging, Checking, InFlight, Trouble
    <3>4. redis' = "up" => redis' \in {"none", "up"}
      OBVIOUS
    <3>5. Faults(q)'
      BY <1>0, <1>1, <3>1, <3>2, <3>3 DEF Faults, Excused, InFlight, CanPublish
    <3>7. Checking(q)'
      BY <1>0, <1>1, <3>3 DEF Checking
    <3>6. Written(q)'
      BY <1>0, <1>1, <3>2 DEF Written
    <3> QED
      BY <3>5, <3>6, <3>7
  <2>2. CASE DatabaseChanges
    <3>1. database' # "up" /\ q \in InFlight => q \in troubled'
      BY <2>2 DEF DatabaseChanges, DatabaseTurns, Trouble
    <3>2. UNCHANGED <<redis, cut>>
      BY <2>2 DEF DatabaseChanges, DatabaseTurns, checkVars
    <3>3. \/ conn'[q] = conn[q]
          \/ conn[q] # "none" /\ conn'[q] = "broken" /\ database' = "down"
      BY <2>2 DEF DatabaseChanges, DatabaseTurns, TypeOK, WorkerTypeOK
    <3>4. q \in stored => q \in stored'
      BY <2>2 DEF DatabaseChanges
    <3>5. q \in stored' => \/ q \in stored
                           \/ /\ pc[q] = "commit" /\ route[q] \in Writing
                              /\ conn[q] = "open" /\ database' = "down"
      BY <2>2 DEF DatabaseChanges, DatabaseTurns
    <3>6. conn[q] = "open" /\ database' = "down" => conn'[q] = "broken"
      BY <2>2 DEF DatabaseChanges, DatabaseTurns
    <3>7. Faults(q)'
      BY <1>0, <1>1, <3>1, <3>2, <3>3 DEF Faults, Excused, InFlight, CanPublish
    <3>10. Checking(q)'
      BY <1>0, <1>1, <3>2 DEF Checking
    <3>8. ASSUME q \in stored \/ q \notin stored' PROVE Written(q)'
      <4>1. conn[q] = "broken" => conn'[q] = "broken"
        BY <3>3
      <4>2. /\ pc'[q] = pc[q] /\ route'[q] = route[q] /\ order' = order
            /\ outcome'[q].status = outcome[q].status
            /\ q \in stored' <=> q \in stored
        BY <1>1, <3>4, <3>8
      <4>3. Written(q)
        BY <1>0
      <4>4. q \in troubled => q \in troubled'
        BY <1>1
      <4> QED
        BY <4>1, <4>2, <4>3, <4>4 DEF Written
    <3>9. ASSUME q \notin stored, q \in stored' PROVE Written(q)'
      <4>1. /\ pc[q] = "commit" /\ route[q] \in Writing
            /\ conn'[q] = "broken" /\ q \in troubled'
        BY <3>1, <3>5, <3>6, <3>9 DEF InFlight
      <4>2. outcome[q].status \notin Refusals
        BY <1>0, <4>1 DEF Decided, Successes, Refusals
      <4>3. /\ pc'[q] = pc[q] /\ route'[q] = route[q]
            /\ outcome'[q].status = outcome[q].status
        BY <1>1
      <4> QED
        BY <3>9, <4>1, <4>2, <4>3 DEF Written
    <3> QED
      BY <3>7, <3>8, <3>9, <3>10
  <2> QED
    BY <2>1, <2>2
<1> QED
  BY <1>2, <1>3, <1>4, <1>5 DEF Inv

------------------------------------------------------------------------------
(* A request's own steps.                                                  *)

\* A request is in one of its route's stages.
LEMMA AtStage ==
  ASSUME NEW r \in Requests, Way(r), NEW s, At(r, s)
  PROVE  s \in StagesOf(route[r])
  BY TailOfTodo DEF Way, At

LEMMA ApiStages ==
  ASSUME NEW p \in Routes, NEW s \in StagesOf(p), s \in Budgets \cup Statements \cup {"dispatch"}
  PROVE  p \in Api
<1>1. p \notin {"live", "ready", "unknown"}
  BY StagesByRoute DEF Budgets, Statements
<1> QED
  BY <1>1 DEF Api

\* What the stages' refusals and failures have in common.
Unwinding(r) ==
  /\ pc'[r] = "unwind" /\ todo'[r] = <<>>
  /\ UNCHANGED <<redis, database, conn, dbCheck, redisCheck, cut, order, route,
                 budgeted, answered, stored>>

Raised(r, status, layer) ==
  /\ pc[r] = "stages"
  /\ Unwinding(r)
  /\ outcome'[r].status = status /\ outcome'[r].layer = layer
  /\ r \in troubled => r \in troubled'

LEMMA RaiseEffect ==
  ASSUME TypeOK, NEW r \in Requests, NEW status, NEW layer, Raise(r, status, layer),
         pc[r] = "stages", r \in troubled => r \in troubled'
  PROVE  Raised(r, status, layer)
<1>1. outcome'[r] = [status |-> status, layer |-> layer]
  BY DEF TypeOK, Raise
<1>2. Unwinding(r)
  BY DEF TypeOK, Raise, Goto, workerVars, checkVars, Unwinding
<1> QED
  BY <1>1, <1>2 DEF Raised

LEMMA RefusalEffect ==
  ASSUME TypeOK, NEW r \in Requests, Inv(r), RefuseHost(r) \/ Refuse(r)
  PROVE  \E status \in Refusals, layer \in {"trusted host", "exceptions"} :
           /\ Raised(r, status, layer)
           /\ route[r] \in Api /\ status # 400 => status \in Documented[route[r]]
<1>0. Way(r) /\ route[r] \in Routes
  BY DEF Inv, TypeOK
<1>1. CASE RefuseHost(r)
  <2>1. Raise(r, 400, "trusted host") /\ pc[r] = "stages" /\ troubled' = troubled
    BY <1>1 DEF RefuseHost, At
  <2>2. Raised(r, 400, "trusted host")
    BY <2>1, RaiseEffect
  <2>3. 400 \in Refusals
    BY DEF Refusals
  <2> QED
    BY <2>2, <2>3
<1>2. CASE Refuse(r)
  <2>1. PICK s \in StageNames :
          /\ At(r, s)
          /\ \E status \in EarlyRefusals(route[r], s) \cup LateRefusals(route[r], s) :
               Raise(r, status, "exceptions")
    BY <1>2 DEF Refuse
  <2>2. PICK status \in EarlyRefusals(route[r], s) \cup LateRefusals(route[r], s) :
               Raise(r, status, "exceptions")
    BY <2>1
  <2>3. pc[r] = "stages" /\ troubled' = troubled
    BY <1>2, <2>1 DEF Refuse, At
  <2>4. status \in Refusals
    BY <1>0, RefusalTypes
  <2>5. s \in StagesOf(route[r])
    BY <1>0, <2>1, AtStage
  <2>6. route[r] \in Api /\ status # 400 => status \in Documented[route[r]]
    BY <2>5, RefusalsByRoute
  <2>7. Raised(r, status, "exceptions")
    BY <2>2, <2>3, RaiseEffect
  <2> QED
    BY <2>4, <2>6, <2>7
<1> QED
  BY <1>1, <1>2

LEMMA CrashEffect ==
  ASSUME TypeOK, NEW r \in Requests, Inv(r), Break(r) \/ StatementRaises(r) \/ PoolTimesOut(r)
  PROVE  /\ Raised(r, 500, "server error")
         /\ route[r] \in Api
         /\ Excused(r)'
<1>0. Way(r) /\ Faults(r) /\ route[r] \in Routes
  BY DEF Inv, TypeOK
<1>1. CASE Break(r)
  <2>1. Raise(r, 500, "server error") /\ troubled' = troubled
    BY <1>1 DEF Break
  <2>2. PICK s \in Budgets \cup Statements \cup {"dispatch"} : At(r, s)
    BY <1>1 DEF Break
  <2>3. route[r] \in Api
    BY <1>0, <2>2, AtStage, ApiStages
  <2>4. pc[r] = "stages" /\ r \in InFlight
    BY <2>2 DEF At, InFlight
  <2>5. r \in troubled \/ ~CanPublish(route[r])
    BY <1>0, <1>1, <2>4 DEF Break, Faults, StatementFails
  <2>6. Raised(r, 500, "server error")
    BY <2>1, <2>4, RaiseEffect
  <2>7. Excused(r)'
    BY <2>1, <2>5 DEF Excused, CanPublish, Raise
  <2> QED
    BY <2>3, <2>6, <2>7
<1>2. CASE PoolTimesOut(r)
  <2>1. Raise(r, 500, "server error") /\ r \in troubled'
    BY <1>2 DEF PoolTimesOut
  <2>2. PICK s \in Statements : At(r, s)
    BY <1>2 DEF PoolTimesOut
  <2>3. route[r] \in Api
    BY <1>0, <2>2, AtStage, ApiStages
  <2>4. pc[r] = "stages"
    BY <2>2 DEF At
  <2>5. Raised(r, 500, "server error")
    BY <2>1, <2>4, RaiseEffect
  <2>6. Excused(r)'
    BY <2>1 DEF Excused
  <2> QED
    BY <2>3, <2>5, <2>6
<1>3. CASE StatementRaises(r)
  <2>1. Raise(r, 500, "server error") /\ troubled' = troubled /\ r \in clashed'
    BY <1>3 DEF StatementRaises
  <2>2. PICK s \in Statements : At(r, s) /\ MayRaise(route[r], s)
    BY <1>3 DEF StatementRaises
  <2>3. s \in StagesOf(route[r])
    BY <1>0, <2>2, AtStage
  <2>4. route[r] \in Api
    BY <1>0, <2>3, ApiStages
  <2>5. s = "tokens" => route[r] = "login"
    BY <1>0, <2>3, StagesByRoute DEF Routes
  <2>6. route[r] \in Writing \cup {"list_users"}
    BY <2>2, <2>5 DEF MayRaise, Writing
  <2>7. pc[r] = "stages"
    BY <2>2 DEF At
  <2>8. Raised(r, 500, "server error")
    BY <2>1, <2>7, RaiseEffect
  <2>9. Excused(r)'
    BY <2>1, <2>6 DEF Excused, Raise
  <2> QED
    BY <2>4, <2>8, <2>9
<1> QED
  BY <1>1, <1>2, <1>3

LEMMA FailureCodes ==
  ASSUME NEW status, status \in Refusals \/ status = 500
  PROVE  status # 0 /\ status # 503 /\ status \notin Successes
  BY DEF Refusals, Successes

LEMMA RaisedInv ==
  ASSUME NEW r \in Requests, TypeOK, Inv(r),
         NEW status, NEW layer, Raised(r, status, layer),
         status \in Refusals \/ status = 500,
         status \in Refusals => layer \in {"trusted host", "exceptions"},
         status \in Refusals \ {400} /\ route[r] \in Api => status \in Documented[route[r]],
         status = 500 => route[r] \in Api /\ Excused(r)'
  PROVE  Inv(r)'
<1>0. /\ Way(r) /\ Told(r) /\ Decided(r) /\ Traced(r)
      /\ Faults(r) /\ Checking(r) /\ Written(r) /\ Probed(r)
  BY DEF Inv
<1>1. /\ pc[r] = "stages" /\ pc'[r] = "unwind" /\ todo'[r] = <<>>
      /\ UNCHANGED <<redis, database, conn, dbCheck, redisCheck, cut, order, route,
                     budgeted, answered, stored>>
      /\ outcome'[r].status = status /\ outcome'[r].layer = layer
      /\ r \in troubled => r \in troubled'
  BY DEF Raised, Unwinding
<1>2. status # 0 /\ status # 503 /\ status \notin Successes
  BY FailureCodes
<1>3. route[r] \in Api => route[r] \notin {"ready", "live", "unknown"}
  BY DEF Api
<1>4. Way(r)'
  <2>1. <<>> \in Seq(StagesOf(route[r]))
    BY EmptySeq
  <2> QED
    BY <1>1, <2>1 DEF Way
<1>5. Told(r)'
  BY <1>0, <1>1 DEF Told, Settled
<1>6. Decided(r)'
  <2>1. r \notin answered'
    BY <1>0, <1>1 DEF Told, Settled
  <2> QED
    BY <1>1, <1>2, <2>1 DEF Decided, Settled
<1>7. Traced(r)'
  BY ZenonT(40), <1>1, <1>2 DEF Traced
<1>8. Faults(r)'
  <2>1. status \in Crashes => status = 500
    BY <1>2 DEF Crashes
  <2>2. r \in InFlight /\ (r \in InFlight)'
    BY <1>1 DEF InFlight
  <2>3. outcome'[r].status \in Crashes =>
          route[r] \notin {"live", "unknown"} /\ Excused(r)'
    BY <1>1, <1>3, <2>1
  <2>4. /\ conn'[r] = conn[r] /\ route'[r] = route[r]
        /\ redis' = redis /\ database' = database /\ pc'[r] = "unwind"
        /\ r \in troubled => r \in troubled'
    BY <1>1
  <2>5. Faults(r)
    BY <1>0
  <2> QED
    BY ZenonT(40), <2>2, <2>3, <2>4, <2>5 DEF Faults
<1>11. Checking(r)'
  BY <1>0, <1>1 DEF Checking
<1>9. Written(r)'
  <2>1. r \notin stored
    BY <1>0, <1>1 DEF Written
  <2> QED
    BY <1>1, <2>1 DEF Written
<1>10. Probed(r)'
  <2>1. CASE route[r] # "ready"
    BY <1>1, <2>1 DEF Probed
  <2>2. CASE route[r] = "ready"
    <3>1. status \notin {200, 500, 503}
      BY <1>2, <1>3, <2>2 DEF Successes
    <3> QED
      BY <1>1, <3>1 DEF Probed
  <2> QED
    BY <2>1, <2>2
<1> QED
  BY <1>4, <1>5, <1>6, <1>7, <1>8, <1>9, <1>10, <1>11 DEF Inv

------------------------------------------------------------------------------
(* Going in.                                                               *)

\* What every step before the answer is decided leaves alone.
Undisturbed(r) ==
  /\ pc[r] \notin Settled /\ pc'[r] \notin Settled
  /\ UNCHANGED <<order, outcome, answered, stored, redis, database>>
  /\ r \in troubled => r \in troubled'

\* Nothing is decided, told or written on the way in.
LEMMA UndecidedInv ==
  ASSUME NEW r \in Requests, Inv(r), Undisturbed(r), route'[r] = route[r] \/ pc[r] = "idle"
  PROVE  Told(r)' /\ Decided(r)' /\ Traced(r)' /\ Written(r)' /\ Probed(r)'
<1>0. Told(r) /\ Decided(r) /\ Written(r)
  BY DEF Inv
<1>1. /\ pc[r] \notin Settled /\ pc'[r] \notin Settled
      /\ order' = order /\ answered' = answered /\ stored' = stored
      /\ outcome'[r].status = outcome[r].status
  BY DEF Undisturbed
<1>2. outcome[r].status = 0 /\ r \notin answered /\ r \notin stored
  BY <1>0, <1>1 DEF Told, Decided, Written, Settled
<1>3. Told(r)'
  BY <1>1, <1>2 DEF Told, Settled
<1>4. Decided(r)'
  BY <1>1, <1>2 DEF Decided, Settled
<1>5. 0 \notin Successes \cup {503} /\ 0 \notin Refusals /\ 0 \notin Successes /\ 0 \notin Crashes
  BY DEF Successes, Refusals, Crashes
<1>6. Traced(r)'
  <2>1. outcome'[r].status = 0
    BY <1>1, <1>2
  <2> QED
    BY ZenonT(40), <2>1, <1>5 DEF Traced
<1>7. Written(r)'
  BY <1>1, <1>2, <1>5 DEF Written
<1>8. Probed(r)'
  BY <1>1 DEF Probed
<1> QED
  BY <1>3, <1>4, <1>6, <1>7, <1>8

\* The routes' first and second stages.
LEMMA FirstStages ==
  /\ \A p \in Routes : Stages[p] # <<>> /\ Head(Stages[p]) = "door"
  /\ \A p \in Api : Tail(Stages[p]) # <<>> /\ Head(Tail(Stages[p])) = "budget"
  /\ Tail(Stages["ready"]) # <<>> /\ Head(Tail(Stages["ready"])) = "checks"
<1>1. Head(Stages.live) = "door" /\ Stages.live # <<>>
  BY DEF Stages
<1>2. /\ Head(Stages.ready) = "door" /\ Stages.ready # <<>>
      /\ Tail(Stages.ready) # <<>> /\ Head(Tail(Stages.ready)) = "checks"
  BY DEF Stages
<1>3. Head(Stages.unknown) = "door" /\ Stages.unknown # <<>>
  BY DEF Stages
<1>4. /\ Head(Stages.register) = "door" /\ Stages.register # <<>>
      /\ Tail(Stages.register) # <<>> /\ Head(Tail(Stages.register)) = "budget"
  BY DEF Stages
<1>5. /\ Head(Stages.login) = "door" /\ Stages.login # <<>>
      /\ Tail(Stages.login) # <<>> /\ Head(Tail(Stages.login)) = "budget"
  BY DEF Stages
<1>6. /\ Head(Stages.refresh) = "door" /\ Stages.refresh # <<>>
      /\ Tail(Stages.refresh) # <<>> /\ Head(Tail(Stages.refresh)) = "budget"
  BY DEF Stages
<1>7. /\ Head(Stages.me) = "door" /\ Stages.me # <<>>
      /\ Tail(Stages.me) # <<>> /\ Head(Tail(Stages.me)) = "budget"
  BY DEF Stages
<1>8. /\ Head(Stages.get_user) = "door" /\ Stages.get_user # <<>>
      /\ Tail(Stages.get_user) # <<>> /\ Head(Tail(Stages.get_user)) = "budget"
  BY DEF Stages
<1>9. /\ Head(Stages.list_users) = "door" /\ Stages.list_users # <<>>
      /\ Tail(Stages.list_users) # <<>> /\ Head(Tail(Stages.list_users)) = "budget"
  BY DEF Stages
<1>10. /\ Stages["live"] = Stages.live /\ Stages["ready"] = Stages.ready
       /\ Stages["unknown"] = Stages.unknown /\ Stages["register"] = Stages.register
       /\ Stages["login"] = Stages.login /\ Stages["refresh"] = Stages.refresh
       /\ Stages["me"] = Stages.me /\ Stages["get_user"] = Stages.get_user
       /\ Stages["list_users"] = Stages.list_users
  OBVIOUS
<1>11. \A p \in Routes : Stages[p] # <<>> /\ Head(Stages[p]) = "door"
  BY <1>1, <1>2, <1>3, <1>4, <1>5, <1>6, <1>7, <1>8, <1>9, <1>10 DEF Routes
<1>12. \A p \in Api : Tail(Stages[p]) # <<>> /\ Head(Tail(Stages[p])) = "budget"
  BY <1>4, <1>5, <1>6, <1>7, <1>8, <1>9, <1>10 DEF Api, Routes
<1> QED
  BY <1>2, <1>10, <1>11, <1>12

\* A connection is taken for a statement, and lost to an outage.
LEMMA EntryFaults ==
  ASSUME NEW r \in Requests, Inv(r), Undisturbed(r),
         pc[r] # "idle", pc'[r] # "idle", route'[r] = route[r],
         \/ conn'[r] = conn[r]
         \/ /\ route[r] \notin {"live", "unknown"}
            /\ conn'[r] = "broken" => r \in troubled'
  PROVE  Faults(r)'
<1>1. Faults(r) /\ Decided(r)
  BY DEF Inv
<1>2. /\ pc[r] \notin Settled /\ pc'[r] \notin Settled
      /\ outcome'[r].status = outcome[r].status /\ redis' = redis /\ database' = database
      /\ r \in troubled => r \in troubled'
  BY DEF Undisturbed
<1>3. r \in InFlight /\ (r \in InFlight)'
  BY <1>2 DEF InFlight, Settled
<1>4. outcome'[r].status \notin Crashes
  BY <1>1, <1>2 DEF Decided, Crashes
<1>5. pc'[r] \notin {"idle", "done"}
  BY <1>2 DEF Settled
<1> QED
  BY <1>1, <1>2, <1>3, <1>4, <1>5 DEF Faults

\* A step outside the checks.
LEMMA ChecksKept ==
  ASSUME NEW r \in Requests, Inv(r), UNCHANGED <<dbCheck, redisCheck, cut>>,
         pc[r] = "checks" => pc'[r] = "checks", r \in troubled => r \in troubled'
  PROVE  Checking(r)'
<1>1. Checking(r)
  BY DEF Inv
<1>2. dbCheck'[r] = dbCheck[r] /\ redisCheck'[r] = redisCheck[r] /\ cut' = cut
  OBVIOUS
<1> QED
  BY <1>1, <1>2 DEF Checking

\* The next stage: it is neither of the first two unless it is named so.
LEMMA WayOn ==
  ASSUME NEW r \in Requests, Inv(r), route[r] \in Routes, NEW s, At(r, s),
         todo'[r] = Tail(todo[r]), route'[r] = route[r],
         s = "checks" => pc'[r] = "checks" /\ route[r] = "ready",
         s # "checks" => pc'[r] \in {"stages", "gather"},
         pc'[r] = "gather" => route[r] # "ready",
         s = "budget" => r \in budgeted', r \in budgeted => r \in budgeted'
  PROVE  Way(r)'
<1>1. Way(r)
  BY DEF Inv
<1>2. Tail(todo[r]) \in Seq(StagesOf(route[r]))
  BY <1>1, TailOfTodo DEF Way, At
<1>3. ASSUME pc'[r] = "stages", route[r] = "ready"
      PROVE  Tail(todo[r]) \in {Stages["ready"], Tail(Stages["ready"])}
  <2>1. todo[r] \in {Stages["ready"], Tail(Stages["ready"])} /\ Head(todo[r]) # "checks"
    BY <1>1, <1>3 DEF Way, At
  <2> QED
    BY <2>1, FirstStages
<1>4. ASSUME pc'[r] \in {"stages", "gather"}, route[r] \in Api, r \notin budgeted'
      PROVE  Tail(todo[r]) \in {Stages[route[r]], Tail(Stages[route[r]])}
  <2>1. todo[r] \in {Stages[route[r]], Tail(Stages[route[r]])} /\ Head(todo[r]) # "budget"
    BY <1>1, <1>4 DEF Way, At
  <2> QED
    BY <1>4, <2>1, FirstStages
<1>5. pc'[r] = "checks" => route[r] = "ready"
  OBVIOUS
<1> QED
  BY <1>2, <1>3, <1>4, <1>5 DEF Way

\* A step that leaves the stages alone.
LEMMA WayKept ==
  ASSUME NEW r \in Requests, Inv(r), todo' = todo, route' = route, budgeted' = budgeted,
         pc' = pc \/ (pc[r] = "gather" /\ pc'[r] = "stages")
  PROVE  Way(r)'
<1>1. Way(r)
  BY DEF Inv
<1>2. todo'[r] = todo[r] /\ route'[r] = route[r] /\ (r \in budgeted' <=> r \in budgeted)
  OBVIOUS
<1>3. CASE pc' = pc
  <2>1. pc'[r] = pc[r]
    BY <1>3
  <2> QED
    BY <1>1, <1>2, <2>1 DEF Way
<1>4. CASE pc[r] = "gather" /\ pc'[r] = "stages"
  BY <1>1, <1>2, <1>4 DEF Way
<1> QED
  BY <1>3, <1>4

LEMMA ReceiveInv ==
  ASSUME TypeOK, NEW r \in Requests, Inv(r), NEW p \in Offered[r], Receive(r, p)
  PROVE  Inv(r)'
<1>1. p \in Routes
  BY OfferedAssumption
<1>2. pc[r] = "idle" /\ pc'[r] = "stages" /\ route'[r] = p /\ todo'[r] = Stages[p]
  BY DEF Receive, Goto, TypeOK
<1>3. /\ UNCHANGED <<redis, database, conn, dbCheck, redisCheck, cut, order, outcome,
                     answered, stored>>
      /\ r \in troubled => r \in troubled'
      /\ ~(redis \in {"none", "up"} /\ database = "up") => r \in troubled'
  BY DEF Receive, workerVars, checkVars
<1>4. Undisturbed(r)
  BY <1>2, <1>3 DEF Undisturbed, Settled
<1>5. Told(r)' /\ Decided(r)' /\ Traced(r)' /\ Written(r)' /\ Probed(r)'
  BY <1>2, <1>4, UndecidedInv
<1>6. Way(r)'
  <2>1. Stages[p] \in Seq(StagesOf(p))
    BY <1>1, StagesAreSequences
  <2> QED
    BY <1>2, <2>1 DEF Way
<1>7. Faults(r)'
  <2>1. Faults(r) /\ Decided(r)
    BY DEF Inv
  <2>2. outcome'[r].status \notin Crashes
    BY <1>2, <1>3, <2>1 DEF Decided, Settled, Crashes
  <2>3. conn'[r] = "none"
    BY <1>2, <1>3, <2>1 DEF Faults
  <2>4. redis' = redis /\ database' = database
    BY <1>3
  <2> QED
    BY <1>3, <2>2, <2>3, <2>4 DEF Faults
<1>8. Checking(r)'
  BY <1>2, <1>3, ChecksKept
<1> QED
  BY <1>5, <1>6, <1>7, <1>8 DEF Inv

\* What the steps through the stages have in common.
LEMMA StageInv ==
  ASSUME TypeOK, NEW r \in Requests, Inv(r), NEW s, At(r, s),
         todo'[r] = Tail(todo[r]), route'[r] = route[r],
         UNCHANGED <<order, outcome, answered, stored, redis, database, conn,
                     dbCheck, redisCheck, cut, troubled>>,
         pc'[r] \in {"stages", "gather"}, pc'[r] = "gather" => s = "dispatch",
         s # "checks",
         s = "budget" => r \in budgeted', r \in budgeted => r \in budgeted'
  PROVE  Inv(r)'
<1>1. pc[r] = "stages" /\ route[r] \in Routes
  BY DEF At, TypeOK
<1>2. Undisturbed(r)
  BY <1>1 DEF Undisturbed, Settled
<1>3. Told(r)' /\ Decided(r)' /\ Traced(r)' /\ Written(r)' /\ Probed(r)'
  BY <1>2, UndecidedInv
<1>4. pc'[r] = "gather" => route[r] # "ready"
  <2>1. s \in StagesOf(route[r])
    BY AtStage DEF Inv
  <2> QED
    BY <1>1, <2>1, ApiStages DEF Api
<1>5. Way(r)'
  BY <1>1, <1>4, WayOn
<1>6. Faults(r)'
  BY <1>1, <1>2, EntryFaults
<1>7. Checking(r)'
  BY <1>1, ChecksKept
<1> QED
  BY <1>3, <1>5, <1>6, <1>7 DEF Inv

LEMMA PassInv ==
  ASSUME TypeOK, NEW r \in Requests, Inv(r),
         Admit(r) \/ Spend(r) \/ Query(r) \/ Dispatch(r)
  PROVE  Inv(r)'
<1>1. CASE Admit(r)
  <2>1. /\ At(r, "door") /\ todo'[r] = Tail(todo[r]) /\ route'[r] = route[r] /\ pc'[r] = "stages"
        /\ UNCHANGED <<order, outcome, answered, stored, redis, database, conn,
                       dbCheck, redisCheck, cut, troubled, budgeted>>
    BY <1>1 DEF Admit, At, Pass, TypeOK, workerVars, checkVars
  <2> QED
    BY <2>1, StageInv
<1>2. CASE Spend(r)
  <2>1. PICK s \in Budgets : At(r, s)
    BY <1>2 DEF Spend
  <2>2. /\ todo'[r] = Tail(todo[r]) /\ route'[r] = route[r] /\ pc'[r] = "stages"
        /\ UNCHANGED <<order, outcome, answered, stored, redis, database, conn,
                       dbCheck, redisCheck, cut, troubled>>
        /\ r \in budgeted'
    BY <1>2 DEF Spend, At, Pass, TypeOK, workerVars, checkVars
  <2>3. s # "checks"
    BY DEF Budgets
  <2> QED
    BY <2>1, <2>2, <2>3, StageInv
<1>3. CASE Query(r)
  <2>1. PICK s \in Statements : At(r, s)
    BY <1>3 DEF Query
  <2>2. /\ todo'[r] = Tail(todo[r]) /\ route'[r] = route[r] /\ pc'[r] = "stages"
        /\ UNCHANGED <<order, outcome, answered, stored, redis, database, conn,
                       dbCheck, redisCheck, cut, troubled, budgeted>>
    BY <1>3 DEF Query, At, Pass, TypeOK, workerVars, checkVars
  <2>3. s # "checks" /\ s # "budget"
    BY DEF Statements
  <2> QED
    BY <2>1, <2>2, <2>3, StageInv
<1>4. CASE Dispatch(r)
  <2>1. /\ At(r, "dispatch") /\ todo'[r] = Tail(todo[r]) /\ route'[r] = route[r] /\ pc'[r] = "gather"
        /\ UNCHANGED <<order, outcome, answered, stored, redis, database, conn,
                       dbCheck, redisCheck, cut, troubled, budgeted>>
    BY <1>4 DEF Dispatch, At, Goto, Pass, TypeOK, workerVars, checkVars
  <2> QED
    BY <2>1, StageInv
<1> QED
  BY <1>1, <1>2, <1>3, <1>4

\* A handler ends: nothing of its request changes.
LEMMA HandleInv ==
  ASSUME NEW r \in Requests, Inv(r), Handle(r)
  PROVE  Inv(r)'
<1>1. Kept(r)
  BY DEF Handle, Kept, workerVars, checkVars, requestVars
<1> QED
  BY <1>1, OthersInv

\* A request waits, for its handlers or for a connection.
LEMMA WaitInv ==
  ASSUME TypeOK, NEW r \in Requests, Inv(r), GoOn(r) \/ TakeConnection(r)
  PROVE  Inv(r)'
<1>1. /\ UNCHANGED <<todo, route, budgeted, order, outcome, answered, stored, redis, database,
                     dbCheck, redisCheck, cut, troubled>>
      /\ pc' = pc \/ (pc[r] = "gather" /\ pc'[r] = "stages")
  BY DEF GoOn, TakeConnection, Connect, Goto, TypeOK, workerVars, checkVars, requestVars
<1>2. pc[r] \in {"stages", "gather", "checks"}
  BY DEF GoOn, TakeConnection, At
<1>3. pc'[r] \in {"stages", "gather", "checks"} /\ (pc[r] = "checks" => pc'[r] = "checks")
  BY <1>1, <1>2
<1>4. Undisturbed(r)
  BY <1>1, <1>2, <1>3 DEF Undisturbed, Settled
<1>5. Told(r)' /\ Decided(r)' /\ Traced(r)' /\ Written(r)' /\ Probed(r)'
  BY <1>1, <1>4, UndecidedInv
<1>6. Way(r)'
  BY <1>1, WayKept
<1>7. \/ conn'[r] = conn[r]
      \/ /\ route[r] \notin {"live", "unknown"}
         /\ conn'[r] = "broken" => r \in troubled'
  <2>1. CASE GoOn(r)
    BY <2>1 DEF GoOn, workerVars
  <2>2. CASE TakeConnection(r)
    <3>1. conn'[r] = "open"
      BY <2>2 DEF TakeConnection, Connect, TypeOK, WorkerTypeOK
    <3>2. Way(r) /\ route[r] \in Routes
      BY DEF Inv, TypeOK
    <3>3. CASE pc[r] = "checks"
      BY <3>1, <3>2, <3>3 DEF Way
    <3>4. CASE pc[r] # "checks"
      <4>1. PICK s \in Statements : At(r, s)
        BY <2>2, <3>4 DEF TakeConnection
      <4>2. route[r] \in Api
        BY <3>2, <4>1, AtStage, ApiStages
      <4> QED
        BY <3>1, <4>2 DEF Api
    <3> QED
      BY <3>3, <3>4
  <2> QED
    BY <2>1, <2>2
<1>8. Faults(r)'
  BY <1>1, <1>2, <1>3, <1>4, <1>7, EntryFaults
<1>9. Checking(r)'
  BY <1>1, <1>3, ChecksKept
<1> QED
  BY <1>5, <1>6, <1>8, <1>9 DEF Inv

------------------------------------------------------------------------------
(* Probes.                                                                 *)

LEMMA ProbeInv ==
  ASSUME TypeOK, NEW r \in Requests, Inv(r), Probe(r)
  PROVE  Inv(r)'
<1>1. /\ At(r, "checks") /\ pc[r] = "stages" /\ pc'[r] = "checks"
      /\ todo'[r] = Tail(todo[r]) /\ route'[r] = route[r]
      /\ UNCHANGED <<order, outcome, answered, stored, redis, database, conn, cut, troubled, budgeted>>
      /\ dbCheck'[r] = "running" /\ redisCheck'[r] \in {"ok", "pinging"}
  BY DEF Probe, At, BeginChecks, Goto, Pass, TypeOK, HealthTypeOK, workerVars
<1>2. route[r] \in Routes /\ Way(r) /\ Checking(r)
  BY DEF Inv, TypeOK
<1>3. route[r] = "ready"
  <2>1. "checks" \in StagesOf(route[r])
    BY <1>1, <1>2, AtStage
  <2> QED
    BY <1>2, <2>1, StagesByRoute DEF Routes
<1>4. Undisturbed(r)
  BY <1>1 DEF Undisturbed, Settled
<1>5. Told(r)' /\ Decided(r)' /\ Traced(r)' /\ Written(r)' /\ Probed(r)'
  BY <1>1, <1>4, UndecidedInv
<1>6. Way(r)'
  BY <1>1, <1>2, <1>3, WayOn
<1>7. Faults(r)'
  BY <1>1, <1>4, EntryFaults
<1>8. Checking(r)'
  BY <1>1, <1>2 DEF Checking
<1> QED
  BY <1>5, <1>6, <1>7, <1>8 DEF Inv

\* What a check does to its request: it fails only in trouble.
LEMMA CheckEffect ==
  ASSUME TypeOK, NEW r \in Requests, Inv(r), RunCheck(r)
  PROVE  /\ conn'[r] = conn[r] \/ (conn'[r] = "broken" /\ r \in troubled')
         /\ Checking(r)'
<1>0. /\ pc[r] = "checks" /\ pc' = pc /\ Check(r) /\ r \in InFlight
      /\ r \in troubled => r \in troubled'
      /\ troubled' = troubled \cup (cut' \ cut)
                       \cup {q \in {r} : conn[q] = "none" /\ PoolFull /\ dbCheck'[q] # dbCheck[q]}
  BY DEF RunCheck, requestVars, InFlight
<1>1. Faults(r) /\ Checking(r)
  BY DEF Inv
<1>2. dbCheck \in [Requests -> {"idle", "running", "ok", "failed"}]
      /\ redisCheck \in [Requests -> {"idle", "pinging", "closing", "ok", "failed"}]
      /\ conn \in [Requests -> {"none", "open", "broken"}]
  BY DEF TypeOK, HealthTypeOK, WorkerTypeOK
<1>3. redis = "down" \/ redis = "hung" \/ database # "up" => r \in troubled
  BY <1>0, <1>1 DEF Faults
<1>4. CASE SelectAnswers(r)
  BY <1>0, <1>1, <1>2, <1>4 DEF SelectAnswers, workerVars, Checking
<1>5. CASE SelectRaises(r)
  <2>1. r \in troubled
    BY <1>1, <1>3, <1>5 DEF SelectRaises, StatementFails, Faults
  <2> QED
    BY <1>0, <1>1, <1>2, <1>5, <2>1 DEF SelectRaises, workerVars, Checking
<1>6. CASE SelectTimesOut(r)
  <2>1. dbCheck[r] = "running" /\ dbCheck'[r] = "failed"
    BY <1>2, <1>6 DEF SelectTimesOut
  <2>2. r \in troubled'
    <3>1. CASE database = "hung"
      BY <1>0, <1>3, <3>1
    <3>2. CASE conn[r] = "none" /\ PoolFull
      BY <1>0, <2>1, <3>2
    <3> QED
      BY <1>6, <3>1, <3>2 DEF SelectTimesOut
  <2>3. conn'[r] \in {"none", "broken"} /\ (conn[r] = "none" => conn'[r] = "none")
    BY <1>2, <1>6 DEF SelectTimesOut
  <2>4. conn'[r] = conn[r] \/ (conn'[r] = "broken" /\ r \in troubled')
    BY <1>2, <1>6, <2>2 DEF SelectTimesOut
  <2> QED
    BY <1>0, <1>1, <1>6, <2>1, <2>2, <2>4 DEF SelectTimesOut, Checking
<1>7. CASE PingAnswers(r)
  BY <1>0, <1>1, <1>2, <1>7 DEF PingAnswers, workerVars, Checking
<1>8. CASE PingRaises(r)
  <2>1. r \in troubled
    BY <1>1, <1>3, <1>8 DEF PingRaises, Checking
  <2> QED
    BY <1>0, <1>1, <1>2, <1>8, <2>1 DEF PingRaises, workerVars, Checking
<1>9. CASE PingTimesOut(r)
  <2>1. r \in troubled
    BY <1>3, <1>9 DEF PingTimesOut
  <2> QED
    BY <1>0, <1>1, <1>2, <1>9, <2>1 DEF PingTimesOut, workerVars, Checking
<1>10. CASE CloseClient(r)
  <2>1. r \in troubled
    BY <1>1, <1>10 DEF CloseClient, Checking
  <2> QED
    BY <1>0, <1>1, <1>2, <1>10, <2>1 DEF CloseClient, workerVars, Checking
<1> QED
  BY <1>0, <1>4, <1>5, <1>6, <1>7, <1>8, <1>9, <1>10 DEF Check

LEMMA RunCheckInv ==
  ASSUME TypeOK, NEW r \in Requests, Inv(r), RunCheck(r)
  PROVE  Inv(r)'
<1>1. /\ pc[r] = "checks" /\ pc' = pc
      /\ UNCHANGED <<order, outcome, answered, stored, route, todo, budgeted>>
      /\ r \in troubled => r \in troubled'
  BY DEF RunCheck, requestVars
<1>2. redis' = redis /\ database' = database
  BY DEF RunCheck, Check, SelectAnswers, SelectRaises, SelectTimesOut, PingAnswers,
         PingRaises, PingTimesOut, CloseClient, workerVars
<1>3. Undisturbed(r)
  BY <1>1, <1>2 DEF Undisturbed, Settled
<1>4. Told(r)' /\ Decided(r)' /\ Traced(r)' /\ Written(r)' /\ Probed(r)'
  BY <1>1, <1>3, UndecidedInv
<1>5. Way(r)'
  BY <1>1, WayKept
<1>6. route[r] = "ready"
  BY <1>1 DEF Inv, Way
<1>7. Faults(r)' /\ Checking(r)'
  <2>1. Checking(r)' /\ (conn'[r] = conn[r] \/ (conn'[r] = "broken" /\ r \in troubled'))
    BY CheckEffect
  <2> QED
    BY <1>1, <1>3, <1>6, <2>1, EntryFaults
<1> QED
  BY <1>4, <1>5, <1>7 DEF Inv

------------------------------------------------------------------------------
(* Coming out.                                                             *)

Returned(r, status) ==
  /\ outcome'[r].status = status /\ outcome'[r].layer = "router"
  /\ UNCHANGED <<redis, database, conn, dbCheck, redisCheck, cut, order, route, todo,
                 budgeted, answered, stored, troubled>>
  /\ pc'[r] = IF order = "commit first" THEN "commit" ELSE "respond"

LEMMA ReturnEffect ==
  ASSUME TypeOK, NEW r \in Requests, NEW status, Return(r, status)
  PROVE  Returned(r, status)
<1>1. outcome'[r] = [status |-> status, layer |-> "router"]
  BY DEF Return, TypeOK
<1>2. pc'[r] = IF order = "commit first" THEN "commit" ELSE "respond"
  BY DEF Return, Goto, TypeOK
<1>3. UNCHANGED <<redis, database, conn, dbCheck, redisCheck, cut, order, route, todo,
                  budgeted, answered, stored, troubled>>
  BY DEF Return, workerVars, checkVars
<1>4. outcome'[r].status = status /\ outcome'[r].layer = "router"
  BY <1>1
<1> QED
  BY <1>2, <1>3, <1>4 DEF Returned

LEMMA ReturnInv ==
  ASSUME TypeOK, NEW r \in Requests, Inv(r), NEW status, Return(r, status),
         pc[r] \in {"stages", "checks"},
         dbCheck[r] # "running", redisCheck[r] \notin {"pinging", "closing"},
         status \in Successes \/ (status = 503 /\ route[r] = "ready" /\ r \in troubled),
         status \in Successes /\ route[r] \in Api => r \in budgeted,
         route[r] = "ready" => /\ status = 200 => AllOk(r)
                               /\ status = 503 => "failed" \in {dbCheck[r], redisCheck[r]}
  PROVE  Inv(r)'
<1>0. /\ Way(r) /\ Told(r) /\ Decided(r) /\ Traced(r)
      /\ Faults(r) /\ Checking(r) /\ Written(r) /\ Probed(r)
  BY DEF Inv
<1>1. Returned(r, status)
  BY ReturnEffect
<1>2. outcome'[r].status = status /\ outcome'[r].layer = "router"
  BY <1>1 DEF Returned
<1>3. /\ UNCHANGED <<redis, database, conn, dbCheck, redisCheck, cut, order, route, todo,
                     budgeted, answered, stored, troubled>>
      /\ pc'[r] = IF order = "commit first" THEN "commit" ELSE "respond"
  BY <1>1 DEF Returned
<1>4. /\ conn'[r] = conn[r] /\ dbCheck'[r] = dbCheck[r] /\ redisCheck'[r] = redisCheck[r]
      /\ route'[r] = route[r] /\ todo'[r] = todo[r]
  BY <1>3
<1>5. r \notin answered /\ r \notin stored
  BY <1>0 DEF Told, Written, Settled
<1>6. order \in {"commit first", "answer first"}
  BY DEF TypeOK
<1>7. pc'[r] \in {"commit", "respond"}
  BY <1>3
<1>8. status # 0 /\ status # 500 /\ status \notin Refusals
  BY DEF Successes, Refusals
<1>9. Way(r)'
  BY <1>0, <1>3, <1>4, <1>7 DEF Way
<1>10. Told(r)'
  BY <1>3, <1>5, <1>6 DEF Told, Settled
<1>11. Decided(r)'
  BY <1>2, <1>4, <1>7, <1>8 DEF Decided, Settled
<1>12. Traced(r)'
  BY <1>2, <1>3, <1>4, <1>8 DEF Traced
<1>13. Faults(r)'
  <2>1. r \in InFlight
    BY DEF InFlight
  <2>2. outcome'[r].status \in Crashes => route[r] = "ready" /\ r \in troubled
    BY <1>2, <1>8 DEF Crashes, Successes
  <2> QED
    BY <1>0, <1>3, <1>4, <1>7, <2>1, <2>2 DEF Faults, Excused
<1>14. Checking(r)'
  BY <1>0, <1>3, <1>4 DEF Checking
<1>15. Written(r)'
  BY <1>3, <1>5, <1>7 DEF Written
<1>16. Probed(r)'
  <2>1. AllOk(r)' <=> AllOk(r)
    BY <1>4 DEF AllOk
  <2>2. route[r] = "ready" /\ outcome'[r].status = 200 => AllOk(r)'
    BY <1>2, <2>1
  <2>3. route[r] = "ready" /\ outcome'[r].status = 503 =>
          "failed" \in {dbCheck'[r], redisCheck'[r]}
    BY <1>2, <1>4
  <2>4. outcome'[r].status # 500
    BY <1>2, <1>8
  <2>5. route'[r] = "ready" =>
          /\ outcome'[r].status = 200 => AllOk(r)'
          /\ outcome'[r].status = 503 => "failed" \in {dbCheck'[r], redisCheck'[r]}
          /\ outcome'[r].status = 500 => order' = "commit first" /\ r \in troubled'
    <3>1. ASSUME route'[r] = "ready", outcome'[r].status = 200 PROVE AllOk(r)'
      BY <1>4, <2>2, <3>1
    <3>2. ASSUME route'[r] = "ready", outcome'[r].status = 503 PROVE "failed" \in {dbCheck'[r], redisCheck'[r]}
      BY <1>4, <2>3, <3>2
    <3>3. ASSUME outcome'[r].status = 500 PROVE order' = "commit first" /\ r \in troubled'
      BY <2>4, <3>3
    <3> QED
      BY <3>1, <3>2, <3>3
  <2> QED
    BY <2>5 DEF Probed
<1> QED
  BY <1>9, <1>10, <1>11, <1>12, <1>13, <1>14, <1>15, <1>16 DEF Inv

LEMMA FinishInv ==
  ASSUME TypeOK, NEW r \in Requests, Inv(r), Finish(r)
  PROVE  Inv(r)'
<1>1. pc[r] = "stages" /\ todo[r] = <<>> /\ Return(r, Success(route[r]))
  BY DEF Finish
<1>2. Way(r) /\ Checking(r) /\ route[r] \in Routes
  BY DEF Inv, TypeOK
<1>3. Success(route[r]) \in Successes /\ Success(route[r]) # 503
  BY DEF Success, Successes
<1>4. route[r] # "ready"
  BY <1>1, <1>2, FirstStages DEF Way, Routes
<1>5. route[r] \in Api => r \in budgeted
  BY <1>1, <1>2, FirstStages DEF Way
<1>6. dbCheck[r] # "running" /\ redisCheck[r] \notin {"pinging", "closing"}
  BY <1>1, <1>2 DEF Checking
<1> QED
  BY <1>1, <1>3, <1>4, <1>5, <1>6, ReturnInv

LEMMA ConcludeInv ==
  ASSUME TypeOK, NEW r \in Requests, Inv(r), Conclude(r)
  PROVE  Inv(r)'
<1>1. pc[r] = "checks" /\ ChecksEnded(r) /\ Return(r, Verdict(r))
  BY DEF Conclude
<1>2. Way(r) /\ Checking(r)
  BY DEF Inv
<1>3. route[r] = "ready" /\ route[r] \notin Api
  BY <1>1, <1>2 DEF Way, Api
<1>4. dbCheck[r] # "running" /\ redisCheck[r] \notin {"pinging", "closing"}
  BY <1>1 DEF ChecksEnded
<1>5. CASE AllOk(r)
  <2>1. Verdict(r) = 200 /\ 200 \in Successes
    BY <1>5 DEF Verdict, Successes
  <2> QED
    BY <1>1, <1>3, <1>4, <1>5, <2>1, ReturnInv
<1>6. CASE ~AllOk(r)
  <2>1. Verdict(r) = 503 /\ 503 \notin Successes
    BY <1>6 DEF Verdict, Successes
  <2>2. "failed" \in {dbCheck[r], redisCheck[r]}
    BY <1>1, <1>6 DEF AllOk, ChecksEnded
  <2>3. r \in troubled
    BY <1>2, <2>2 DEF Checking
  <2> QED
    BY <1>1, <1>3, <1>4, <2>1, <2>2, <2>3, ReturnInv
<1> QED
  BY <1>5, <1>6

LEMMA RespondInv ==
  ASSUME TypeOK, NEW r \in Requests, Inv(r), Respond(r)
  PROVE  Inv(r)'
<1>0. /\ Way(r) /\ Told(r) /\ Decided(r) /\ Traced(r)
      /\ Faults(r) /\ Checking(r) /\ Written(r) /\ Probed(r)
  BY DEF Inv
<1>1. /\ pc[r] = "respond" /\ pc'[r] = "commit" /\ r \in answered'
      /\ UNCHANGED <<redis, database, conn, dbCheck, redisCheck, cut, order, route, todo,
                     budgeted, outcome, stored, troubled, clashed>>
  BY DEF Respond, Goto, TypeOK, workerVars, checkVars
<1>2. /\ conn'[r] = conn[r] /\ dbCheck'[r] = dbCheck[r] /\ redisCheck'[r] = redisCheck[r]
      /\ route'[r] = route[r] /\ todo'[r] = todo[r]
      /\ outcome'[r].status = outcome[r].status /\ outcome'[r].layer = outcome[r].layer
  BY <1>1
<1>3. r \notin stored
  BY <1>0, <1>1 DEF Written
<1>4. Way(r)'
  BY <1>0, <1>1, <1>2 DEF Way
<1>5. Told(r)'
  BY <1>0, <1>1 DEF Told, Settled
<1>6. Decided(r)'
  BY <1>0, <1>1, <1>2 DEF Decided, Settled
<1>7. Traced(r)'
  BY ZenonT(40), <1>0, <1>1, <1>2 DEF Traced
<1>8. Faults(r)'
  BY <1>0, <1>1, <1>2 DEF Faults, Excused, CanPublish, InFlight
<1>9. Checking(r)'
  BY <1>0, <1>1, <1>2 DEF Checking
<1>10. Written(r)'
  BY <1>1, <1>3 DEF Written
<1>11. Probed(r)'
  BY <1>0, <1>1, <1>2 DEF Probed, AllOk, Settled
<1> QED
  BY <1>4, <1>5, <1>6, <1>7, <1>8, <1>9, <1>10, <1>11 DEF Inv

\* The session is closed; what was decided and written stays.
LEMMA EndInv ==
  ASSUME TypeOK, NEW r \in Requests, Inv(r), End(r), pc[r] \in {"commit", "unwind"},
         Written(r)'
  PROVE  Inv(r)'
<1>0. /\ Way(r) /\ Told(r) /\ Decided(r) /\ Traced(r)
      /\ Faults(r) /\ Checking(r) /\ Probed(r)
  BY DEF Inv
<1>1. /\ pc'[r] = "done" /\ conn'[r] = "none" /\ r \in answered'
      /\ UNCHANGED <<redis, database, dbCheck, redisCheck, cut, order, route, todo,
                     budgeted, outcome, troubled, clashed>>
  BY DEF End, Goto, TypeOK, WorkerTypeOK, checkVars
<1>2. /\ dbCheck'[r] = dbCheck[r] /\ redisCheck'[r] = redisCheck[r]
      /\ route'[r] = route[r] /\ todo'[r] = todo[r]
      /\ outcome'[r].status = outcome[r].status /\ outcome'[r].layer = outcome[r].layer
  BY <1>1
<1>3. Way(r)'
  BY <1>0, <1>1, <1>2 DEF Way
<1>4. Told(r)'
  BY <1>1 DEF Told, Settled
<1>5. Decided(r)'
  BY <1>0, <1>1, <1>2 DEF Decided, Settled
<1>6. Traced(r)'
  BY ZenonT(40), <1>0, <1>1, <1>2 DEF Traced
<1>7. Faults(r)'
  <2>1. ~(r \in InFlight)'
    BY <1>1 DEF InFlight
  <2> QED
    BY <1>0, <1>1, <1>2, <2>1 DEF Faults, Excused, CanPublish
<1>8. Checking(r)'
  BY <1>0, <1>1, <1>2 DEF Checking
<1>9. Probed(r)'
  BY <1>0, <1>1, <1>2 DEF Probed, AllOk, Settled
<1> QED
  BY <1>3, <1>4, <1>5, <1>6, <1>7, <1>8, <1>9 DEF Inv

LEMMA CommitInv ==
  ASSUME TypeOK, NEW r \in Requests, Inv(r), Commit(r)
  PROVE  Inv(r)'
<1>1. /\ pc[r] = "commit" /\ End(r) /\ conn[r] # "broken"
      /\ stored' = IF route[r] \in Writing THEN stored \cup {r} ELSE stored
  BY DEF Commit, StatementWorks
<1>2. Decided(r) /\ Written(r)
  BY DEF Inv
<1>3. /\ pc'[r] = "done" /\ route'[r] = route[r] /\ outcome'[r].status = outcome[r].status
  BY <1>1 DEF End, Goto, TypeOK
<1>4. r \in stored' <=> route[r] \in Writing
  BY <1>1, <1>2 DEF Written
<1>5. outcome[r].status \notin Refusals
  BY <1>1, <1>2 DEF Decided, Successes, Refusals
<1>6. route[r] \in Writing => outcome[r].status \notin Crashes
  BY <1>1, <1>2 DEF Decided, Successes, Crashes, Writing
<1>7. Written(r)'
  BY <1>3, <1>4, <1>5, <1>6 DEF Written
<1> QED
  BY <1>1, <1>7, EndInv

LEMMA UnwindInv ==
  ASSUME TypeOK, NEW r \in Requests, Inv(r), Unwind(r)
  PROVE  Inv(r)'
<1>1. pc[r] = "unwind" /\ End(r) /\ stored' = stored
  BY DEF Unwind
<1>2. Told(r) /\ Decided(r) /\ Written(r)
  BY DEF Inv
<1>3. /\ pc'[r] = "done" /\ route'[r] = route[r] /\ outcome'[r].status = outcome[r].status
      /\ order' = order /\ troubled' = troubled
  BY <1>1 DEF End, Goto, TypeOK
<1>4. outcome[r].status \in Successes => order = "answer first" /\ r \in troubled
  BY <1>1, <1>2 DEF Told, Decided
<1>5. r \in stored => r \in troubled
  BY <1>1, <1>2 DEF Written
<1>6. Written(r)'
  BY <1>1, <1>2, <1>3, <1>4, <1>5 DEF Written
<1> QED
  BY <1>1, <1>6, EndInv

LEMMA CommitRaisesInv ==
  ASSUME TypeOK, NEW r \in Requests, Inv(r), CommitRaises(r)
  PROVE  Inv(r)'
<1>0. /\ Way(r) /\ Told(r) /\ Decided(r) /\ Traced(r)
      /\ Faults(r) /\ Checking(r) /\ Written(r) /\ Probed(r)
  BY DEF Inv
<1>1. /\ pc[r] = "commit" /\ pc'[r] = "unwind" /\ conn[r] = "broken"
      /\ UNCHANGED <<redis, database, conn, dbCheck, redisCheck, cut, order, route, todo,
                     budgeted, answered, stored, troubled>>
  BY DEF CommitRaises, Goto, TypeOK, workerVars, checkVars
<1>2. /\ conn'[r] = conn[r] /\ dbCheck'[r] = dbCheck[r] /\ redisCheck'[r] = redisCheck[r]
      /\ route'[r] = route[r] /\ todo'[r] = todo[r]
  BY <1>1
<1>3. r \in troubled
  BY <1>0, <1>1 DEF Faults
<1>4. \/ r \in answered /\ outcome'[r] = outcome[r]
      \/ /\ r \notin answered
         /\ outcome'[r] = [status |-> 500, layer |-> "server error"]
  BY ZenonT(40) DEF CommitRaises, TypeOK
<1>5. r \in answered <=> order = "answer first"
  BY <1>0, <1>1 DEF Told
<1>14. r \in answered \/ order = "commit first"
  BY <1>5 DEF TypeOK
<1>6. outcome[r].status \in Successes \cup {503} /\ outcome[r].status # 500
  BY <1>0, <1>1 DEF Decided, Successes
<1>7. 500 # 0 /\ 500 \notin Successes \cup {503} /\ 500 \notin Successes /\ 500 \notin Refusals
  BY DEF Successes, Refusals
<1>8. route[r] \notin {"live", "unknown"}
  BY <1>0, <1>1 DEF Faults
<1>9. Way(r)'
  BY <1>0, <1>1, <1>2 DEF Way
<1>10. Told(r)'
  BY <1>0, <1>1, <1>3, <1>5 DEF Told, Settled
<1>11. Faults(r)'
  BY <1>0, <1>1, <1>2, <1>3, <1>8 DEF Faults, Excused, InFlight
<1>12. Checking(r)'
  BY <1>0, <1>1, <1>2 DEF Checking
<1>13. (Decided(r) /\ Traced(r) /\ Written(r) /\ Probed(r))'
  <2>1. CASE r \in answered
    <3>1. outcome'[r].status = outcome[r].status /\ outcome'[r].layer = outcome[r].layer
      BY <1>4, <2>1
    <3>2. Decided(r)'
      BY <1>0, <1>1, <1>6, <2>1, <3>1 DEF Decided, Settled
    <3>3. Traced(r)'
      <4>1. Traced(r)
        BY <1>0
      <4>2. Documented[route[r]]' = Documented[route[r]]
        BY <1>2
      <4>3. r \in budgeted' <=> r \in budgeted
        BY <1>1
      <4> QED
        <5>1. outcome'[r].status \in Successes \cup {503} => outcome'[r].layer = "router"
          BY ZenonT(40), <3>1, <4>1 DEF Traced
        <5>2. outcome'[r].status \in Refusals => outcome'[r].layer \in {"trusted host", "exceptions"}
          BY <3>1, <4>1 DEF Traced
        <5>3. outcome'[r].status \in Successes /\ route'[r] \in Api => r \in budgeted'
          BY <1>2, <3>1, <4>1, <4>3 DEF Traced
        <5>4. route'[r] \in Api /\ outcome'[r].status \in Refusals \ {400} =>
                outcome'[r].status \in Documented[route'[r]]
          BY <1>2, <3>1, <4>1, <4>2 DEF Traced
        <5> QED
          BY <5>1, <5>2, <5>3, <5>4 DEF Traced
    <3>4. Written(r)'
      BY <1>0, <1>1, <1>2, <1>3, <3>1 DEF Written
    <3>5. AllOk(r)' <=> AllOk(r)
      BY <1>2 DEF AllOk
    <3>6. Probed(r)'
      <4>1. Probed(r) /\ pc[r] \in Settled
        BY <1>0, <1>1 DEF Settled
      <4>2. outcome[r].status # 500
        BY <1>6
      <4>3. route'[r] = "ready" =>
              /\ outcome'[r].status = 200 => AllOk(r)'
              /\ outcome'[r].status = 503 => "failed" \in {dbCheck'[r], redisCheck'[r]}
              /\ outcome'[r].status = 500 => order' = "commit first" /\ r \in troubled'
        <5>1. ASSUME route'[r] = "ready", outcome'[r].status = 200 PROVE AllOk(r)'
          BY <1>2, <3>1, <3>5, <4>1, <5>1 DEF Probed
        <5>2. ASSUME route'[r] = "ready", outcome'[r].status = 503
              PROVE  "failed" \in {dbCheck'[r], redisCheck'[r]}
          BY <1>2, <3>1, <4>1, <5>2 DEF Probed
        <5>3. outcome'[r].status # 500
          BY <3>1, <4>2
        <5> QED
          BY <5>1, <5>2, <5>3
      <4> QED
        BY <4>3 DEF Probed
    <3> QED
      BY <3>2, <3>3, <3>4, <3>6
  <2>2. CASE r \notin answered
    <3>1. outcome'[r].status = 500
      <4> DEFINE answer == outcome'[r]
      <4>1. answer = [status |-> 500, layer |-> "server error"]
        BY <1>4, <2>2
      <4> HIDE DEF answer
      <4>2. answer.status = 500
        BY <4>1
      <4> QED
        BY <4>2 DEF answer
    <3>2. Decided(r)'
      BY <1>1, <1>7, <2>2, <3>1 DEF Decided, Settled
    <3>3. Traced(r)'
      BY ZenonT(40), <1>7, <3>1 DEF Traced
    <3>4. Written(r)'
      BY <1>0, <1>1, <1>2, <1>3, <1>7, <3>1 DEF Written
    <3>5. order' = "commit first" /\ r \in troubled'
      BY <1>1, <1>3, <1>14, <2>2
    <3>6. Probed(r)'
      <4>1. outcome'[r].status # 200 /\ outcome'[r].status # 503
        BY <3>1
      <4> QED
        BY <3>5, <4>1 DEF Probed
    <3> QED
      BY <3>2, <3>3, <3>4, <3>6
  <2> QED
    BY <2>1, <2>2
<1> QED
  BY <1>9, <1>10, <1>11, <1>12, <1>13 DEF Inv

------------------------------------------------------------------------------
(* The invariant.                                                          *)

LEMMA CrashIsNoRefusal == 500 \notin Refusals
  BY DEF Refusals

LEMMA OwnInv ==
  ASSUME TypeOK, NEW r \in Requests, Inv(r), StepOf(r)
  PROVE  Inv(r)'
<1>1. CASE \E p \in Offered[r] : Receive(r, p)
  BY <1>1, ReceiveInv
<1>2. CASE Admit(r) \/ Spend(r) \/ Query(r) \/ Dispatch(r)
  BY <1>2, PassInv
<1>3. CASE RefuseHost(r) \/ Refuse(r)
  <2>1. PICK status \in Refusals, layer \in {"trusted host", "exceptions"} :
          /\ Raised(r, status, layer)
          /\ route[r] \in Api /\ status # 400 => status \in Documented[route[r]]
    BY <1>3, RefusalEffect
  <2>2. status # 500
    BY CrashIsNoRefusal
  <2>3. status = 500 => route[r] \in Api /\ Excused(r)'
    BY <2>2
  <2>4. status \in Refusals \ {400} /\ route[r] \in Api => status \in Documented[route[r]]
    BY <2>1
  <2> QED
    BY <2>1, <2>3, <2>4, RaisedInv
<1>4. CASE Break(r) \/ StatementRaises(r) \/ PoolTimesOut(r)
  <2>1. Raised(r, 500, "server error") /\ route[r] \in Api /\ Excused(r)'
    BY <1>4, CrashEffect
  <2> QED
    BY <2>1, CrashIsNoRefusal, RaisedInv
<1>5. CASE Handle(r)
  BY <1>5, HandleInv
<1>6. CASE GoOn(r) \/ TakeConnection(r)
  BY <1>6, WaitInv
<1>7. CASE Probe(r)
  BY <1>7, ProbeInv
<1>8. CASE RunCheck(r)
  BY <1>8, RunCheckInv
<1>9. CASE Finish(r)
  BY <1>9, FinishInv
<1>10. CASE Conclude(r)
  BY <1>10, ConcludeInv
<1>11. CASE Respond(r)
  BY <1>11, RespondInv
<1>12. CASE Commit(r)
  BY <1>12, CommitInv
<1>13. CASE CommitRaises(r)
  BY <1>13, CommitRaisesInv
<1>14. CASE Unwind(r)
  BY <1>14, UnwindInv
<1> QED
  BY <1>1, <1>2, <1>3, <1>4, <1>5, <1>6, <1>7, <1>8, <1>9, <1>10, <1>11, <1>12,
     <1>13, <1>14 DEF StepOf, Advance

LEMMA PipelineInit == Init => PipelineInv
<1> SUFFICES ASSUME Init PROVE PipelineInv
  OBVIOUS
<1>1. TypeOK
  BY TypeInit
<1>2. ASSUME NEW r \in Requests PROVE Inv(r)
  <2>1. /\ pc[r] = "idle" /\ todo[r] = <<>> /\ route[r] = "unknown" /\ conn[r] = "none"
        /\ dbCheck[r] = "idle" /\ redisCheck[r] = "idle"
        /\ cut = {} /\ answered = {} /\ stored = {}
    BY DEF Init, WorkerInit, HealthInit
  <2>2. outcome[r].status = 0
    BY DEF Init, Undecided
  <2>3. 0 \notin Successes \cup {503} /\ 0 \notin Refusals /\ 0 \notin Successes /\ 0 \notin Crashes
    BY DEF Successes, Refusals, Crashes
  <2>4. Way(r)
    BY <2>1, EmptySeq DEF Way
  <2>5. Told(r) /\ Decided(r) /\ Traced(r)
    <3>1. Told(r)
      BY <2>1 DEF Told
    <3>2. Decided(r)
      BY <2>1, <2>2 DEF Decided, Settled
    <3>3. Traced(r)
      BY ZenonT(40), <2>2, <2>3 DEF Traced
    <3> QED
      BY <3>1, <3>2, <3>3
  <2>6. Faults(r) /\ Checking(r)
    BY <2>1, <2>2, <2>3 DEF Faults, Checking, InFlight
  <2>7. Written(r) /\ Probed(r)
    BY <2>1 DEF Written, Probed
  <2> QED
    BY <2>4, <2>5, <2>6, <2>7 DEF Inv
<1> QED
  BY <1>1, <1>2 DEF PipelineInv

LEMMA PipelineStep == PipelineInv /\ [Next]_vars => PipelineInv'
<1> SUFFICES ASSUME PipelineInv, [Next]_vars PROVE PipelineInv'
  OBVIOUS
<1>1. TypeOK /\ TypeOK'
  BY TypeStep DEF PipelineInv
<1>2. ASSUME NEW q \in Requests PROVE Inv(q)'
  <2>1. Inv(q)
    BY DEF PipelineInv
  <2>2. ASSUME NEW r \in Requests, StepOf(r) PROVE Inv(q)'
    <3>1. CASE r = q
      BY <1>1, <2>1, <2>2, <3>1, OwnInv
    <3>2. CASE r # q
      <4>1. Kept(q)
        BY <1>1, <2>2, <3>2, OthersKeep
      <4> QED
        BY <2>1, <4>1, OthersInv
    <3> QED
      BY <3>1, <3>2
  <2>3. CASE RedisChanges \/ DatabaseChanges
    BY <1>1, <2>1, <2>3, ServersInv
  <2>4. CASE UNCHANGED vars
    <3>1. Kept(q)
      BY <2>4 DEF vars, workerVars, checkVars, requestVars, Kept
    <3> QED
      BY <2>1, <3>1, OthersInv
  <2> QED
    BY <2>2, <2>3, <2>4 DEF Next, StepOf
<1> QED
  BY <1>1, <1>2 DEF PipelineInv

THEOREM PipelineInvariant == Spec => []PipelineInv
  BY PipelineInit, PipelineStep, PTL DEF Spec

------------------------------------------------------------------------------
(* The properties.                                                         *)

LEMMA StatusClasses ==
  ASSUME NEW status \in {0, 200, 201, 500, 503} \cup Refusals
  PROVE  /\ status \in 400..499 => status \in Refusals
         /\ status \in 401..499 => status \in Refusals \ {400}
         /\ status < 300 /\ status # 0 => status \in Successes
         /\ status >= 500 => status \in Crashes
         /\ status # 500 /\ status # 0 => status \in Successes \cup {503} \cup Refusals
<1>1. status \in {0, 200, 201, 400, 401, 403, 404, 405, 409, 422, 429, 500, 503}
  BY DEF Refusals
<1> QED
  BY <1>1 DEF Refusals, Successes, Crashes

LEMMA StatusOf ==
  ASSUME TypeOK, NEW r \in Requests
  PROVE  /\ outcome[r].status \in 400..499 => outcome[r].status \in Refusals
         /\ outcome[r].status \in 401..499 => outcome[r].status \in Refusals \ {400}
         /\ outcome[r].status < 300 /\ outcome[r].status # 0 => outcome[r].status \in Successes
         /\ outcome[r].status >= 500 => outcome[r].status \in Crashes
         /\ outcome[r].status # 500 /\ outcome[r].status # 0 =>
              outcome[r].status \in Successes \cup {503} \cup Refusals
<1> DEFINE status == outcome[r].status
<1>1. outcome[r] \in Answers
  BY DEF TypeOK
<1>2. status \in {0, 200, 201, 500, 503} \cup Refusals
  BY <1>1 DEF Answers
<1> HIDE DEF status
<1>3. /\ status \in 400..499 => status \in Refusals
      /\ status \in 401..499 => status \in Refusals \ {400}
      /\ status < 300 /\ status # 0 => status \in Successes
      /\ status >= 500 => status \in Crashes
      /\ status # 500 /\ status # 0 => status \in Successes \cup {503} \cup Refusals
  BY <1>2, StatusClasses
<1> QED
  BY <1>3 DEF status

\* An answer that was sent was decided.
LEMMA AnsweredIsSettled ==
  ASSUME NEW r \in Requests, Inv(r), r \in answered
  PROVE  pc[r] \in Settled \ {"respond"} /\ outcome[r].status # 0
  BY DEF Inv, Told, Decided

\* The client and the database agree on what happened.
THEOREM AnswersMatchDatabase == Spec => []AnswerMatchesDatabase
<1>1. PipelineInv => AnswerMatchesDatabase
  <2> SUFFICES ASSUME PipelineInv, NEW r \in Requests, r \in answered
               PROVE  /\ outcome[r].status \in 400..499 => r \notin stored
                      /\ outcome[r].status \in {500, 503} /\ r \in stored => r \in troubled
                      /\ outcome[r].status < 300 /\ route[r] \in Writing /\ r \notin stored =>
                           order = "answer first" /\ (pc[r] # "done" \/ r \in troubled)
    BY DEF AnswerMatchesDatabase
  <2>1. Inv(r) /\ TypeOK
    BY DEF PipelineInv
  <2>2. /\ outcome[r].status \in 400..499 => outcome[r].status \in Refusals
        /\ outcome[r].status < 300 => outcome[r].status \in Successes
    <3>1. outcome[r].status # 0
      BY <2>1, AnsweredIsSettled
    <3> QED
      BY <2>1, <3>1, StatusOf
  <2>3. Told(r) /\ Written(r)
    BY <2>1 DEF Inv
  <2>4. outcome[r].status \in 400..499 => r \notin stored
    BY <2>2, <2>3 DEF Written
  <2>5. outcome[r].status \in {500, 503} /\ r \in stored => r \in troubled
    BY <2>3 DEF Written, Crashes
  <2>6. pc[r] \in {"commit", "unwind", "done"}
    BY <2>1, AnsweredIsSettled DEF Settled
  <2>7. ASSUME outcome[r].status < 300, route[r] \in Writing, r \notin stored
        PROVE  order = "answer first" /\ (pc[r] # "done" \/ r \in troubled)
    <3>1. CASE pc[r] = "done"
      BY <2>2, <2>3, <2>7, <3>1 DEF Written
    <3>2. CASE pc[r] # "done"
      BY <2>3, <2>6, <3>2 DEF Told
    <3> QED
      BY <3>1, <3>2
  <2> QED
    BY <2>4, <2>5, <2>7
<1> QED
  BY <1>1, PipelineInvariant, PTL

\* A 5xx has its cause on the request's own way: an outage, a full pool or a PING
\* cut off, its own statement, or its own event that cannot be published; and
\* only a route that writes or lists has a statement that raises.
THEOREM FaultsAreLocal == Spec => []FaultsStayLocal
<1>1. PipelineInv => FaultsStayLocal
  <2> SUFFICES ASSUME PipelineInv, NEW r \in Requests, outcome[r].status >= 500
               PROVE  route[r] \notin {"live", "unknown"} /\ Excused(r)
    BY DEF FaultsStayLocal, Excused
  <2>1. Faults(r) /\ TypeOK
    BY DEF PipelineInv, Inv
  <2>2. outcome[r].status \in Crashes
    BY <2>1, StatusOf
  <2> QED
    BY <2>1, <2>2 DEF Faults
<1> QED
  BY <1>1, PipelineInvariant, PTL

\* What a probe says is so: 200 takes both checks, 503 a failed one, and 500 the
\* order COMMIT first and an outage.
THEOREM ProbesTellTheTruth == Spec => []ProbeTellsTheTruth
<1>1. PipelineInv => ProbeTellsTheTruth
  <2> SUFFICES ASSUME PipelineInv, NEW r \in Requests, r \in answered, route[r] = "ready"
               PROVE  /\ outcome[r].status = 200 => AllOk(r)
                      /\ outcome[r].status = 503 => "failed" \in {dbCheck[r], redisCheck[r]}
                      /\ outcome[r].status = 500 => order = "commit first" /\ r \in troubled
    BY DEF ProbeTellsTheTruth
  <2>1. Inv(r)
    BY DEF PipelineInv
  <2>2. pc[r] \in Settled /\ Probed(r)
    BY <2>1, AnsweredIsSettled DEF Inv
  <2> QED
    BY <2>2 DEF Probed
<1> QED
  BY <1>1, PipelineInvariant, PTL

\* How deep the layers lie.
LEMMA Depths ==
  /\ Depth("limit headers") = 2 /\ Depth("request context") = 3
  /\ Depth("trusted host") = 6 /\ Depth("exceptions") = 8 /\ Depth("router") = 9
<1>1. Len(Stack) = 9
  BY DEF Stack
<1>2. \A i \in 1..9 : /\ Stack[i] = "limit headers" <=> i = 2
                      /\ Stack[i] = "request context" <=> i = 3
                      /\ Stack[i] = "trusted host" <=> i = 6
                      /\ Stack[i] = "exceptions" <=> i = 8
                      /\ Stack[i] = "router" <=> i = 9
  <2>1. /\ Stack[1] = "server error" /\ Stack[2] = "limit headers"
        /\ Stack[3] = "request context" /\ Stack[4] = "session" /\ Stack[5] = "gzip"
        /\ Stack[6] = "trusted host" /\ Stack[7] = "cors" /\ Stack[8] = "exceptions"
        /\ Stack[9] = "router"
    BY DEF Stack
  <2>2. 1..9 = {1, 2, 3, 4, 5, 6, 7, 8, 9}
    OBVIOUS
  <2> QED
    BY <2>1, <2>2
<1>3. Depth("limit headers") = 2
  <2>1. \A i \in 1..Len(Stack) : Stack[i] = "limit headers" <=> i = 2
    BY <1>1, <1>2
  <2>2. 2 \in 1..Len(Stack)
    BY <1>1
  <2> QED
    BY <2>1, <2>2 DEF Depth
<1>4. Depth("request context") = 3
  <2>1. \A i \in 1..Len(Stack) : Stack[i] = "request context" <=> i = 3
    BY <1>1, <1>2
  <2>2. 3 \in 1..Len(Stack)
    BY <1>1
  <2> QED
    BY <2>1, <2>2 DEF Depth
<1>5. Depth("trusted host") = 6
  <2>1. \A i \in 1..Len(Stack) : Stack[i] = "trusted host" <=> i = 6
    BY <1>1, <1>2
  <2>2. 6 \in 1..Len(Stack)
    BY <1>1
  <2> QED
    BY <2>1, <2>2 DEF Depth
<1>6. Depth("exceptions") = 8
  <2>1. \A i \in 1..Len(Stack) : Stack[i] = "exceptions" <=> i = 8
    BY <1>1, <1>2
  <2>2. 8 \in 1..Len(Stack)
    BY <1>1
  <2> QED
    BY <2>1, <2>2 DEF Depth
<1>7. Depth("router") = 9
  <2>1. \A i \in 1..Len(Stack) : Stack[i] = "router" <=> i = 9
    BY <1>1, <1>2
  <2>2. 9 \in 1..Len(Stack)
    BY <1>1
  <2> QED
    BY <2>1, <2>2 DEF Depth
<1> QED
  BY <1>3, <1>4, <1>5, <1>6, <1>7

LEMMA LayersPass ==
  \A l \in {"router", "trusted host", "exceptions"} :
    Passes(l, "request context") /\ Passes(l, "limit headers")
<1>1. 2 < 6 /\ 2 < 8 /\ 2 < 9 /\ 3 < 6 /\ 3 < 8 /\ 3 < 9
  OBVIOUS
<1>2. ASSUME NEW l, l = "router" PROVE Passes(l, "request context") /\ Passes(l, "limit headers")
  BY <1>1, <1>2, Depths DEF Passes
<1>3. ASSUME NEW l, l = "trusted host" PROVE Passes(l, "request context") /\ Passes(l, "limit headers")
  BY <1>1, <1>3, Depths DEF Passes
<1>4. ASSUME NEW l, l = "exceptions" PROVE Passes(l, "request context") /\ Passes(l, "limit headers")
  BY <1>1, <1>4, Depths DEF Passes
<1> QED
  BY <1>2, <1>3, <1>4

\* Every answer but the outermost layer's carries the request id, and every
\* success of the API its budget.
THEOREM AnswersTraceable == Spec => []AnswersAreTraceable
<1>1. PipelineInv => AnswersAreTraceable
  <2> SUFFICES ASSUME PipelineInv, NEW r \in Requests, r \in answered
               PROVE  /\ outcome[r].status # 500 => Passes(outcome[r].layer, "request context")
                      /\ outcome[r].status < 300 /\ route[r] \in Api =>
                           r \in budgeted /\ Passes(outcome[r].layer, "limit headers")
    BY DEF AnswersAreTraceable
  <2>1. Inv(r) /\ TypeOK /\ Traced(r)
    BY DEF PipelineInv, Inv
  <2>2. /\ outcome[r].status # 500 => outcome[r].status \in Successes \cup {503} \cup Refusals
        /\ outcome[r].status < 300 => outcome[r].status \in Successes
    <3>1. outcome[r].status # 0
      BY <2>1, AnsweredIsSettled
    <3> QED
      BY <2>1, <3>1, StatusOf
  <2>3. outcome[r].status # 500 => outcome[r].layer \in {"router", "trusted host", "exceptions"}
    BY ZenonT(40), <2>1, <2>2 DEF Traced
  <2>4. \A l \in {"router", "trusted host", "exceptions"} :
          Passes(l, "request context") /\ Passes(l, "limit headers")
    BY LayersPass
  <2>5. outcome[r].status \in Successes => outcome[r].layer = "router"
    BY <2>1 DEF Traced
  <2>6. outcome[r].status \in Successes /\ route[r] \in Api => r \in budgeted
    BY <2>1 DEF Traced
  <2>7. outcome[r].status # 500 => Passes(outcome[r].layer, "request context")
    BY <2>3, <2>4
  <2>8. ASSUME outcome[r].status < 300, route[r] \in Api
        PROVE  r \in budgeted /\ Passes(outcome[r].layer, "limit headers")
    <3>1. outcome[r].status \in Successes
      BY <2>2, <2>8
    <3> QED
      BY <2>4, <2>5, <2>6, <2>8, <3>1
  <2> QED
    BY <2>7, <2>8
<1> QED
  BY <1>1, PipelineInvariant, PTL

\* Whatever the API refuses with is documented.
THEOREM RefusalsDocumented == Spec => []RefusalsAreDocumented
<1>1. PipelineInv => RefusalsAreDocumented
  <2> SUFFICES ASSUME PipelineInv, NEW r \in Requests, route[r] \in Api,
                      outcome[r].status \in 401..499
               PROVE  outcome[r].status \in Documented[route[r]]
    BY DEF RefusalsAreDocumented
  <2>1. Traced(r) /\ TypeOK
    BY DEF PipelineInv, Inv
  <2>2. outcome[r].status \in Refusals \ {400}
    BY <2>1, StatusOf
  <2> QED
    BY <2>1, <2>2 DEF Traced
<1> QED
  BY <1>1, PipelineInvariant, PTL

\* No handler runs on for a request that does not wait for it.
THEOREM HandlersEndFirst == Spec => []NoHandlerOutlivesItsRequest
<1>1. Init => NoHandlerOutlivesItsRequest
  BY DEF Init, BusInit, NoHandlerOutlivesItsRequest
<1>2. ASSUME TypeOK, NoHandlerOutlivesItsRequest, [Next]_vars
      PROVE  NoHandlerOutlivesItsRequest'
  <2> SUFFICES ASSUME NEW q \in Requests, NEW h \in Handlers, task'[q][h] = "running"
               PROVE  pc'[q] = "gather"
    BY DEF NoHandlerOutlivesItsRequest
  <2>0. /\ task \in [Requests -> [Handlers -> {"none", "running"} \cup Endings]]
        /\ pc \in [Requests -> Steps]
        /\ task[q][h] = "running" => pc[q] = "gather"
    BY <1>2 DEF TypeOK, BusTypeOK, NoHandlerOutlivesItsRequest
  <2>1. CASE RedisChanges \/ DatabaseChanges \/ UNCHANGED vars
    BY <2>0, <2>1 DEF RedisChanges, DatabaseChanges, RedisTurns, DatabaseTurns, vars, requestVars
  <2>2. ASSUME NEW r \in Requests, StepOf(r)
        PROVE  pc'[q] = "gather"
    <3>1. CASE Dispatch(r)
      BY <2>0, <3>1 DEF Dispatch, Publish, Goto
    <3>2. CASE Handle(r)
      <4>1. PICK g \in Handlers, how \in Endings : HandlerEnds(r, g, how)
        BY <3>2 DEF Handle
      <4>2. task'[q][h] = task[q][h] \/ task'[q][h] = how
        BY <2>0, <4>1 DEF HandlerEnds
      <4>3. how # "running"
        BY DEF Endings
      <4>4. pc' = pc
        BY <3>2 DEF Handle, requestVars
      <4> QED
        BY <2>0, <4>2, <4>3, <4>4
    <3>3. CASE GoOn(r)
      BY <2>0, <3>3 DEF GoOn, Gathered, Goto
    <3>4. CASE \/ \E p \in Offered[r] : Receive(r, p)
               \/ Admit(r) \/ Spend(r) \/ Query(r) \/ RefuseHost(r) \/ Refuse(r)
               \/ Break(r) \/ StatementRaises(r) \/ PoolTimesOut(r)
               \/ TakeConnection(r) \/ Finish(r)
      <4>1. task' = task /\ (pc' = pc \/ (pc[r] # "gather" /\ \E step : pc' = [pc EXCEPT ![r] = step]))
        BY <3>4 DEF Receive, Admit, Spend, Query, RefuseHost, Refuse, Break,
                    StatementRaises, PoolTimesOut, TakeConnection, Connect, Finish, Raise, Return, Goto, At, requestVars
      <4> QED
        BY <2>0, <4>1
    <3>5. CASE \/ Probe(r) \/ RunCheck(r) \/ Conclude(r)
               \/ Commit(r) \/ CommitRaises(r) \/ Unwind(r) \/ Respond(r)
      <4>1. task' = task /\ (pc' = pc \/ (pc[r] # "gather" /\ \E step : pc' = [pc EXCEPT ![r] = step]))
        BY <3>5 DEF Probe, RunCheck, Conclude, Commit, CommitRaises, Unwind, Respond,
                    Return, End, Goto, At, requestVars
      <4> QED
        BY <2>0, <4>1
    <3> QED
      BY <2>2, <3>1, <3>2, <3>3, <3>4, <3>5 DEF StepOf, Advance
  <2> QED
    BY <1>2, <2>1, <2>2 DEF Next, StepOf
<1> QED
  BY <1>1, <1>2, PipelineTypeCorrect, PTL DEF Spec

\* Once the checks of an outage are over, no PING fails while Redis stays up.
THEOREM RecoveryLasts == Spec => RecoveryIsLasting
<1>1. ASSUME TypeOK, [Next]_vars, Recovered, redis' = redis
      PROVE  Recovered'
  <2>0. /\ redis \in {"none", "up"} /\ cut = {}
        /\ \A q \in Requests : redisCheck[q] # "closing"
        /\ redisCheck \in [Requests -> {"idle", "pinging", "closing", "ok", "failed"}]
    BY <1>1 DEF Recovered, TypeOK, HealthTypeOK
  <2> SUFFICES cut' = {} /\ \A q \in Requests : redisCheck'[q] # "closing"
    BY <1>1, <2>0 DEF Recovered
  <2>1. CASE UNCHANGED <<redisCheck, cut>>
    BY <2>0, <2>1
  <2>2. ASSUME NEW r \in Requests, Probe(r)
        PROVE  cut' = {} /\ \A q \in Requests : redisCheck'[q] # "closing"
    BY <2>0, <2>2 DEF Probe, BeginChecks
  <2>3. ASSUME NEW r \in Requests, RunCheck(r)
        PROVE  cut' = {} /\ \A q \in Requests : redisCheck'[q] # "closing"
    <3>1. ~PingRaises(r) /\ ~PingTimesOut(r) /\ ~CloseClient(r)
      BY <2>0 DEF PingRaises, PingTimesOut, CloseClient
    <3>2. CASE PingAnswers(r)
      BY <2>0, <3>2 DEF PingAnswers
    <3>3. CASE SelectAnswers(r) \/ SelectRaises(r) \/ SelectTimesOut(r)
      BY <2>0, <3>3 DEF SelectAnswers, SelectRaises, SelectTimesOut
    <3> QED
      BY <2>3, <3>1, <3>2, <3>3 DEF RunCheck, Check
  <2>4. CASE RedisChanges
    BY <1>1, <2>4 DEF RedisChanges, RedisTurns
  <2>5. CASE DatabaseChanges \/ UNCHANGED vars
    BY <2>1, <2>5 DEF DatabaseChanges, checkVars, vars
  <2>6. ASSUME NEW r \in Requests, StepOf(r), ~Probe(r), ~RunCheck(r)
        PROVE  UNCHANGED <<redisCheck, cut>>
    BY <2>6 DEF StepOf, Advance, Receive, Admit, Spend, Query, RefuseHost, Refuse, Break,
                StatementRaises, PoolTimesOut, TakeConnection, Dispatch, GoOn, Finish, Handle, Conclude, Commit,
                CommitRaises, Unwind, Respond, Raise, Return, End, checkVars
  <2> QED
    BY <1>1, <2>1, <2>2, <2>3, <2>4, <2>5, <2>6 DEF Next, StepOf
<1> QED
  BY <1>1, PipelineTypeCorrect, PTL DEF Spec, RecoveryIsLasting
==============================================================================
