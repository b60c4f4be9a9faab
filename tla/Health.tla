-------------------------------- MODULE Health --------------------------------
(***************************************************************************)
(* The checks behind /ready and /health (app/health/checks.py) and the two *)
(* things they share with everybody else: the Redis client cached by       *)
(* get_redis and the connection pool of the engine.                        *)
(*                                                                         *)
(* A probe runs SELECT 1 on its session and PING on the shared client as   *)
(* two concurrent tasks, each under a timeout of two seconds.  A PING that *)
(* fails otherwise closes the client, which disconnects every connection   *)
(* of its pool, those under other probes' PINGs included; the client       *)
(* connects again when it is next used.                                    *)
(***************************************************************************)
EXTENDS Worker

VARIABLES
  dbCheck,     \* check_database of a probe
  redisCheck,  \* check_redis of a probe
  cut          \* PINGs whose connection was taken from them

checkVars == <<dbCheck, redisCheck, cut>>

HealthTypeOK ==
  /\ dbCheck \in [Requests -> {"idle", "running", "ok", "failed"}]
  /\ redisCheck \in [Requests -> {"idle", "pinging", "closing", "ok", "failed"}]
  /\ cut \subseteq Requests

HealthInit ==
  /\ dbCheck = [r \in Requests |-> "idle"]
  /\ redisCheck = [r \in Requests |-> "idle"]
  /\ cut = {}

Pinging == {r \in Requests : redisCheck[r] = "pinging"}

------------------------------------------------------------------------------
(* The two checks of a probe.                                              *)

\* _run_checks: gather(check_database(session), check_redis(get_redis())).
\* Without a client there is nothing to PING.
BeginChecks(r) ==
  /\ dbCheck' = [dbCheck EXCEPT ![r] = "running"]
  /\ redisCheck' = [redisCheck EXCEPT ![r] = IF redis = "none" THEN "ok" ELSE "pinging"]
  /\ UNCHANGED <<workerVars, cut>>

SelectAnswers(r) ==
  /\ dbCheck[r] = "running"
  /\ StatementWorks(r)
  /\ dbCheck' = [dbCheck EXCEPT ![r] = "ok"]
  /\ UNCHANGED <<workerVars, redisCheck, cut>>

SelectRaises(r) ==
  /\ dbCheck[r] = "running"
  /\ StatementFails(r)
  /\ dbCheck' = [dbCheck EXCEPT ![r] = "failed"]
  /\ UNCHANGED <<workerVars, redisCheck, cut>>

\* Two seconds are over, in the queue for a connection or under the SELECT,
\* whose cancellation costs the session its connection.
SelectTimesOut(r) ==
  /\ dbCheck[r] = "running"
  /\ database = "hung" \/ (conn[r] = "none" /\ PoolFull)
  /\ dbCheck' = [dbCheck EXCEPT ![r] = "failed"]
  /\ conn' = [conn EXCEPT ![r] = IF @ = "none" THEN "none" ELSE "broken"]
  /\ UNCHANGED <<redis, database, redisCheck, cut>>

\* Mutant: the client is closed in a finally clause.
PingAnswersAndCloses(r) ==
  /\ r \in Pinging
  /\ redis = "up"
  /\ redisCheck' = [redisCheck EXCEPT ![r] = "closing"]
  /\ cut' = cut \ {r}
  /\ UNCHANGED <<workerVars, dbCheck>>

\* A client that retries may answer a PING it was cut off from.
PingAnswers(r) ==
  /\ r \in Pinging
  /\ redis = "up"
  /\ redisCheck' = [redisCheck EXCEPT ![r] = "ok"]
  /\ cut' = cut \ {r}
  /\ UNCHANGED <<workerVars, dbCheck>>

PingRaises(r) ==
  /\ r \in Pinging
  /\ redis = "down" \/ r \in cut
  /\ redisCheck' = [redisCheck EXCEPT ![r] = "closing"]
  /\ cut' = cut \ {r}
  /\ UNCHANGED <<workerVars, dbCheck>>

\* Mutant: no timeout around the PING.
PingNeverTimesOut(r) ==
  /\ FALSE
  /\ UNCHANGED <<workerVars, dbCheck, redisCheck, cut>>

\* A timeout ends the check without closing the client.
PingTimesOut(r) ==
  /\ r \in Pinging
  /\ redis = "hung"
  /\ redisCheck' = [redisCheck EXCEPT ![r] = "failed"]
  /\ cut' = cut \ {r}
  /\ UNCHANGED <<workerVars, dbCheck>>

\* await redis.aclose() disconnects the connections that are in use, too.
CloseClient(r) ==
  /\ redisCheck[r] = "closing"
  /\ redisCheck' = [redisCheck EXCEPT ![r] = "failed"]
  /\ cut' = cut \cup Pinging
  /\ UNCHANGED <<workerVars, dbCheck>>

Check(r) ==
  \/ SelectAnswers(r) \/ SelectRaises(r) \/ SelectTimesOut(r)
  \/ PingAnswers(r) \/ PingRaises(r) \/ PingTimesOut(r) \/ CloseClient(r)

ChecksEnded(r) ==
  dbCheck[r] \in {"ok", "failed"} /\ redisCheck[r] \in {"ok", "failed"}

AllOk(r) == dbCheck[r] = "ok" /\ redisCheck[r] = "ok"

\* Redis going down takes the connections under the PINGs with it.
RedisTurns(s) ==
  /\ redis' = s
  /\ cut' = IF s = "down" THEN cut \cup Pinging ELSE cut
  /\ UNCHANGED <<database, conn, dbCheck, redisCheck>>
==============================================================================
