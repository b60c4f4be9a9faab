-------------------------------- MODULE Worker --------------------------------
(***************************************************************************)
(* What the requests of a worker process share: the two servers it talks   *)
(* to and the connection pool of its engine (app/database/engine.py).  A   *)
(* server is "hung" while it accepts what it is sent and answers nothing,  *)
(* or nothing in time.  The rate-limit storage is taken to be on the Redis *)
(* server that REDIS_URL names, and in memory when it names none.          *)
(***************************************************************************)
EXTENDS Integers, FiniteSets

CONSTANTS
  Requests,    \* one-shot
  PoolSize     \* connections the pool hands out at a time

ASSUME PoolAssumption == PoolSize \in Nat \ {0}

VARIABLES
  redis,       \* the Redis server; none: REDIS_URL is not set
  database,    \* the database server
  conn         \* a request's connection: none, open, or broken and unusable

workerVars == <<redis, database, conn>>

WorkerTypeOK ==
  /\ redis \in {"none", "up", "down", "hung"}
  /\ database \in {"up", "down", "hung"}
  /\ conn \in [Requests -> {"none", "open", "broken"}]

WorkerInit ==
  /\ redis \in {"none", "up"}
  /\ database = "up"
  /\ conn = [r \in Requests |-> "none"]

PoolFull == Cardinality({r \in Requests : conn[r] # "none"}) >= PoolSize

\* A session takes its connection with its first statement; pool_pre_ping has
\* replaced one that went stale in the pool.
Connect(r) ==
  /\ conn[r] = "none"
  /\ ~PoolFull
  /\ database = "up"
  /\ conn' = [conn EXCEPT ![r] = "open"]
  /\ UNCHANGED <<redis, database>>

\* A new connection is refused, or the statement meets a dead one.
StatementFails(r) ==
  \/ conn[r] = "none" /\ ~PoolFull /\ database = "down"
  \/ conn[r] = "broken"

StatementWorks(r) == conn[r] = "open" /\ database = "up"

\* A server that goes down takes the connections in use with it.
DatabaseTurns(s) ==
  /\ database' = s
  /\ conn' = IF s = "down"
             THEN [r \in Requests |-> IF conn[r] = "none" THEN "none" ELSE "broken"]
             ELSE conn
  /\ UNCHANGED redis
==============================================================================
