------------------------------- MODULE EventBus -------------------------------
(***************************************************************************)
(* The in-process event bus of app/events/bus.py.  A use case returns one  *)
(* domain event and the route dispatches it inside the request: publish    *)
(* builds one coroutine per handler, gather runs them as concurrent tasks  *)
(* with return_exceptions=True, and the request goes on when all of them   *)
(* have ended, however they did.                                           *)
(*                                                                         *)
(* What a handler does is not modelled, only how it ends.  Coroutines are  *)
(* built in the request's own stack frame: a subscriber whose call raises  *)
(* (a signature that does not fit the payload) or returns no awaitable (a  *)
(* plain function) makes publish itself raise before any task exists.      *)
(***************************************************************************)
EXTENDS Worker

CONSTANTS
  Handlers,    \* the functions subscribed to each of the two events
  Uncallable   \* the events with a subscriber gather cannot call

VARIABLE
  task         \* how far each handler of a request's event is

\* A handler that raises and one that is cancelled by something of its own are
\* both "failed".
Endings == {"returned", "failed"}

BusTypeOK ==
  task \in [Requests -> [Handlers -> {"none", "running"} \cup Endings]]

\* Handlers subscribe when their module is imported, before the first request.
BusInit ==
  task = [r \in Requests |-> [h \in Handlers |-> "none"]]

CanPublish(event) == event \notin Uncallable

Publish(r) == task' = [task EXCEPT ![r] = [h \in Handlers |-> "running"]]

HandlerEnds(r, h, how) ==
  /\ task[r][h] = "running"
  /\ task' = [task EXCEPT ![r][h] = how]

\* Mutant: gather without return_exceptions gives up at the first failure.
GatheredOrFailed(r) ==
  \/ \A h \in Handlers : task[r][h] # "running"
  \/ \E h \in Handlers : task[r][h] = "failed"

\* gather(..., return_exceptions=True) returns when every task has ended.
Gathered(r) == \A h \in Handlers : task[r][h] # "running"
==============================================================================
