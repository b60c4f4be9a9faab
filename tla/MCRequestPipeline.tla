-------------------------- MODULE MCRequestPipeline --------------------------
(***************************************************************************)
(* RequestPipeline for TLC.  One connection for two requests, so that they *)
(* meet in the pool as well as on the Redis client: any route, another     *)
(* probe included, beside a probe.                                         *)
(***************************************************************************)
EXTENDS RequestPipeline, TLC

CONSTANTS r1, r2

AnythingBesideAProbe == (r1 :> {"ready", "unknown", "register", "login", "get_user"}) @@ (r2 :> {"ready"})
==============================================================================
