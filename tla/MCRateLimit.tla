----------------------------- MODULE MCRateLimit -----------------------------
(***************************************************************************)
(* RateLimit for TLC.  Requests, clients and stores are interchangeable.   *)
(***************************************************************************)
EXTENDS RateLimit, TLC

\* Callers send no header, or one that names a client.
ShortClaims == {<<>>} \cup {<<c>> : c \in Clients}

TwoProxies == <<"edge", "inner">>

Symmetry == Permutations(Requests) \cup Permutations(Clients) \cup Permutations(Stores)
==============================================================================
