---------------------------- MODULE ClientAddress ----------------------------
(***************************************************************************)
(* Who a request comes from: resolve_client_ip of app/http/net.py, and the *)
(* reverse proxies in front of the application, each of which appends the  *)
(* address it was called from to X-Forwarded-For.  What the caller put in  *)
(* the header itself stays to the left.                                    *)
(***************************************************************************)
EXTENDS Integers, Sequences

CONSTANTS
  Proxies,           \* their addresses, the one next to the caller first
  TrustedProxyHops,  \* TRUSTED_PROXY_HOPS
  NoPeer,            \* request.client is None: the server knows no peer
  UnknownClient      \* UNKNOWN_CLIENT

ASSUME ProxiesAssumption == Proxies \in Seq(STRING) /\ TrustedProxyHops \in Nat

\* The header that arrives: every proxy but the last is named by the next one.
Forwarded(claim, caller) ==
  IF Proxies = <<>> THEN claim
  ELSE Append(claim, caller) \o SubSeq(Proxies, 1, Len(Proxies) - 1)

\* request.client.host: the other end of the connection.
Peer(caller) == IF Proxies = <<>> THEN caller ELSE Proxies[Len(Proxies)]

\* Requests without a peer share one address, and with it one bucket.
HostOf(peer) == IF peer = NoPeer THEN UnknownClient ELSE peer

\* Mutant: the leftmost entry is taken for the caller.
LeftmostClientIp(chain, peer) == IF chain # <<>> THEN chain[1] ELSE HostOf(peer)

\* The entry the outermost trusted proxy wrote; without that many entries, or
\* without a proxy to trust, the peer.
ResolveClientIp(chain, peer) ==
  IF TrustedProxyHops > 0 /\ Len(chain) >= TrustedProxyHops
  THEN chain[Len(chain) - TrustedProxyHops + 1]
  ELSE HostOf(peer)
==============================================================================
