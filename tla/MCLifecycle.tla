----------------------------- MODULE MCLifecycle -----------------------------
\* A node that may be told to run a poll and a server policy, or a P2P policy, by two callers
\* at the same time.
EXTENDS Lifecycle

CONSTANTS poll, server, p2p

MCPolicies == {poll, server, p2p}
MCType == (poll :> "poll") @@ (server :> "server") @@ (p2p :> "p2p")
MCChoice == (server :> {"udp", "https", "tls", "memory"}) @@ (p2p :> {"udp", "https"})
MCSettings == {<<poll, server>>, <<p2p>>}
=============================================================================
