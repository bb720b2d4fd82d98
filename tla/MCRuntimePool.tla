----------------------------- MODULE MCRuntimePool -----------------------------
(***************************************************************************)
(* RuntimePool on one agent-proxy and one kubeconfig context, a cap of one *)
(* parked runtime, two goroutines and three builds.                        *)
(***************************************************************************)
EXTENDS RuntimePool, TLC

CONSTANTS a1, k1, r1, r2, r3, g1, g2

MCContexts == {a1, k1}
MCProxyContexts == {a1}
MCPlatform == {}
MCCallers == {g1, g2}
MCRuntimes == {r1, r2, r3}

\* Goroutines and runtimes are interchangeable; every property is a safety one.
Symm == Permutations(MCCallers) \cup Permutations(MCRuntimes)
=============================================================================
