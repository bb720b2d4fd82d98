----------------------------- MODULE MCAgentProxy -----------------------------
(* Model values for AgentProxy: one call of any mode next to a unary one.  *)
EXTENDS AgentProxy

CONSTANTS r1, r2

MCReqs == {r1, r2}
MCMixes == {m \in [MCReqs -> Modes] : m[r2] = "unary"}
=============================================================================
