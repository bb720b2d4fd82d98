----------------------------- MODULE MCAgentShipper -----------------------------
(* Model values for AgentShipper: three collectors, pushes below the capacity. *)
EXTENDS AgentShipper

MCBatches == {1, 2}
=============================================================================
