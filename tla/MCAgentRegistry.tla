---------------------------- MODULE MCAgentRegistry ----------------------------
(* Model values for AgentRegistry: the DaemonSet agent of one node, which    *)
(* connects twice, and a pod of an old version that declares no capability.  *)
EXTENDS AgentRegistry

CONSTANTS ds, old, d1, d2, o1

MCAgentIds == {ds, old}
MCSessions == {d1, d2, o1}
MCAgentOf == [s \in MCSessions |-> IF s = o1 THEN old ELSE ds]
MCProxyCapable == {d1, d2}
MCUndeclared == {o1}
=============================================================================
