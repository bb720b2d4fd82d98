------------------------------ MODULE MCTunnelFlow ------------------------------
(* Model values for TunnelFlow: frames of one byte, windows of one or two.   *)
EXTENDS TunnelFlow

MCSizes == {1}
MCAgentWindows == {1, 2}
=============================================================================
