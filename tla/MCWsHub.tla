-------------------------------- MODULE MCWsHub --------------------------------
(* WsHub with two clients, an emitter, two scopes and channels of one event. *)
EXTENDS WsHub, TLC

CONSTANTS c1, c2, e1, x, y

MCClients == {c1, c2}
MCEmitters == {e1}
MCScopes == {x, y}

\* Scopes and clients are interchangeable in the safety properties.
Symm == Permutations(MCClients) \cup Permutations(MCScopes)
=============================================================================
