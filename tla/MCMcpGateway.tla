------------------------------ MODULE MCMcpGateway ------------------------------
(* McpGateway with two requests and two cache entries at a time.            *)
EXTENDS McpGateway, TLC

CONSTANTS r1, r2, i1, i2

MCRequests == {r1, r2}
MCIds == {i1, i2}

\* Requests and entries are interchangeable; every property is a safety one.
Symm == Permutations(MCRequests) \cup Permutations(MCIds)

\* Bound: the admin's test runs beside at most one request at a time.
TestBesideOne ==
  test.at # "idle" => \E r \in MCRequests : req[r].at = "idle"
=============================================================================
