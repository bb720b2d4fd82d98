--------------------------- MODULE MCInsightEpisodes ---------------------------
(***************************************************************************)
(* InsightEpisodes with two engines and a bound on the episodes of one     *)
(* behaviour.                                                              *)
(***************************************************************************)
EXTENDS InsightEpisodes

CONSTANTS e1, e2

MCEngines == {e1, e2}
MCOne == {e1}

\* Bound: beside an engine alone, only the overlap of a stopped engine, which has
\* hydrated and is followed until its evaluation in progress is over, and the one
\* built after it.
OneOverlap ==
  \/ Up \subseteq {e1} /\ alone = Up
  \/ /\ Up = {e1, e2} /\ stored = Up
     /\ stopped = {e1} /\ engine[e1] = "on" /\ ev[e1].pc # "idle"
=============================================================================
