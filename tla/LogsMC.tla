------------------------------- MODULE LogsMC -------------------------------
(* A small instance of AgentLog and QueryLog for TLC. *)
EXTENDS AgentLog

TwoQueries == {1, 2}
OneServer == {"server"}
TwoOutcomes == {"answered", "no_relevant"}
=============================================================================
