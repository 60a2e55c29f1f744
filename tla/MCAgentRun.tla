----------------------------- MODULE MCAgentRun -----------------------------
(* Instances of AgentRun for TLC. *)
EXTENDS AgentRun, TLC

OneCall == {"c1"}
TwoCalls == {"c1", "c2"}
=============================================================================
