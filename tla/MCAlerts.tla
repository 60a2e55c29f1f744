------------------------------ MODULE MCAlerts ------------------------------
(* Instances of Alerts for TLC. *)
EXTENDS Alerts

\* The background loop, alone or with POST /evaluate.
Loop == {"loop"}
LoopAndRequest == {"loop", "request"}
=============================================================================
