--------------------------- MODULE MCLogConsumer ---------------------------
(* Instances of LogConsumer for TLC. *)
EXTENDS LogConsumer

OneWorker == {"w1"}
TwoWorkers == {"w1", "w2"}
Logs == {"logs"}
LogsAndMetrics == {"logs", "metrics"}

=============================================================================
