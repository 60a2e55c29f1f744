--------------------------- MODULE MCIngestQueue ---------------------------
(* Instances of IngestQueue for TLC. *)
EXTENDS IngestQueue

OneTopic == [p \in Payload |-> "logs"]
\* The payloads of two topics alternate in pairs.
TwoTopics == [p \in Payload |-> IF p % 4 \in {0, 3} THEN "metrics" ELSE "logs"]


=============================================================================
