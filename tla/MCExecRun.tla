----------------------------- MODULE MCExecRun -----------------------------
(* Instances of ExecRun for TLC. *)
EXTENDS ExecRun, TLC

TwoCallers == {"c1", "c2"}
OneCaller == {"c1"}
=============================================================================
