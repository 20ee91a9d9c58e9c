----------------------------- MODULE MCFlowHistory -----------------------------
(* Instances of FlowHistory for TLC. *)
EXTENDS FlowHistory
=============================================================================
