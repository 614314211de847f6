---------------------------- MODULE MCWorkflowRun ----------------------------
(* WorkflowRun for TLC: a workflow of two nodes with B the end node, or of B   *)
(* alone, and every limit at zero or one.                                      *)
EXTENDS WorkflowRun
=============================================================================
