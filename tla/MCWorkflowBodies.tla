-------------------------- MODULE MCWorkflowBodies --------------------------
(* A small instance of WorkflowBodies for TLC: a workflow of a single step.  *)
EXTENDS WorkflowBodies, TLC

NoneOf == 1 :> {}
=============================================================================
