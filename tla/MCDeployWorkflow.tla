-------------------------- MODULE MCDeployWorkflow --------------------------
(***************************************************************************)
(* The deploy workflow with the broker, for TLC: one or two releases,      *)
(* given in the .cfg files as model values.                                *)
(***************************************************************************)
EXTENDS DeployWorkflowProperties
=============================================================================
