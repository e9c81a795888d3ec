-------------------------- MODULE MCDeployRequests --------------------------
(* A plan and its confirmation, or a tab that asks while the other one runs. *)
EXTENDS DeployRequests

CONSTANTS preview, deploy
=============================================================================
