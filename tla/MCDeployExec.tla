---------------------------- MODULE MCDeployExec ----------------------------
(* Small instances of DeployExec: two deployments and two threads. *)
EXTENDS DeployExec, TLC

CONSTANTS d1, d2, w1, w2

WorkerSymmetry == Permutations(Workers)
BothSymmetry == WorkerSymmetry \cup Permutations(Deployments)
=============================================================================
