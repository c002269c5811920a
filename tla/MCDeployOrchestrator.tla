------------------------ MODULE MCDeployOrchestrator ------------------------
(* Instances of DeployOrchestrator for TLC.                                *)
EXTENDS DeployOrchestrator, TLC

Preset == <<"cert", "tune", "inbound">>
Symmetry == Permutations(Deployments) \cup Permutations(Contents)
=============================================================================
