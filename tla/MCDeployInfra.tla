---------------------------- MODULE MCDeployInfra ----------------------------
(* Instances of DeployInfra for TLC. *)
EXTENDS DeployInfra, TLC

\* Deployments, requests, names and settings are interchangeable.
Symmetry == Permutations(Jobs) \cup Permutations(Patches) \cup Permutations(Names)
              \cup Permutations(Settings)
=============================================================================
