-------------------------- MODULE MCDeployLifecycle --------------------------
(* Instances of DeployLifecycle for TLC. *)
EXTENDS DeployLifecycle, TLC

\* Requests are interchangeable, and so are applications.
Symmetry == Permutations(Requests) \cup Permutations(Apps)
=============================================================================
