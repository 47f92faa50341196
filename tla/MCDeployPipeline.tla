--------------------------- MODULE MCDeployPipeline ---------------------------
(* An instance of DeployPipeline for TLC.  The first commit builds nothing;  *)
(* the second is built into dist; the third is static, and its files are     *)
(* found by falling back; the package manager of the fourth is missing.      *)
EXTENDS DeployPipeline, TLC

Site(d, files) == [x \in {".", d} |-> IF x = "." THEN {} ELSE files]

MCRepo ==
  <<[package |-> TRUE, script |-> TRUE, manager |-> "yarn",
     source |-> [x \in {"."} |-> {}], built |-> Site("dist", {})],
    [package |-> TRUE, script |-> TRUE, manager |-> "npm",
     source |-> [x \in {"."} |-> {}], built |-> Site("dist", {1, 2, 3})],
    [package |-> FALSE, script |-> FALSE, manager |-> "npm",
     source |-> [x \in {".", "build", "public"} |->
                   IF x = "." THEN {1, 2, 3} ELSE IF x = "build" THEN {1} ELSE {1, 2}],
     built |-> [x \in {"."} |-> {}]],
    [package |-> TRUE, script |-> TRUE, manager |-> "pnpm",
     source |-> [x \in {"."} |-> {}], built |-> Site("dist", {1, 2, 3})]>>

\* Deployments are interchangeable.
Symmetry == Permutations(Jobs)
=============================================================================
