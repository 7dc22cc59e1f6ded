-------------------------- MODULE MCDeploymentSync --------------------------
(* Instances of DeploymentSync for TLC.                                    *)
EXTENDS DeploymentSync, TLC

\* Agents and pages are interchangeable.
AnyNames == Permutations(Agent) \cup Permutations(Page)
=============================================================================
