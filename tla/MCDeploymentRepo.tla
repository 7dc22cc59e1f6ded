-------------------------- MODULE MCDeploymentRepo --------------------------
(* Instances of DeploymentRepo for TLC.                                    *)
EXTENDS DeploymentRepo, TLC

\* Every handler may be asked about every file.
AnyFile == [r \in Req |-> File]

\* Handlers at once are asked about different files.
OwnFile ==
    CHOOSE g \in [Req -> {{f} : f \in File}] :
        \A r, s \in Req : r # s => g[r] # g[s]

\* Names of files and contents are interchangeable.
AnyNames == Permutations(File) \cup Permutations(Content)
=============================================================================
