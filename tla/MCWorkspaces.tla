---------------------------- MODULE MCWorkspaces ----------------------------
\* Workspaces on small instances.
EXTENDS Workspaces, TLC

CONSTANTS r1, r2, j1, j2

\* A template that names the run.
OwnBranch == [r \in Runs |-> r]
Perms == Permutations(Jobs)
=============================================================================
