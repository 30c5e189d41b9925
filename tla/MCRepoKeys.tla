----------------------------- MODULE MCRepoKeys ------------------------------
EXTENDS RepoKeys, TLC

CONSTANTS d1, d2, d3, r1, r2

\* Devices are alike: all of them may found the repository.
Symmetric == Permutations(Device)

=============================================================================
