------------------------ MODULE MCGitMaterialization ------------------------
EXTENDS GitMaterialization, TLC

Symmetry == Permutations(Runs) \union Permutations(Publishers)
==============================================================================
