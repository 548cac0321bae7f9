---------------------------- MODULE MCBuildPasses ----------------------------
\* BuildPasses with model values as lists, which are interchangeable.
EXTENDS BuildPasses, TLC

CONSTANTS l1, l2, l3

ThreeLists == {l1, l2, l3}
ListSymmetry == Permutations(ThreeLists)
=============================================================================
