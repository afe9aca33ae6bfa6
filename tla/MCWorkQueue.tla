---------------------------- MODULE MCWorkQueue ----------------------------
EXTENDS WorkQueue, TLC

CONSTANTS w1, w2

Symmetry == Permutations(Workers)

OneDeployment == {1}
TwoDeployments == {1, 2}
=============================================================================
