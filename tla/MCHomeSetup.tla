---------------------------- MODULE MCHomeSetup ----------------------------
EXTENDS HomeSetup, TLC

Symmetry == Permutations(Requests)

=============================================================================
