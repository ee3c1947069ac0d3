------------------------------ MODULE MCEther -------------------------------
EXTENDS Ether, TLC

Symmetry == Permutations(Hosts)
=============================================================================
