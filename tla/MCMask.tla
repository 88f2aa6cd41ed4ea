------------------------------- MODULE MCMask -------------------------------
EXTENDS MaskProperties

Symmetry == Permutations(Puts)
=============================================================================
