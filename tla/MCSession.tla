------------------------------ MODULE MCSession ------------------------------
EXTENDS SessionProperties, TLC

Symmetry == {p @@ q : p \in Permutations(Tabs), q \in Permutations(Requests)}
=============================================================================
