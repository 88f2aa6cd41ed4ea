----------------------------- MODULE MCCheckout -----------------------------
EXTENDS CheckoutProperties, TLC

Symmetry == Permutations(Plans)
=============================================================================
