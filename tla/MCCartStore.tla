---------------------------- MODULE MCCartStore ----------------------------
\* A small instance of CartStore; the .cfg file gives the constants.
EXTENDS CartStore, TLC

CONSTANTS a, b, c

SomeQuantities == {-1, 0, 2}

\* No property names a call.
CallSymmetry == Permutations(Calls)
=============================================================================
