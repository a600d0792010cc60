--------------------------- MODULE MCRequestQueue ---------------------------
EXTENDS RequestQueue, TLC

CONSTANTS p1, p2

Symmetry == Permutations(Poller)
=============================================================================
