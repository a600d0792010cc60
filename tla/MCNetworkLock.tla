--------------------------- MODULE MCNetworkLock ---------------------------
(* Model-checking instances of the Network lock. *)
EXTENDS NetworkLock, TLC

\* Invocations are interchangeable.
Symmetry == Permutations(Invocation)
=============================================================================
