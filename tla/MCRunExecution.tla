---------------------------- MODULE MCRunExecution ----------------------------
(* Small instances of RunExecution for TLC. *)
EXTENDS RunExecution, TLC

CONSTANTS a, b

\* b depends on a.
Chain == (a :> {}) @@ (b :> {a})
ChainOrder == <<a, b>>

\* One node.
Single == a :> {}
SingleOrder == <<a>>

Symmetry == Permutations(Invocation)
=============================================================================
