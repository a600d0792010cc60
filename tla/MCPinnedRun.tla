----------------------------- MODULE MCPinnedRun -----------------------------
(* PinnedRun for TLC: an input file with two possible contents. *)
EXTENDS PinnedRun

CONSTANTS c1, c2
MCContent == {c1, c2}
=============================================================================
