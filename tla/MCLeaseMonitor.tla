--------------------------- MODULE MCLeaseMonitor ---------------------------
(* Model-checking instance of the lease monitor. *)
EXTENDS LeaseMonitor
=============================================================================
