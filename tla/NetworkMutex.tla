---------------------------- MODULE NetworkMutex ----------------------------
(***************************************************************************)
(* What the Network lock promises, without records, revisions, leases,     *)
(* messages or clocks: each process is granted the lock at most once, the  *)
(* lock passes from one process to the next only through being closed, and *)
(* it is closed only when its owner does not work under it.                *)
(*                                                                         *)
(* A process need not know that it was granted the lock (its acquire may   *)
(* have been given up), and may stop working under it without closing it.  *)
(***************************************************************************)
CONSTANTS Process, Nobody

VARIABLES
    owner,      \* whose lock record exists
    closed,     \* processes whose lock record was closed
    active      \* processes that work under the lock

mutexVars == <<owner, closed, active>>

MutexInit == owner = Nobody /\ closed = {} /\ active = {}

\* The lock record of p comes into being; p may learn of it at once.
Grant(p) ==
    /\ owner = Nobody /\ p \notin closed
    /\ owner' = p
    /\ active' \in {active, active \cup {p}}
    /\ UNCHANGED closed

\* p finds that it was granted the lock.
Learn(p) ==
    /\ owner = p
    /\ active' = active \cup {p}
    /\ UNCHANGED <<owner, closed>>

\* p stops working, or no longer knows whether it has the lock.
Quit(p) ==
    /\ active' = active \ {p}
    /\ UNCHANGED <<owner, closed>>

\* The lock record of p is closed, by p as it stops working or by others once
\* it has stopped.
Close(p) ==
    /\ owner = p
    /\ owner' = Nobody
    /\ closed' = closed \cup {p}
    /\ active' = active \ {p}

MutexNext == \E p \in Process : Grant(p) \/ Learn(p) \/ Quit(p) \/ Close(p)

MutexSpec == MutexInit /\ [][MutexNext]_mutexVars
=============================================================================
