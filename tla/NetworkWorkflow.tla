--------------------------- MODULE NetworkWorkflow ---------------------------
(***************************************************************************)
(* What a Network Run promises, without records, revisions, processes,     *)
(* crashes or leases.  A node starts when it waits and all it depends on   *)
(* has succeeded, and its starts are counted without a gap.  Its result    *)
(* may be unknown, and then only a decision about what happened moves it   *)
(* on.  What failed may be retried and what succeeded be run again, but    *)
(* never a node that is to run once, and nothing in a Run that is          *)
(* finished: it is finished when everything has succeeded, for good.       *)
(***************************************************************************)
EXTENDS Integers

CONSTANTS Node, DependsOn, Once

VARIABLES
    status,     \* of each node
    starts,     \* how often each node was started
    finished    \* whether the Run has succeeded

workflowVars == <<status, starts, finished>>

WorkflowInit ==
    /\ status = [n \in Node |-> "waiting"]
    /\ starts = [n \in Node |-> 0]
    /\ finished = FALSE

Become(n, s) == status' = [status EXCEPT ![n] = s] /\ UNCHANGED finished

Start(n) ==
    /\ status[n] = "waiting"
    /\ \A d \in DependsOn[n] : status[d] = "succeeded"
    /\ Become(n, "running")
    /\ starts' = [starts EXCEPT ![n] = @ + 1]

\* The node waits again when its job never began.
End(n) ==
    /\ status[n] = "running"
    /\ \E s \in {"waiting", "succeeded", "failed", "unknown"} : Become(n, s)
    /\ UNCHANGED starts

\* Somebody finds out what really happened, or decides what it counts as.
Settle(n) ==
    /\ status[n] \in {"unknown", "failed"}
    /\ \E s \in {"succeeded", "failed"} : Become(n, s)
    /\ UNCHANGED starts

Retry(n) ==
    /\ status[n] = "failed" /\ n \notin Once
    /\ Become(n, "waiting")
    /\ UNCHANGED starts

RunAgain(n) ==
    /\ status[n] = "succeeded" /\ n \notin Once /\ ~finished
    /\ Become(n, "waiting")
    /\ UNCHANGED starts

Finish ==
    /\ \A n \in Node : status[n] = "succeeded"
    /\ finished' = TRUE
    /\ UNCHANGED <<status, starts>>

WorkflowNext ==
    \/ \E n \in Node : Start(n) \/ End(n) \/ Settle(n) \/ Retry(n) \/ RunAgain(n)
    \/ Finish

\* Most steps of a system that implements this change nothing here.  That case
\* is written out, and first, because TLC tries the disjuncts in this order.
WorkflowSpec == WorkflowInit /\ [][UNCHANGED workflowVars \/ WorkflowNext]_workflowVars
=============================================================================
