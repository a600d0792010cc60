----------------------------- MODULE RunRecords -----------------------------
(***************************************************************************)
(* The records of one Network Run and the pure rules on them: the Node     *)
(* State transition table (persistence/state-transition.ts), the Run's     *)
(* aggregate status (domain/run-aggregate.ts) and the descendants of a set *)
(* of nodes (dag/descendants.ts, descendantsIncludingRoots).               *)
(***************************************************************************)
EXTENDS Integers, Sequences, FiniteSets

CONSTANTS
    Node,           \* the nodes of the network definition
    DependsOn,      \* depends_on of each node
    Order,          \* stableTopologicalSort of the nodes
    NonIdempotent   \* the nodes with idempotent: false

ASSUME NetworkAssumption ==
    /\ IsFiniteSet(Node) /\ Node # {}
    /\ DependsOn \in [Node -> SUBSET Node]
    /\ NonIdempotent \subseteq Node
    /\ Order \in Seq(Node)
    /\ \A n \in Node : \E k \in 1..Len(Order) : Order[k] = n
    /\ \A k, l \in 1..Len(Order) :
          /\ Order[k] = Order[l] => k = l
          /\ Order[k] \in DependsOn[Order[l]] => k < l

\* "none": the Node State record does not exist yet.
NodeStatus == {"none", "WAITING", "RUNNING", "SUCCESS", "FAILED", "BLOCKED",
               "CANCELLED", "UNKNOWN"}
Terminal == {"SUCCESS", "FAILED", "CANCELLED", "UNKNOWN"}
RunStatus == {"none", "CREATED", "RUNNING"} \cup Terminal

\* ALLOWED_NODE_STATE_TRANSITIONS; nothing writes SKIPPED.
AllowedTransition ==
    {<<s, s>> : s \in NodeStatus \ {"none"}}
    \cup {<<"WAITING", "RUNNING">>, <<"WAITING", "BLOCKED">>}
    \cup ({"RUNNING"} \X ({"WAITING"} \cup Terminal))
    \cup ({"SUCCESS", "FAILED", "BLOCKED", "CANCELLED"} \X {"WAITING"})
    \cup ({"UNKNOWN"} \X {"SUCCESS", "FAILED", "CANCELLED"})

\* What an Attempt Resolution may do besides.
ResolutionTransition == {"FAILED"} \X {"SUCCESS", "FAILED", "CANCELLED"}

\* computeRunAggregateStatus of the Node States in existence.
Aggregate(status, started) ==
    LET has(s) == \E n \in Node : status[n] = s
    IN  IF has("UNKNOWN") THEN "UNKNOWN"
        ELSE IF has("RUNNING") THEN "RUNNING"
        ELSE IF has("FAILED") \/ has("BLOCKED") THEN "FAILED"
        ELSE IF has("CANCELLED") THEN "CANCELLED"
        ELSE IF \A n \in Node : status[n] = "SUCCESS" THEN "SUCCESS"
        ELSE IF started = "yes" THEN "RUNNING" ELSE "CREATED"

\* The roots and every node that depends on one of them, directly or not:
\* the least set with the roots that contains a node with each dependency.
Descendants(roots) ==
    {n \in Node :
        \A S \in SUBSET Node :
            (/\ roots \subseteq S
             /\ \A m \in Node : DependsOn[m] \cap S # {} => m \in S)
            => n \in S}
=============================================================================
