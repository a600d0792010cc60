-------------------------- MODULE NetworkDefinition --------------------------
(***************************************************************************)
(* From network.yaml to what the scheduler works with: the checks of a     *)
(* definition, its stable topological order, the nodes --rerun-from        *)
(* selects and the nodes held back behind the ones that may not run.       *)
(*                                                                         *)
(* Each round of a loop of the code is a step, so that what the loops keep *)
(* true on the way can be stated as well as what they return.              *)
(*                                                                         *)
(* Sources: domain/load-network.ts, domain/validate-network.ts,            *)
(* dag/topological-sort.ts, dag/descendants.ts, orchestration/             *)
(* sequential-scheduler.ts (descendantsIncludingRoots).                    *)
(***************************************************************************)
EXTENDS BusinessKeys, Sequences, Functions

CONSTANTS
    Definitions,    \* the network.yaml files that pass the schema
    NodeIds         \* the node ids --rerun-from may name

\* What the schema of network.yaml lets pass (schemas/network-definition.schema.json).
NodeEntry == [id : STRING, depends_on : Seq(STRING),
              trigger_rule : {"all_success", "none_failed", "all_done"},
              inputs : SUBSET SUBSET STRING, outputs : SUBSET SUBSET STRING]
PolicyEntry == [type : {"scheduled_period", "explicit"}, period : {"day", "month"},
                timezone : STRING, format : SUBSET STRING]

ASSUME DefinitionsAssumption ==
    \A d \in Definitions :
        /\ d.nodes \in Seq(NodeEntry) /\ d.policy \in PolicyEntry
        /\ {d.lease, d.heartbeat, d.max_active_runs} \subseteq Nat \ {0}

VARIABLES
    def,        \* the definition being loaded
    phase,      \* what is done with it
    errors,     \* the error codes of semanticErrors
    indegree,   \* dependencies still to place, by node id
    ready,      \* the nodes with none left: sorted by the code, so a set here
    order,      \* the nodes placed
    root,       \* what --rerun-from, or the held back nodes, start from
    selected,   \* the nodes selected (while counting: visited) so far
    queue       \* the nodes whose dependents are still to look at: the order of the
                \* code's queue only decides which one is next, here it is any of them

defVars == <<def, phase, errors, indegree, ready, order, root, selected, queue>>

Ids(d) == {d.nodes[i].id : i \in DOMAIN d.nodes}

NodeOf(d, id) == d.nodes[CHOOSE i \in DOMAIN d.nodes : d.nodes[i].id = id]

IndexOf(d, id) == CHOOSE i \in DOMAIN d.nodes : d.nodes[i].id = id

Occurrences(id, deps) == Cardinality({i \in DOMAIN deps : deps[i] = id})

\* dependents.get(current), as a set: how often a node is in it is Occurrences.
Dependents(d, id) == {n \in Ids(d) : id \in Range(NodeOf(d, n).depends_on)}

Indegrees(d) == [id \in Ids(d) |-> Len(NodeOf(d, id).depends_on)]

-----------------------------------------------------------------------------
(* Checks *)

INPUT_PLACEHOLDERS == {"{business_key}", "{profile}"}
OUTPUT_PLACEHOLDERS == INPUT_PLACEHOLDERS \cup {"{run_id}", "{node_id}"}

\* A pattern is the set of its parts: "name" is any literal without a rule.
RelativePatternProblem(pattern, placeholders) ==
    \/ pattern = {}
    \/ pattern \cap {"NUL", "absolute", "."} # {}
    \/ ~(pattern \ {"name"} \subseteq placeholders)

NodeErrors(node) ==
    {code \in {"INPUT_PATTERN_INVALID"} :
        \E p \in node.inputs : RelativePatternProblem(p, INPUT_PLACEHOLDERS)}
    \cup {code \in {"OUTPUT_PATTERN_INVALID"} :
        \E p \in node.outputs : RelativePatternProblem(p, OUTPUT_PLACEHOLDERS)}
    \cup {code \in {"TRIGGER_RULE_UNSUPPORTED"} : node.trigger_rule # "all_success"}
    \cup {code \in {"SELF_DEPENDENCY"} : node.id \in Range(node.depends_on)}
    \cup {code \in {"DUPLICATE_DEPENDENCY"} : ~IsInjective(node.depends_on)}

LockErrors(d) ==
    {code \in {"NETWORK_LOCK_HEARTBEAT_NOT_LESS_THAN_LEASE"} : d.heartbeat >= d.lease}
    \cup {code \in {"NETWORK_LOCK_HEARTBEAT_EXCEEDS_ONE_THIRD"} : 3 * d.heartbeat > d.lease}

GraphErrors(d) ==
    {code \in {"DUPLICATE_NODE_ID"} : Cardinality(Ids(d)) # Len(d.nodes)}
    \cup {code \in {"UNKNOWN_DEPENDENCY"} :
            \E i \in DOMAIN d.nodes : ~(Range(d.nodes[i].depends_on) \subseteq Ids(d))}

SemanticErrors(d) ==
    (IF d.policy.type = "scheduled_period" THEN ValidateScheduledPeriodPolicy(d.policy) ELSE {})
    \cup LockErrors(d)
    \cup (UNION {NodeErrors(d.nodes[i]) : i \in DOMAIN d.nodes})
    \cup GraphErrors(d)

\* loadNetworkDefinition up to the sort.  With a duplicate id or an unknown
\* dependency there is nothing to sort.
Validate ==
    /\ phase = "read"
    /\ errors' = SemanticErrors(def)
    /\ IF GraphErrors(def) # {}
       THEN phase' = "rejected" /\ UNCHANGED <<indegree, ready>>
       ELSE /\ phase' = "sorting"
            /\ indegree' = Indegrees(def)
            /\ ready' = {id \in Ids(def) : Indegrees(def)[id] = 0}
    /\ UNCHANGED <<def, order, root, selected, queue>>

-----------------------------------------------------------------------------
(* stableTopologicalSort *)

\* shift before sort: the last node stands for any other.
LastInFile(ids) == CHOOSE id \in ids : \A other \in ids : IndexOf(def, id) >= IndexOf(def, other)

\* ready.sort and ready.shift: the ready node that stands first in the file.
FirstInFile(ids) == CHOOSE id \in ids : \A other \in ids : IndexOf(def, id) <= IndexOf(def, other)

Decrement(current) ==
    [id \in Ids(def) |-> indegree[id] - Occurrences(current, NodeOf(def, id).depends_on)]

Release(current) == {id \in Dependents(def, current) : Decrement(current)[id] = 0}

Place ==
    /\ phase = "sorting" /\ ready # {}
    /\ LET current == FirstInFile(ready)
       IN /\ order' = Append(order, current)
          /\ indegree' = Decrement(current)
          /\ ready' = (ready \ {current}) \cup Release(current)
    /\ UNCHANGED <<def, phase, errors, root, selected, queue>>

\* Only the shortest cycles.
SelfDependentIds == {id \in Ids(def) : id \in Range(NodeOf(def, id).depends_on)}

CyclicNodeIds == {id \in Ids(def) : indegree[id] > 0}

SortEnds ==
    /\ phase = "sorting" /\ ready = {}
    /\ errors' = errors \cup {code \in {"CYCLE_DETECTED"} : CyclicNodeIds # {}}
    /\ phase' = IF errors' = {} THEN "loaded" ELSE "rejected"
    /\ UNCHANGED <<def, indegree, ready, order, root, selected, queue>>

-----------------------------------------------------------------------------
(* descendantsIncludingSelf: --rerun-from *)

\* The checks of the snapshot before it is searched; a loaded definition
\* passes them.
SnapshotInvalid == GraphErrors(def) # {} \/ \E i \in DOMAIN def.nodes :
    NodeErrors(def.nodes[i]) \cap {"SELF_DEPENDENCY", "DUPLICATE_DEPENDENCY"} # {}

RerunFrom(id) ==
    /\ phase = "loaded"
    /\ root' = {id}
    /\ IF SnapshotInvalid \/ id \notin Ids(def)
       THEN /\ phase' = "refused"
            /\ UNCHANGED <<indegree, ready, selected, queue>>
       ELSE /\ phase' = "counting"
            /\ indegree' = Indegrees(def)
            /\ queue' = {n \in Ids(def) : Indegrees(def)[n] = 0}
            /\ selected' = {}
            /\ UNCHANGED ready
    /\ UNCHANGED <<def, errors, order>>

CountVisit ==
    /\ phase = "counting"
    /\ \E current \in queue :
         /\ indegree' = Decrement(current)
         /\ queue' = (queue \ {current}) \cup Release(current)
         /\ selected' = selected \cup {current}
    /\ UNCHANGED <<def, phase, errors, ready, order, root>>

CountEnds ==
    /\ phase = "counting" /\ queue = {}
    /\ IF Cardinality(selected) # Len(def.nodes)
       THEN phase' = "refused" /\ UNCHANGED <<selected, queue>>
       ELSE /\ phase' = "selecting"
            /\ selected' = root
            /\ queue' = root
    /\ UNCHANGED <<def, errors, indegree, ready, order, root>>

New(current) == Dependents(def, current) \ selected

SelectDescendants ==
    /\ phase = "selecting"
    /\ \E current \in queue :
         /\ selected' = selected \cup New(current)
         /\ queue' = (queue \ {current}) \cup New(current)
    /\ UNCHANGED <<def, phase, errors, indegree, ready, order, root>>

SelectionEnds ==
    /\ phase = "selecting" /\ queue = {}
    /\ phase' = "selected"
    /\ UNCHANGED <<def, errors, indegree, ready, order, root, selected, queue>>

-----------------------------------------------------------------------------
(* descendantsIncludingRoots: the nodes that wait behind excluded ones *)

HoldBack(roots) ==
    /\ phase = "loaded"
    /\ phase' = "holding"
    /\ root' = roots /\ selected' = roots
    /\ UNCHANGED <<def, errors, indegree, ready, order, queue>>

\* The nodes a pass over the definition would add to the result.
Behind == {id \in Ids(def) \ selected : Range(NodeOf(def, id).depends_on) \cap selected # {}}

\* A node that a pass adds.  In which order the passes come to the nodes does not
\* matter to the result; here it is any order.
HoldNode ==
    /\ phase = "holding"
    /\ \E id \in Behind : selected' = selected \cup {id}
    /\ UNCHANGED <<def, phase, errors, indegree, ready, order, root, queue>>

\* The loop left while there are more to add.
HoldEndsAtOnce ==
    /\ phase = "holding"
    /\ phase' = "selected"
    /\ UNCHANGED <<def, errors, indegree, ready, order, root, selected, queue>>

\* A pass that changes nothing is the last.
HoldEnds ==
    /\ phase = "holding" /\ Behind = {}
    /\ phase' = "selected"
    /\ UNCHANGED <<def, errors, indegree, ready, order, root, selected, queue>>

-----------------------------------------------------------------------------
DefInit ==
    /\ def \in Definitions
    /\ phase = "read" /\ errors = {}
    /\ indegree = <<>> /\ ready = {} /\ order = <<>>
    /\ root = {} /\ selected = {} /\ queue = {}

DefNext ==
    \/ Validate \/ Place \/ SortEnds
    \/ \E id \in NodeIds : RerunFrom(id)
    \/ CountVisit \/ CountEnds \/ SelectDescendants \/ SelectionEnds
    \/ \E roots \in (SUBSET Ids(def)) \ {{}} : HoldBack(roots)
    \/ HoldNode \/ HoldEnds

-----------------------------------------------------------------------------
(* Properties *)

Phases == {"read", "sorting", "loaded", "rejected", "refused", "counting", "selecting",
           "holding", "selected"}

DefTypeOK ==
    /\ phase \in Phases
    /\ indegree = <<>> \/ indegree \in [Ids(def) -> Nat]
    /\ ready \subseteq Ids(def) /\ root \subseteq NodeIds /\ selected \subseteq Ids(def)
    /\ Range(order) \subseteq Ids(def) /\ queue \subseteq Ids(def)

Placed == Range(order)

\* The nodes that may come next: all of their dependencies are placed.
Available(placed) == {id \in Ids(def) \ placed : Range(NodeOf(def, id).depends_on) \subseteq placed}

(* The order of the nodes is the one the definition's text determines      *)
(* (specification.md, 1.4: YAML order where there is a choice): each       *)
(* node comes after its dependencies and is the first in the file of those *)
(* that could stand at its place, however its dependencies are repeated or *)
(* entangled in a cycle; no node is placed twice, and a loaded definition  *)
(* has all of them in its order.  stableTopologicalSort.                   *)
OrderIsStable ==
    /\ \A k \in DOMAIN order :
         LET before == {order[j] : j \in 1..(k - 1)}
         IN /\ order[k] \in Available(before)
            /\ \A id \in Available(before) : IndexOf(def, order[k]) <= IndexOf(def, id)
    /\ phase \in Phases \ {"read", "sorting", "rejected"} => Placed = Ids(def)

\* A set of nodes that wait for each other.
HasCycle == \E knot \in (SUBSET Ids(def)) \ {{}} :
    \A id \in knot : Range(NodeOf(def, id).depends_on) \cap knot # {}

(* A definition is loaded exactly when it is sound: the ids are unique,    *)
(* dependencies name other nodes of the network and once each, no set of   *)
(* nodes waits for itself, a heartbeat comes three times within a lease,   *)
(* file patterns use only what is known when they are resolved (an input   *)
(* does not know the run id), and the period can be read off the key.      *)
(* semanticErrors with the cycles stableTopologicalSort finds.             *)
Sound ==
    LET Deps(i) == def.nodes[i].depends_on
    IN /\ \A i, j \in DOMAIN def.nodes : def.nodes[i].id = def.nodes[j].id => i = j
       /\ \A i \in DOMAIN def.nodes :
            /\ \A k \in DOMAIN Deps(i) :
                 /\ \E j \in DOMAIN def.nodes \ {i} : def.nodes[j].id = Deps(i)[k]
                 /\ \A l \in DOMAIN Deps(i) : Deps(i)[l] = Deps(i)[k] => l = k
            /\ def.nodes[i].trigger_rule = "all_success"
            /\ \A p \in def.nodes[i].inputs :
                 p # {} /\ p \subseteq {"name", "{business_key}", "{profile}"}
            /\ \A p \in def.nodes[i].outputs :
                 p # {} /\ p \subseteq {"name", "{business_key}", "{profile}", "{run_id}", "{node_id}"}
       /\ ~HasCycle
       /\ 3 * def.heartbeat <= def.lease
       /\ def.policy.type = "scheduled_period" =>
            /\ def.policy.timezone \in DOMAIN Offset
            /\ "{" \notin def.policy.format
            /\ def.policy.format \ Literals \in
                 IF def.policy.period = "day"
                 THEN {{"{yyyy}", "{MM}", "{dd}"}, {"{network_id}", "{yyyy}", "{MM}", "{dd}"}}
                 ELSE {{"{yyyy}", "{MM}"}, {"{network_id}", "{yyyy}", "{MM}"}}

LoadVerdict ==
    /\ phase = "rejected" => ~Sound
    /\ phase \in Phases \ {"read", "sorting", "rejected"} => Sound

\* Holds all of from and every node that depends on one of its own.
IsClosed(from, ids) ==
    from \subseteq ids /\ \A id \in Ids(def) :
        Range(NodeOf(def, id).depends_on) \cap ids # {} => id \in ids

(* The two searches of the graph agree on what comes after a node: what    *)
(* --rerun-from resets and what is held back behind excluded nodes is the  *)
(* least set with the roots and everything that depends on them, and a     *)
(* definition that was loaded is refused as a snapshot only for a node     *)
(* that it does not have.                                                  *)
(* descendantsIncludingSelf, descendantsIncludingRoots.                    *)
SelectionIsDescendants ==
    /\ phase = "refused" => root \cap Ids(def) = {}
    /\ phase = "selected" =>
         /\ IsClosed(root, selected)
         /\ \A ids \in SUBSET Ids(def) : IsClosed(root, ids) => selected \subseteq ids
=============================================================================
