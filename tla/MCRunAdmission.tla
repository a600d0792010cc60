--------------------------- MODULE MCRunAdmission ---------------------------
(* RunAdmission for TLC: every graph of four nodes, the ill-formed ones of  *)
(* three nodes, and a small network with many policies; a calendar of days  *)
(* of two hours, months of two days and years of two months.                *)
EXTENDS RunAdmission, SequencesExt

CONSTANTS p1, p2

MCOffset == [UTC |-> 0, Tokyo |-> 1, Denver |-> -1]

Explicit == [type |-> "explicit", period |-> "day", timezone |-> "UTC", format |-> {}]
Period(period, zone, format) ==
    [type |-> "scheduled_period", period |-> period, timezone |-> zone, format |-> format]
Daily == Period("day", "Tokyo", {"text", "{network_id}", "{yyyy}", "{MM}", "{dd}"})

Node(id, deps) == [id |-> id, depends_on |-> deps, trigger_rule |-> "all_success",
                   inputs |-> {}, outputs |-> {}]
Network(nodes) == [policy |-> Daily, lease |-> 9, heartbeat |-> 3, max_active_runs |-> 1,
                   nodes |-> nodes]

\* Every way four nodes can depend on each other.
Four == <<"b", "d", "a", "c">>
SimpleGraphs ==
    {Network([i \in 1..4 |-> Node(Four[i], SetToSeq(deps[i]))]) :
        deps \in {f \in [1..4 -> SUBSET Range(Four)] : \A i \in 1..4 : Four[i] \notin f[i]}}

\* Three nodes with repeated, unknown and self dependencies, or a repeated id.
Loose == UNION {[1..n -> {"a", "b", "z"}] : n \in 0..2}
RawGraphs ==
    {Network([i \in 1..3 |-> Node(ids[i], deps[i])]) :
        ids \in {<<"b", "a", "c">>, <<"a", "b", "a">>}, deps \in [1..3 -> Loose]}

\* Patterns, trigger rules and lock times.
Patterns == {{}, {"name"}, {"name", "{business_key}"}, {"name", "{run_id}"}, {"name", "."},
             {"absolute", "name"}, {"{other}"}}
Details ==
    {[Network(<<[Node("a", <<>>) EXCEPT !.inputs = {i}, !.outputs = {o}, !.trigger_rule = t]>>)
        EXCEPT !.lease = lease, !.heartbeat = beat] :
       i \in Patterns, o \in Patterns, t \in {"all_success", "all_done"},
       lease \in {2, 3}, beat \in 1..3}

\* One node and every policy.
Policies == {Explicit} \cup
    {Period(period, zone, format) :
        period \in {"day", "month"}, zone \in {"UTC", "Tokyo", "Denver", "Nowhere"},
        format \in SUBSET {"text", "{network_id}", "{yyyy}", "{MM}", "{dd}", "{hh}", "{", ":"}}
Called ==
    {[Network(<<Node("a", <<>>)>>)
        EXCEPT !.policy = policy, !.max_active_runs = IF policy.period = "month" THEN 2 ELSE 1] :
       policy \in Policies}

MCCalledPolicies ==
    {Explicit, Period("month", "UTC", {":", "{yyyy}", "{MM}"}),
     Period("day", "Tokyo", {"{yyyy}", "{MM}", "{dd}"}), Period("day", "Tokyo", {"{MM}", "{dd}"}),
     Period("month", "UTC", {"{yyyy}", "{MM}"}), Period("month", "UTC", {"{MM}"}),
     Period("month", "Tokyo", {"{yyyy}", "{MM}"})}

MCDefinitions == SimpleGraphs \cup RawGraphs \cup Details \cup Called

MCInstants == {3, 4, 7, 8}

\* A free text, the key of a period, and the keys some rule refuses.
MCGivenKeys == {[part \in {"text"} |-> 1], [part \in {"{yyyy}", "{MM}"} |-> 0],
                [part \in {":"} |-> 1], [part \in {"overlong"} |-> 1]}
=============================================================================
