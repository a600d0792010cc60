------------------------- MODULE RunAdmissionProofs -------------------------
(***************************************************************************)
(* Proofs about definitions and the Runs of their periods, for every       *)
(* definition that passes the schema, any calendar with months of one      *)
(* length, any zones, and any number of callers and calls.                 *)
(*                                                                         *)
(* Three parts: the arithmetic of the periods, the inductive invariant of  *)
(* stableTopologicalSort with what it says of a definition that is loaded  *)
(* or rejected, and the inductive invariant of the admission of calls.     *)
(***************************************************************************)
EXTENDS RunAdmission, SequenceTheorems, FiniteSetTheorems, WellFoundedInduction, TLAPS

-----------------------------------------------------------------------------
(* Periods *)

\* The quotient is the only number whose multiple is within b below a.
LEMMA QuotientUnique ==
  ASSUME NEW a \in Int, NEW b \in Nat \ {0}, NEW q \in Int, b * q <= a, a < b * q + b
  PROVE  a \div b = q
  <1>1. ASSUME NEW r \in Int, NEW s \in Int, r < s PROVE b * r + b <= b * s
    BY <1>1
  <1>2. a \div b \in Int /\ b * (a \div b) <= a /\ a < b * (a \div b) + b
    OBVIOUS
  <1>3. ASSUME NEW r \in Int, b * r <= a, a < b * r + b PROVE r = q
    <2>1. ~(r < q) /\ ~(q < r)
      BY <1>1, <1>3
    <2>2. QED
      BY <2>1
  <1>4. QED
    BY <1>2, <1>3

\* Months of days: dividing twice is dividing by the product.
LEMMA QuotientOfQuotient ==
  ASSUME NEW a \in Int, NEW b \in Nat \ {0}, NEW c \in Nat \ {0}
  PROVE  (a \div b) \div c = a \div (b * c)
  <1> DEFINE q == a \div b
             r == q \div c
  <1>1. q \in Int /\ b * q <= a /\ a < b * q + b
    OBVIOUS
  <1>2. r \in Int /\ c * r <= q /\ q < c * r + c
    BY <1>1
  <1> HIDE DEF q, r
  <1>3. b * (c * r) <= b * q /\ b * q <= b * (c * r + c - 1)
    <2>1. ASSUME NEW x \in Int, NEW y \in Int, x <= y PROVE b * x <= b * y
      BY <2>1
    <2>2. c * r \in Int /\ c * r + c - 1 \in Int /\ q <= c * r + c - 1
      BY <1>1, <1>2
    <2>3. QED
      BY <1>1, <1>2, <2>1, <2>2
  <1>4. b * (c * r) = (b * c) * r /\ b * (c * r + c - 1) = (b * c) * r + b * c - b
    BY <1>2
  <1>5. b * c \in Nat \ {0} /\ (b * c) * r \in Int /\ b * q \in Int
    BY <1>1, <1>2
  <1>6. (b * c) * r <= a /\ a < (b * c) * r + b * c
    BY <1>1, <1>3, <1>4, <1>5
  <1>7. a \div (b * c) = r
    BY <1>2, <1>5, <1>6, QuotientUnique
  <1>8. QED
    BY <1>7 DEF q, r

\* A number is given by its quotient and its remainder.
LEMMA QuotientAndRemainder ==
  ASSUME NEW a \in Int, NEW c \in Int, NEW b \in Nat \ {0},
         a \div b = c \div b, a % b = c % b
  PROVE  a = c
  OBVIOUS

\* The policy of a network whose keys are those of its periods.
PolicyOK == def.policy.type = "scheduled_period" /\ ValidateScheduledPeriodPolicy(def.policy) = {}

\* Two instants have one key exactly when they fall into one period.
LEMMA KeysArePeriods ==
  ASSUME def \in Definitions, PolicyOK, NEW s \in Nat, NEW t \in Nat
  PROVE  (FormatKey(def.policy, s) = FormatKey(def.policy, t)) = SamePeriod(s, t)
  <1> DEFINE policy == def.policy
             o == Offset[policy.timezone]
             Day(i) == (i + o) \div HoursPerDay
             Month(i) == Day(i) \div DaysPerMonth
             Year(i) == Month(i) \div MonthsPerYear
             Value(part, i) == CASE part = "{yyyy}" -> Year(i)
                                 [] part = "{MM}" -> Month(i) % MonthsPerYear
                                 [] part = "{dd}" -> IF policy.period = "month" THEN 0
                                                     ELSE Day(i) % DaysPerMonth
                                 [] OTHER -> 0
             Same(i, j) == (i = j)
  <1>1. /\ policy.period \in {"day", "month"} /\ policy.timezone \in DOMAIN Offset
        /\ RequiredPlaceholders(policy.period) \subseteq policy.format \ Literals
        /\ policy.period = "month" => "{dd}" \notin policy.format
    <2>1. policy.period \in {"day", "month"}
      BY DefinitionsAssumption DEF PolicyEntry
    <2>2. \A code : code \notin ValidateScheduledPeriodPolicy(policy)
      BY DEF PolicyOK
    <2>3. policy.timezone \in DOMAIN Offset
      BY <2>2 DEF ValidateScheduledPeriodPolicy
    <2>4. /\ RequiredPlaceholders(policy.period) \subseteq policy.format \ Literals
          /\ policy.period = "month" => "{dd}" \notin policy.format \ Literals
      BY <2>2 DEF ValidateScheduledPeriodPolicy
    <2>5. "{dd}" \notin Literals
      BY DEF Literals
    <2>6. QED
      BY <2>1, <2>3, <2>4, <2>5
  <1>2. /\ o \in Int /\ HoursPerDay \in Nat \ {0} /\ DaysPerMonth \in Nat \ {0}
        /\ MonthsPerYear \in Nat \ {0}
    BY <1>1, CalendarAssumption
  <1>3. ASSUME NEW i \in Nat
        PROVE  Day(i) \in Int /\ Month(i) \in Int /\ Year(i) \in Int
    <2>1. i + o \in Int
      BY <1>2
    <2>2. Day(i) \in Int
      BY <1>2, <2>1
    <2> HIDE DEF Day
    <2>3. Month(i) \in Int
      BY <1>2, <2>2
    <2> HIDE DEF Month
    <2>4. Year(i) \in Int
      BY <1>2, <2>3
    <2>5. QED
      BY <2>2, <2>3, <2>4
  <1>4. \A i : FormatKey(policy, i) = [part \in policy.format |-> Value(part, i)]
    BY DEF FormatKey, CalendarDateAt
  <1>5. /\ \A i : Value("{yyyy}", i) = Year(i)
        /\ \A i : Value("{MM}", i) = Month(i) % MonthsPerYear
        /\ policy.period = "day" => \A i : Value("{dd}", i) = Day(i) % DaysPerMonth
    BY DEF Value
  <1>6. SamePeriod(s, t) = (IF policy.period = "day" THEN Same(Day(s), Day(t))
                            ELSE Same(Month(s), Month(t)))
    <2>1. ASSUME NEW i \in Nat PROVE (i + o) \div (HoursPerDay * DaysPerMonth) = Month(i)
      <3>1. i + o \in Int
        BY <1>2
      <3>2. QED
        BY <1>2, <3>1, QuotientOfQuotient
    <2>2. QED
      BY <1>2, <2>1 DEF SamePeriod, LocalHour
  <1>7. ASSUME FormatKey(policy, s) = FormatKey(policy, t) PROVE SamePeriod(s, t)
    <2>1. "{yyyy}" \in policy.format /\ "{MM}" \in policy.format
          /\ (policy.period = "day" => "{dd}" \in policy.format)
      BY <1>1 DEF RequiredPlaceholders
    <2>2. \A part \in policy.format : Value(part, s) = Value(part, t)
      <3> HIDE DEF Value
      <3>1. QED
        BY <1>4, <1>7
    <2> HIDE DEF Value
    <2>3. Year(s) = Year(t) /\ Month(s) % MonthsPerYear = Month(t) % MonthsPerYear
      BY <1>5, <2>1, <2>2
    <2>4. Month(s) = Month(t)
      <3> HIDE DEF Month
      <3>1. QED
        BY <1>2, <1>3, <2>3, QuotientAndRemainder
    <2>5. CASE policy.period = "day"
      <3>1. Day(s) % DaysPerMonth = Day(t) % DaysPerMonth
        BY <1>5, <2>1, <2>2, <2>5
      <3>2. Day(s) = Day(t)
        <4> HIDE DEF Day
        <4>1. QED
          BY <1>2, <1>3, <2>4, <3>1, QuotientAndRemainder
      <3>3. QED
        BY <1>6, <2>5, <3>2
    <2>6. CASE policy.period = "month"
      BY <1>6, <2>4, <2>6
    <2>7. QED
      BY <1>1, <2>5, <2>6
  <1>8. ASSUME SamePeriod(s, t) PROVE FormatKey(policy, s) = FormatKey(policy, t)
    <2>1. Month(s) = Month(t) /\ (policy.period = "day" => Day(s) = Day(t))
      BY <1>1, <1>6, <1>8
    <2>2. \A part : Value(part, s) = Value(part, t)
      <3> HIDE DEF Month, Day
      <3>1. QED
        BY <1>1, <2>1
    <2> HIDE DEF Value
    <2>3. QED
      BY <1>4, <2>2
  <1>9. SamePeriod(s, t) \in BOOLEAN
    BY <1>6
  <1>10. QED
    BY <1>7, <1>8, <1>9

-----------------------------------------------------------------------------
(* stableTopologicalSort *)

Deps(id) == NodeOf(def, id).depends_on

\* The places of the dependencies of a node that are not in a set.
Missing(id, placed) == {i \in DOMAIN Deps(id) : Deps(id)[i] \notin placed}

\* What indegree counts when the nodes of a set are placed.
CountsMissing(placed) ==
    /\ indegree \in [Ids(def) -> Nat]
    /\ \A id \in Ids(def) : indegree[id] = Cardinality(Missing(id, placed))

\* Every node of a set comes with its dependencies.
Downward(placed) ==
    placed \subseteq Ids(def) /\ \A id \in placed : Range(Deps(id)) \subseteq placed

Before(k) == {order[j] : j \in 1..(k - 1)}

PlaceOK(k) ==
    /\ order[k] \in Available(Before(k))
    /\ \A id \in Available(Before(k)) : IndexOf(def, order[k]) <= IndexOf(def, id)

\* The phases of a definition that was loaded.
AfterLoad == Phases \ {"read", "sorting", "rejected"}

SortOK ==
    /\ order \in Seq(Ids(def)) /\ \A k \in 1..Len(order) : PlaceOK(k)
    /\ phase = "read" => order = <<>>
    /\ phase = "sorting" => CountsMissing(Placed) /\ ready = Available(Placed)
    /\ phase \in AfterLoad => Placed = Ids(def)

VerdictOK ==
    /\ phase = "sorting" => errors = SemanticErrors(def) /\ GraphErrors(def) = {}
    /\ LoadVerdict

\* descendantsIncludingSelf counts the nodes as the sort does.
CountOK ==
    phase = "counting" =>
        /\ CountsMissing(selected) /\ Downward(selected) /\ queue = Available(selected)
        /\ root \subseteq Ids(def)

\* The nodes selected are roots or depend on some, and are in every closed set.
SelectedOK ==
    /\ root \subseteq selected /\ selected \subseteq Ids(def)
    /\ \A ids \in SUBSET Ids(def) : IsClosed(root, ids) => selected \subseteq ids

SelectOK ==
    /\ phase \in {"selecting", "holding"} => SelectedOK
    /\ phase = "selecting" => /\ queue \subseteq selected
                              /\ \A id \in selected \ queue : Dependents(def, id) \subseteq selected
    /\ SelectionIsDescendants

DefInv ==
    /\ def \in Definitions /\ phase \in Phases
    /\ SortOK /\ VerdictOK /\ CountOK /\ SelectOK

\* A set of natural numbers has a least one.
LEMMA LeastOne ==
  ASSUME NEW S \in SUBSET Nat, S # {}
  PROVE  \E m \in S : \A n \in S : m <= n
  <1> DEFINE R == {ss \in Nat \X Nat : ss[1] < ss[2]}
  <1>1. IsWellFoundedOn(R, Nat)
    BY NatLessThanWellFounded DEF OpToRel
  <1>2. \A x, y \in Nat : <<y, x>> \in R <=> y < x
    OBVIOUS
  <1> HIDE DEF R
  <1>3. PICK m \in S : \A n \in S : ~ (<<n, m>> \in R)
    BY <1>1, WFMin
  <1>4. ASSUME NEW n \in S PROVE m <= n
    <2>1. m \in Nat /\ n \in Nat /\ ~(n < m)
      BY <1>2, <1>3
    <2>2. QED
      BY <2>1
  <1>5. QED
    BY <1>4

\* A node of the definition has its place in the file and its dependencies.
LEMMA NodeFacts ==
  ASSUME def \in Definitions, NEW id \in Ids(def)
  PROVE  /\ IndexOf(def, id) \in 1..Len(def.nodes) /\ def.nodes[IndexOf(def, id)].id = id
         /\ NodeOf(def, id) = def.nodes[IndexOf(def, id)] /\ NodeOf(def, id) \in NodeEntry
         /\ Deps(id) \in Seq(STRING) /\ DOMAIN Deps(id) = 1..Len(Deps(id))
         /\ Len(Deps(id)) \in Nat /\ IsFiniteSet(DOMAIN Deps(id))
  <1>1. def.nodes \in Seq(NodeEntry)
    BY DefinitionsAssumption
  <1>2. DOMAIN def.nodes = 1..Len(def.nodes) /\ \A i \in DOMAIN def.nodes : def.nodes[i] \in NodeEntry
    BY <1>1, ElementOfSeq
  <1>3. \E i \in DOMAIN def.nodes : def.nodes[i].id = id
    BY DEF Ids
  <1>4. IndexOf(def, id) \in DOMAIN def.nodes /\ def.nodes[IndexOf(def, id)].id = id
    BY <1>3 DEF IndexOf
  <1>5. NodeOf(def, id) = def.nodes[IndexOf(def, id)]
    BY DEF NodeOf, IndexOf
  <1>6. NodeOf(def, id) \in NodeEntry
    BY <1>2, <1>4, <1>5
  <1>7. Deps(id) \in Seq(STRING)
    BY <1>6 DEF Deps, NodeEntry
  <1>8. DOMAIN Deps(id) = 1..Len(Deps(id)) /\ Len(Deps(id)) \in Nat
    BY <1>7
  <1>9. IsFiniteSet(DOMAIN Deps(id))
    BY <1>8, FS_Interval
  <1>10. QED
    BY <1>2, <1>4, <1>5, <1>6, <1>7, <1>8, <1>9

\* ready.shift takes one of the ready nodes, the first in the file.
LEMMA FirstIsFirst ==
  ASSUME def \in Definitions, NEW S \in SUBSET Ids(def), S # {}
  PROVE  /\ FirstInFile(S) \in S
         /\ \A id \in S : IndexOf(def, FirstInFile(S)) <= IndexOf(def, id)
  <1> DEFINE T == {IndexOf(def, id) : id \in S}
  <1>1. T \in SUBSET Nat
    BY NodeFacts
  <1>2. T # {}
    OBVIOUS
  <1>3. \A id \in S : IndexOf(def, id) \in T
    OBVIOUS
  <1>4. \A n \in T : \E id \in S : n = IndexOf(def, id)
    OBVIOUS
  <1> HIDE DEF T
  <1>5. PICK m \in T : \A n \in T : m <= n
    BY <1>1, <1>2, LeastOne
  <1>6. PICK id \in S : m = IndexOf(def, id)
    BY <1>4
  <1>7. \A other \in S : IndexOf(def, id) <= IndexOf(def, other)
    BY <1>3, <1>5, <1>6
  <1>8. QED
    BY <1>7 DEF FirstInFile

\* The count of a node is zero when all its dependencies are placed.
LEMMA CountZero ==
  ASSUME def \in Definitions, NEW id \in Ids(def), NEW placed
  PROVE  /\ IsFiniteSet(Missing(id, placed)) /\ Cardinality(Missing(id, placed)) \in Nat
         /\ Cardinality(Missing(id, placed)) = 0 <=> Range(Deps(id)) \subseteq placed
  <1>1. IsFiniteSet(Missing(id, placed))
    BY NodeFacts, FS_Subset DEF Missing
  <1>2. Cardinality(Missing(id, placed)) \in Nat
    BY <1>1, FS_CardinalityType
  <1>3. Cardinality(Missing(id, placed)) = 0 <=> Missing(id, placed) = {}
    BY <1>1, FS_EmptySet
  <1>4. Missing(id, placed) = {} <=> Range(Deps(id)) \subseteq placed
    BY DEF Missing, Range
  <1>5. QED
    BY <1>1, <1>2, <1>3, <1>4

\* At the start the count of a node is the number of its dependencies.
LEMMA CountsAtStart ==
  ASSUME def \in Definitions
  PROVE  /\ Indegrees(def) \in [Ids(def) -> Nat]
         /\ \A id \in Ids(def) : Indegrees(def)[id] = Cardinality(Missing(id, {}))
  <1>1. ASSUME NEW id \in Ids(def)
        PROVE  Indegrees(def)[id] \in Nat /\ Indegrees(def)[id] = Cardinality(Missing(id, {}))
    <2>1. Indegrees(def)[id] = Len(Deps(id))
      BY DEF Indegrees, Deps
    <2>2. Missing(id, {}) = 1..Len(Deps(id)) /\ Len(Deps(id)) \in Nat
      BY NodeFacts DEF Missing
    <2>3. Cardinality(1..Len(Deps(id))) = Len(Deps(id))
      BY <2>2, FS_Interval
    <2>4. QED
      BY <2>1, <2>2, <2>3
  <1>2. QED
    BY <1>1 DEF Indegrees

\* Taking off the occurrences of a node counts what is missing with it placed.
LEMMA DecrementCounts ==
  ASSUME def \in Definitions, NEW placed, CountsMissing(placed), NEW current, current \notin placed
  PROVE  /\ Decrement(current) \in [Ids(def) -> Nat]
         /\ \A id \in Ids(def) :
               Decrement(current)[id] = Cardinality(Missing(id, placed \cup {current}))
  <1>1. ASSUME NEW id \in Ids(def)
        PROVE  /\ Decrement(current)[id] = Cardinality(Missing(id, placed \cup {current}))
               /\ Decrement(current)[id] \in Nat
    <2> DEFINE old == Missing(id, placed)
               new == Missing(id, placed \cup {current})
               gone == {i \in DOMAIN Deps(id) : Deps(id)[i] = current}
    <2>1. /\ IsFiniteSet(new) /\ Cardinality(new) \in Nat
      BY CountZero
    <2>2. IsFiniteSet(gone) /\ Cardinality(gone) \in Nat
      BY NodeFacts, FS_Subset, FS_CardinalityType
    <2>3. old = new \cup gone /\ new \cap gone = {}
      BY DEF Missing
    <2>4. Decrement(current)[id] = Cardinality(old) - Cardinality(gone)
      BY DEF Decrement, Occurrences, CountsMissing, Deps
    <2> HIDE DEF old, new, gone
    <2>5. Cardinality(old) = Cardinality(new) + Cardinality(gone)
      BY <2>1, <2>2, <2>3, FS_Union, FS_EmptySet
    <2>6. Decrement(current)[id] = Cardinality(new)
      BY <2>1, <2>2, <2>4, <2>5
    <2>7. QED
      BY <2>1, <2>6 DEF new
  <1>2. QED
    BY <1>1 DEF Decrement

\* The nodes released by a node are those that become available with it.
LEMMA ReleasedAvailable ==
  ASSUME def \in Definitions, NEW placed, CountsMissing(placed), Downward(placed),
         NEW current \in Available(placed)
  PROVE  /\ (Available(placed) \ {current}) \cup Release(current)
               = Available(placed \cup {current})
         /\ Release(current) \cap Available(placed) = {}
         /\ Downward(placed \cup {current})
  <1>1. /\ current \in Ids(def) /\ current \notin placed /\ Range(Deps(current)) \subseteq placed
    BY DEF Available, Deps
  <1>2. \A id \in Ids(def) : Decrement(current)[id] = 0 <=>
                                Range(Deps(id)) \subseteq placed \cup {current}
    <2>1. \A id \in Ids(def) :
             Decrement(current)[id] = Cardinality(Missing(id, placed \cup {current}))
      BY <1>1, DecrementCounts
    <2>2. \A id \in Ids(def) : Cardinality(Missing(id, placed \cup {current})) = 0 <=>
                                  Range(Deps(id)) \subseteq placed \cup {current}
      BY CountZero
    <2>3. QED
      BY <2>1, <2>2
  <1>3. Release(current) = {id \in Ids(def) : /\ current \in Range(Deps(id))
                                              /\ Range(Deps(id)) \subseteq placed \cup {current}}
    BY <1>2 DEF Release, Dependents, Deps
  <1>4. \A S : Available(S) = {id \in Ids(def) \ S : Range(Deps(id)) \subseteq S}
    BY DEF Available, Deps
  <1>5. Release(current) \cap (placed \cup {current}) = {}
    BY <1>1, <1>3 DEF Downward
  <1>6. QED
    BY <1>1, <1>3, <1>4, <1>5 DEF Downward

-----------------------------------------------------------------------------
(* semanticErrors *)

\* Fewer ids than nodes: two nodes have the same.
LEMMA UniqueIds ==
  ASSUME def \in Definitions
  PROVE  Cardinality(Ids(def)) = Len(def.nodes) <=>
            \A i, j \in DOMAIN def.nodes : def.nodes[i].id = def.nodes[j].id => i = j
  <1> DEFINE n == Len(def.nodes)
             f == [i \in 1..n |-> def.nodes[i].id]
  <1>1. n \in Nat /\ DOMAIN def.nodes = 1..n
    BY DefinitionsAssumption
  <1>2. f \in Surjection(1..n, Ids(def))
    BY <1>1 DEF Surjection, Ids
  <1>3. f \in Injection(1..n, Ids(def)) <=>
            \A i, j \in 1..n : def.nodes[i].id = def.nodes[j].id => i = j
    BY <1>2 DEF Injection, IsInjective, Surjection
  <1> HIDE DEF f
  <1>4. IsFiniteSet(1..n) /\ Cardinality(1..n) = n
    BY <1>1, FS_Interval
  <1>5. Cardinality(Ids(def)) = Cardinality(1..n) <=> f \in Injection(1..n, Ids(def))
    BY <1>2, <1>4, FS_Surjection
  <1>6. QED
    BY <1>1, <1>3, <1>4, <1>5

\* relativePatternProblem: only what is known when the pattern is resolved.
LEMMA PatternTells ==
  ASSUME NEW p
  PROVE  /\ ~RelativePatternProblem(p, INPUT_PLACEHOLDERS) <=>
               p # {} /\ p \subseteq {"name", "{business_key}", "{profile}"}
         /\ ~RelativePatternProblem(p, OUTPUT_PLACEHOLDERS) <=>
               p # {} /\ p \subseteq {"name", "{business_key}", "{profile}", "{run_id}", "{node_id}"}
  BY DEF RelativePatternProblem, INPUT_PLACEHOLDERS, OUTPUT_PLACEHOLDERS

\* What a node must be by itself.
NodeSound(i) ==
    /\ \A p \in def.nodes[i].inputs : ~RelativePatternProblem(p, INPUT_PLACEHOLDERS)
    /\ \A p \in def.nodes[i].outputs : ~RelativePatternProblem(p, OUTPUT_PLACEHOLDERS)
    /\ def.nodes[i].trigger_rule = "all_success"
    /\ def.nodes[i].id \notin Range(def.nodes[i].depends_on)
    /\ IsInjective(def.nodes[i].depends_on)

\* The errors of a node are none exactly if the node is sound.
LEMMA NodeTells ==
  ASSUME NEW i
  PROVE  NodeErrors(def.nodes[i]) = {} <=> NodeSound(i)
  BY DEF NodeErrors, NodeSound

\* validateScheduledPeriodPolicy: the period can be read off the key.
PolicySound ==
    /\ def.policy.timezone \in DOMAIN Offset
    /\ "{" \notin def.policy.format
    /\ def.policy.format \ Literals \in
          IF def.policy.period = "day"
          THEN {{"{yyyy}", "{MM}", "{dd}"}, {"{network_id}", "{yyyy}", "{MM}", "{dd}"}}
          ELSE {{"{yyyy}", "{MM}"}, {"{network_id}", "{yyyy}", "{MM}"}}

\* The errors of the key policy are none exactly if the policy is sound.
LEMMA PolicyTells ==
  ASSUME def \in Definitions
  PROVE  ValidateScheduledPeriodPolicy(def.policy) = {} <=> PolicySound
  <1> DEFINE parts == def.policy.format \ Literals
  <1>1. def.policy.period \in {"day", "month"}
    BY DefinitionsAssumption DEF PolicyEntry
  <1>2. ValidateScheduledPeriodPolicy(def.policy) = {} <=>
          /\ def.policy.timezone \in DOMAIN Offset /\ parts \subseteq ALLOWED_PLACEHOLDERS
          /\ "{" \notin def.policy.format
          /\ RequiredPlaceholders(def.policy.period) \subseteq parts
          /\ ~(def.policy.period = "month" /\ "{dd}" \in parts)
    BY DEF ValidateScheduledPeriodPolicy
  <1> HIDE DEF parts
  <1>3. CASE def.policy.period = "day"
    <2>1. parts \subseteq ALLOWED_PLACEHOLDERS /\ RequiredPlaceholders("day") \subseteq parts <=>
            parts \in {{"{yyyy}", "{MM}", "{dd}"}, {"{network_id}", "{yyyy}", "{MM}", "{dd}"}}
      <3>1. CASE "{network_id}" \in parts
        BY <3>1 DEF ALLOWED_PLACEHOLDERS, RequiredPlaceholders
      <3>2. CASE "{network_id}" \notin parts
        BY <3>2 DEF ALLOWED_PLACEHOLDERS, RequiredPlaceholders
      <3>3. QED
        BY <3>1, <3>2
    <2>2. QED
      BY <1>2, <1>3, <2>1 DEF PolicySound, parts
  <1>4. CASE def.policy.period = "month"
    <2>1. /\ parts \subseteq ALLOWED_PLACEHOLDERS /\ RequiredPlaceholders("month") \subseteq parts
          /\ "{dd}" \notin parts
          <=> parts \in {{"{yyyy}", "{MM}"}, {"{network_id}", "{yyyy}", "{MM}"}}
      <3>1. RequiredPlaceholders("month") = {"{yyyy}", "{MM}"}
        BY DEF RequiredPlaceholders
      <3>2. CASE "{network_id}" \in parts
        <4>1. /\ parts \subseteq ALLOWED_PLACEHOLDERS /\ {"{yyyy}", "{MM}"} \subseteq parts
              /\ "{dd}" \notin parts
              <=> parts = {"{network_id}", "{yyyy}", "{MM}"}
          BY <3>2 DEF ALLOWED_PLACEHOLDERS
        <4>2. parts # {"{yyyy}", "{MM}"}
          <5>1. "{network_id}" \notin {"{yyyy}", "{MM}"}
            OBVIOUS
          <5>2. QED
            BY <3>2, <5>1
        <4>3. QED
          BY <3>1, <4>1, <4>2
      <3>3. CASE "{network_id}" \notin parts
        <4>1. /\ parts \subseteq ALLOWED_PLACEHOLDERS /\ {"{yyyy}", "{MM}"} \subseteq parts
              /\ "{dd}" \notin parts
              <=> parts = {"{yyyy}", "{MM}"}
          BY <3>3 DEF ALLOWED_PLACEHOLDERS
        <4>2. parts # {"{network_id}", "{yyyy}", "{MM}"}
          BY <3>3
        <4>3. QED
          BY <3>1, <4>1, <4>2
      <3>4. QED
        BY <3>2, <3>3
    <2>2. QED
      BY <1>2, <1>4, <2>1 DEF PolicySound, parts
  <1>5. QED
    BY <1>1, <1>3, <1>4

\* A definition is sound when semanticErrors finds nothing and it has no cycle.
LEMMA SoundTells ==
  ASSUME def \in Definitions
  PROVE  Sound <=> SemanticErrors(def) = {} /\ ~HasCycle
  <1> DEFINE N == DOMAIN def.nodes
             D(i) == def.nodes[i].depends_on
             Unique == \A i, j \in N : def.nodes[i].id = def.nodes[j].id => i = j
             Known == \A i \in N : Range(D(i)) \subseteq Ids(def)
  <1>1. /\ def.lease \in Nat \ {0} /\ def.heartbeat \in Nat \ {0}
        /\ def.policy.type \in {"scheduled_period", "explicit"}
    BY DefinitionsAssumption DEF PolicyEntry
  <1>2. GraphErrors(def) = {} <=> Unique /\ Known
    <2>1. GraphErrors(def) = {} <=> Cardinality(Ids(def)) = Len(def.nodes) /\ Known
      BY DEF GraphErrors
    <2>2. QED
      BY <2>1, UniqueIds
  <1>3. LockErrors(def) = {} <=> 3 * def.heartbeat <= def.lease
    <2>1. LockErrors(def) = {} <=> ~(def.heartbeat >= def.lease) /\ ~(3 * def.heartbeat > def.lease)
      BY DEF LockErrors
    <2>2. QED
      BY <1>1, <2>1
  <1>4. SemanticErrors(def) = {} <=>
          /\ def.policy.type = "scheduled_period" => PolicySound
          /\ 3 * def.heartbeat <= def.lease
          /\ \A i \in N : NodeSound(i)
          /\ Unique /\ Known
    <2>1. SemanticErrors(def) = {} <=>
            /\ def.policy.type = "scheduled_period" => ValidateScheduledPeriodPolicy(def.policy) = {}
            /\ LockErrors(def) = {}
            /\ \A i \in N : NodeErrors(def.nodes[i]) = {}
            /\ GraphErrors(def) = {}
      <3> DEFINE ofPolicy == IF def.policy.type = "scheduled_period"
                             THEN ValidateScheduledPeriodPolicy(def.policy) ELSE {}
                 ofNodes == UNION {NodeErrors(def.nodes[i]) : i \in N}
      <3>1. ofNodes = {} <=> \A i \in N : NodeErrors(def.nodes[i]) = {}
        OBVIOUS
      <3>2. SemanticErrors(def) = ofPolicy \cup LockErrors(def) \cup ofNodes \cup GraphErrors(def)
        BY DEF SemanticErrors
      <3>3. ofPolicy = {} <=> (def.policy.type = "scheduled_period"
                                 => ValidateScheduledPeriodPolicy(def.policy) = {})
        OBVIOUS
      <3> HIDE DEF ofPolicy, ofNodes
      <3>4. SemanticErrors(def) = {} <=>
               ofPolicy = {} /\ LockErrors(def) = {} /\ ofNodes = {} /\ GraphErrors(def) = {}
        BY <3>2
      <3>5. QED
        BY <3>1, <3>3, <3>4
    <2>2. QED
      BY <1>2, <1>3, <2>1, NodeTells, PolicyTells
  <1>5. Unique => ((Known /\ \A i \in N : NodeSound(i)) <=>
          \A i \in N :
            /\ \A k \in DOMAIN D(i) :
                 /\ \E j \in N \ {i} : def.nodes[j].id = D(i)[k]
                 /\ \A l \in DOMAIN D(i) : D(i)[l] = D(i)[k] => l = k
            /\ def.nodes[i].trigger_rule = "all_success"
            /\ \A p \in def.nodes[i].inputs : ~RelativePatternProblem(p, INPUT_PLACEHOLDERS)
            /\ \A p \in def.nodes[i].outputs : ~RelativePatternProblem(p, OUTPUT_PLACEHOLDERS))
    <2> SUFFICES ASSUME Unique, NEW i \in N
                 PROVE  /\ Range(D(i)) \subseteq Ids(def) /\ def.nodes[i].id \notin Range(D(i))
                           <=> \A k \in DOMAIN D(i) : \E j \in N \ {i} : def.nodes[j].id = D(i)[k]
                        /\ IsInjective(D(i)) <=>
                              \A k, l \in DOMAIN D(i) : D(i)[l] = D(i)[k] => l = k
      BY DEF NodeSound
    <2>1. IsInjective(D(i)) <=> \A k, l \in DOMAIN D(i) : D(i)[l] = D(i)[k] => l = k
      BY DEF IsInjective
    <2>2. Range(D(i)) = {D(i)[k] : k \in DOMAIN D(i)} /\ Ids(def) = {def.nodes[j].id : j \in N}
      BY DEF Range, Ids
    <2>3. ASSUME NEW k \in DOMAIN D(i)
          PROVE  D(i)[k] \in Ids(def) /\ D(i)[k] # def.nodes[i].id
                    <=> \E j \in N \ {i} : def.nodes[j].id = D(i)[k]
      BY <2>2
    <2>4. Range(D(i)) \subseteq Ids(def) /\ def.nodes[i].id \notin Range(D(i))
             <=> \A k \in DOMAIN D(i) : D(i)[k] \in Ids(def) /\ D(i)[k] # def.nodes[i].id
      BY <2>2
    <2>5. QED
      BY <2>1, <2>3, <2>4
  <1>6. Sound <=>
          /\ Unique
          /\ \A i \in N :
               /\ \A k \in DOMAIN D(i) :
                    /\ \E j \in N \ {i} : def.nodes[j].id = D(i)[k]
                    /\ \A l \in DOMAIN D(i) : D(i)[l] = D(i)[k] => l = k
               /\ def.nodes[i].trigger_rule = "all_success"
               /\ \A p \in def.nodes[i].inputs : ~RelativePatternProblem(p, INPUT_PLACEHOLDERS)
               /\ \A p \in def.nodes[i].outputs : ~RelativePatternProblem(p, OUTPUT_PLACEHOLDERS)
          /\ ~HasCycle
          /\ 3 * def.heartbeat <= def.lease
          /\ def.policy.type = "scheduled_period" => PolicySound
    BY PatternTells DEF Sound, PolicySound
  <1>7. QED
    BY <1>4, <1>5, <1>6

-----------------------------------------------------------------------------
(* The loops *)

\* What is a matter of the definition alone stays as it is.
LEMMA DefStays ==
  ASSUME def' = def
  PROVE  /\ \A id : Deps(id)' = Deps(id)
         /\ \A id, S : Missing(id, S)' = Missing(id, S)
         /\ \A S : Available(S)' = Available(S)
         /\ \A S : Downward(S)' = Downward(S)
         /\ \A S, T : IsClosed(S, T)' = IsClosed(S, T)
         /\ HasCycle' = HasCycle /\ Sound' = Sound
  <1>1. \A id : Deps(id)' = Deps(id)
    BY DEF Deps
  <1>2. \A id, S : Missing(id, S)' = Missing(id, S)
    BY <1>1 DEF Missing
  <1>3. \A S : Available(S)' = Available(S)
    BY DEF Available
  <1>4. \A S : Downward(S)' = Downward(S)
    BY <1>1 DEF Downward
  <1>5. \A S, T : IsClosed(S, T)' = IsClosed(S, T)
    BY DEF IsClosed
  <1>6. HasCycle' = HasCycle
    BY DEF HasCycle
  <1>7. Sound' = Sound
    BY <1>6 DEF Sound
  <1>8. QED
    BY <1>1, <1>2, <1>3, <1>4, <1>5, <1>6, <1>7

\* Nodes of which none can be placed wait for each other.
LEMMA StuckIsCycle ==
  ASSUME def \in Definitions, GraphErrors(def) = {}, NEW placed, Available(placed) = {},
         NEW id \in Ids(def), id \notin placed
  PROVE  HasCycle
  <1> DEFINE knot == Ids(def) \ placed
  <1>1. \A i \in DOMAIN def.nodes : Range(def.nodes[i].depends_on) \subseteq Ids(def)
    BY DEF GraphErrors
  <1>2. ASSUME NEW n \in knot PROVE Range(NodeOf(def, n).depends_on) \cap knot # {}
    <2>1. IndexOf(def, n) \in DOMAIN def.nodes /\ NodeOf(def, n) = def.nodes[IndexOf(def, n)]
      <3>1. DOMAIN def.nodes = 1..Len(def.nodes)
        BY DefinitionsAssumption
      <3>2. QED
        BY <3>1, NodeFacts
    <2>2. Range(NodeOf(def, n).depends_on) \subseteq Ids(def)
      BY <1>1, <2>1
    <2>3. ~(Range(NodeOf(def, n).depends_on) \subseteq placed)
      BY DEF Available
    <2>4. QED
      BY <2>2, <2>3
  <1>3. knot \in (SUBSET Ids(def)) \ {{}}
    OBVIOUS
  <1>4. QED
    BY <1>2, <1>3 DEF HasCycle

\* The nodes of an order come with their dependencies, and in no knot: the first
\* of it would come before what it waits for.
LEMMA OrderFacts ==
  ASSUME def \in Definitions, order \in Seq(Ids(def)), \A k \in 1..Len(order) : PlaceOK(k)
  PROVE  /\ Downward(Placed)
         /\ Placed = Ids(def) => ~HasCycle
  <1>1. /\ Len(order) \in Nat /\ DOMAIN order = 1..Len(order)
        /\ \A k \in 1..Len(order) : order[k] \in Ids(def)
    OBVIOUS
  <1>2. Placed = {order[k] : k \in 1..Len(order)}
    BY <1>1 DEF Placed, Range
  <1>3. ASSUME NEW k \in 1..Len(order)
        PROVE  Range(Deps(order[k])) \subseteq Before(k) /\ Before(k) \subseteq Placed
    <2>1. Range(Deps(order[k])) \subseteq Before(k)
      BY <1>3 DEF PlaceOK, Available, Deps
    <2>2. \A j \in 1..(k - 1) : j \in 1..Len(order)
      BY <1>1
    <2>3. Before(k) \subseteq Placed
      BY <1>2, <2>2 DEF Before
    <2>4. QED
      BY <2>1, <2>3
  <1>4. Downward(Placed)
    BY <1>1, <1>2, <1>3 DEF Downward
  <1>5. ASSUME Placed = Ids(def), NEW knot \in (SUBSET Ids(def)) \ {{}},
               \A id \in knot : Range(NodeOf(def, id).depends_on) \cap knot # {}
        PROVE  FALSE
    <2> DEFINE T == {k \in 1..Len(order) : order[k] \in knot}
    <2>1. T \in SUBSET Nat /\ T # {}
      BY <1>1, <1>2, <1>5
    <2>2. PICK k \in T : \A j \in T : k <= j
      BY <2>1, LeastOne
    <2>3. PICK d \in knot : d \in Range(Deps(order[k]))
      BY <1>5, <2>2 DEF Deps
    <2>4. PICK j \in 1..(k - 1) : d = order[j]
      BY <1>3, <2>2, <2>3 DEF Before
    <2>5. j \in T /\ j < k
      BY <1>1, <2>2, <2>3, <2>4
    <2>6. QED
      BY <1>1, <2>2, <2>5
  <1>6. QED
    BY <1>4, <1>5 DEF HasCycle

\* A sort that has ended has placed all nodes, or there is a cycle.
LEMMA SortEndsRight ==
  ASSUME DefInv, phase = "sorting", ready = {}
  PROVE  /\ CyclicNodeIds = {} <=> Placed = Ids(def)
         /\ CyclicNodeIds = {} <=> ~HasCycle
  <1>1. /\ def \in Definitions /\ CountsMissing(Placed) /\ Available(Placed) = {}
        /\ GraphErrors(def) = {} /\ order \in Seq(Ids(def)) /\ \A k \in 1..Len(order) : PlaceOK(k)
    BY DEF DefInv, SortOK, VerdictOK
  <1>2. Downward(Placed) /\ (Placed = Ids(def) => ~HasCycle)
    BY <1>1, OrderFacts
  <1>3. \A id \in Ids(def) : indegree[id] \in Nat
                             /\ (indegree[id] = 0 <=> Range(Deps(id)) \subseteq Placed)
    BY <1>1, CountZero DEF CountsMissing
  <1>4. ASSUME NEW id \in Ids(def) PROVE id \in Placed <=> ~(indegree[id] > 0)
    <2>1. id \in Placed => indegree[id] = 0
      BY <1>2, <1>3 DEF Downward
    <2>2. id \notin Placed => ~(Range(Deps(id)) \subseteq Placed)
      BY <1>1 DEF Available, Deps
    <2>3. QED
      BY <1>3, <2>1, <2>2
  <1>5. CyclicNodeIds = {} <=> Placed = Ids(def)
    BY <1>2, <1>4 DEF CyclicNodeIds, Downward
  <1>6. Placed # Ids(def) => HasCycle
    <2>1. ASSUME NEW id \in Ids(def), id \notin Placed PROVE HasCycle
      BY <1>1, <2>1, StuckIsCycle
    <2>2. QED
      BY <1>2, <2>1 DEF Downward
  <1>7. QED
    BY <1>2, <1>5, <1>6

\* A step that leaves the order alone keeps what is known of it.
LEMMA OrderStays ==
  ASSUME SortOK, def' = def, order' = order, phase' # "read", phase' # "sorting",
         phase' \in AfterLoad => Placed = Ids(def)
  PROVE  SortOK' /\ Placed' = Placed
  <1>1. \A S : Available(S)' = Available(S)
    BY DefStays
  <1>2. ASSUME NEW k \in 1..Len(order) PROVE PlaceOK(k)'
    <2>1. PlaceOK(k) /\ Before(k)' = Before(k)
      BY DEF SortOK, Before
    <2>2. Available(Before(k))' = Available(Before(k))
      BY <2>1 DEF Available
    <2>3. QED
      BY <2>1, <2>2 DEF PlaceOK
  <1>3. Placed' = Placed
    BY DEF Placed
  <1>4. QED
    BY <1>2, <1>3 DEF SortOK, AfterLoad

\* A definition that was loaded: no errors and no cycle.
LEMMA LoadedFacts ==
  ASSUME DefInv, phase \in AfterLoad
  PROVE  /\ Sound /\ SemanticErrors(def) = {} /\ GraphErrors(def) = {} /\ ~HasCycle
         /\ Placed = Ids(def)
         /\ \A i \in DOMAIN def.nodes : NodeErrors(def.nodes[i]) = {}
  <1>1. def \in Definitions /\ Sound /\ Placed = Ids(def)
    BY DEF DefInv, SortOK, VerdictOK, LoadVerdict, AfterLoad
  <1>2. SemanticErrors(def) = {} /\ ~HasCycle
    BY <1>1, SoundTells
  <1>3. GraphErrors(def) = {} /\ \A i \in DOMAIN def.nodes : NodeErrors(def.nodes[i]) = {}
    BY <1>2 DEF SemanticErrors
  <1>4. QED
    BY <1>1, <1>2, <1>3

\* loadNetworkDefinition up to the sort.
LEMMA ValidateKeeps ==
  ASSUME DefInv, Validate
  PROVE  DefInv'
  <1>1. /\ def \in Definitions /\ phase = "read" /\ order = <<>>
        /\ UNCHANGED <<def, order, root, selected, queue>> /\ errors' = SemanticErrors(def)
    BY DEF DefInv, SortOK, Validate
  <1>2. /\ \A S : Available(S)' = Available(S)
        /\ \A id, S : Missing(id, S)' = Missing(id, S)
        /\ Sound' = Sound
    BY <1>1, DefStays
  <1>3. Placed' = {} /\ order' \in Seq(Ids(def))' /\ Len(order') = 0
    BY <1>1 DEF Placed, Range
  <1>4. CASE GraphErrors(def) # {}
    <2>1. phase' = "rejected"
      BY <1>4 DEF Validate
    <2>2. ~Sound
      BY <1>1, <1>4, SoundTells DEF SemanticErrors
    <2>3. SortOK'
      BY <1>3, <2>1 DEF SortOK, AfterLoad
    <2>4. VerdictOK'
      BY <1>2, <2>1, <2>2 DEF VerdictOK, LoadVerdict
    <2>5. CountOK' /\ SelectOK'
      BY <2>1 DEF CountOK, SelectOK, SelectionIsDescendants
    <2>6. QED
      BY <1>1, <2>1, <2>3, <2>4, <2>5 DEF DefInv, Phases
  <1>5. CASE GraphErrors(def) = {}
    <2>1. /\ phase' = "sorting" /\ indegree' = Indegrees(def)
          /\ ready' = {id \in Ids(def) : Indegrees(def)[id] = 0}
      BY <1>5 DEF Validate
    <2>2. /\ indegree' \in [Ids(def) -> Nat]
          /\ \A id \in Ids(def) : indegree'[id] = Cardinality(Missing(id, {}))
      BY <1>1, <2>1, CountsAtStart
    <2>3. CountsMissing(Placed)'
      BY <1>1, <1>2, <1>3, <2>2 DEF CountsMissing
    <2>4. \A id \in Ids(def) : Indegrees(def)[id] = 0 <=> Range(Deps(id)) \subseteq {}
      BY <1>1, <2>1, <2>2, CountZero
    <2>5. ready' = Available({})
      BY <2>1, <2>4 DEF Available, Deps
    <2>6. ready' = Available(Placed)'
      <3>1. Available({})' = Available(Placed)'
        BY <1>3 DEF Available
      <3>2. QED
        BY <1>2, <2>5, <3>1
    <2>7. SortOK'
      BY <1>3, <2>1, <2>3, <2>6 DEF SortOK, AfterLoad
    <2>8. VerdictOK'
      BY <1>1, <1>5, <2>1 DEF VerdictOK, LoadVerdict, Phases
    <2>9. CountOK' /\ SelectOK'
      BY <2>1 DEF CountOK, SelectOK, SelectionIsDescendants
    <2>10. QED
      BY <1>1, <2>1, <2>7, <2>8, <2>9 DEF DefInv, Phases
  <1>6. QED
    BY <1>4, <1>5

\* A round of stableTopologicalSort.
LEMMA PlaceKeeps ==
  ASSUME DefInv, Place
  PROVE  DefInv'
  <1>1. /\ def \in Definitions /\ phase = "sorting" /\ ready # {} /\ SortOK /\ VerdictOK
        /\ CountsMissing(Placed) /\ ready = Available(Placed)
        /\ order \in Seq(Ids(def)) /\ \A k \in 1..Len(order) : PlaceOK(k)
        /\ UNCHANGED <<def, phase, errors, root, selected, queue>>
    BY DEF DefInv, SortOK, Place
  <1>2. PICK current : current = FirstInFile(ready)
    OBVIOUS
  <1>3. /\ order' = Append(order, current) /\ indegree' = Decrement(current)
        /\ ready' = (ready \ {current}) \cup Release(current)
    BY <1>2 DEF Place
  <1>4. /\ current \in ready /\ current \in Ids(def) /\ current \notin Placed
        /\ \A id \in ready : IndexOf(def, current) <= IndexOf(def, id)
    <2>1. ready \in SUBSET Ids(def) /\ ready \cap Placed = {}
      BY <1>1 DEF Available
    <2>2. QED
      BY <1>1, <1>2, <2>1, FirstIsFirst
  <1>5. PICK placed : placed = Placed
    OBVIOUS
  <1>6. Downward(placed) /\ CountsMissing(placed) /\ current \in Available(placed)
    BY <1>1, <1>4, <1>5, OrderFacts
  <1>7. PICK n \in Nat : n = Len(order) + 1
    BY <1>1
  <1>8. /\ order' \in Seq(Ids(def)) /\ Len(order') = n /\ order'[n] = current
        /\ \A k \in 1..Len(order) : order'[k] = order[k]
    BY <1>1, <1>3, <1>4, <1>7, AppendProperties
  <1>9. Len(order) \in Nat /\ \A k \in 1..n : k = n \/ k \in 1..Len(order)
    <2>1. Len(order) \in Nat /\ n = Len(order) + 1
      BY <1>1, <1>7
    <2>2. QED
      BY <2>1
  <1>10. Placed' = placed \cup {current}
    <2>1. Placed = {order[k] : k \in 1..Len(order)} /\ DOMAIN order' = 1..n
      BY <1>1, <1>8 DEF Placed, Range
    <2>2. Placed' = {order'[k] : k \in 1..n}
      BY <2>1 DEF Placed, Range
    <2>3. n \in 1..n /\ \A k \in 1..Len(order) : k \in 1..n
      BY <1>7, <1>9
    <2>4. QED
      BY <1>5, <1>8, <1>9, <2>1, <2>2, <2>3
  <1>11. /\ \A S : Available(S)' = Available(S)
         /\ \A id, S : Missing(id, S)' = Missing(id, S)
         /\ Sound' = Sound
    BY <1>1, DefStays
  <1>12. CountsMissing(Placed)'
    <2>1. /\ Decrement(current) \in [Ids(def) -> Nat]
          /\ \A id \in Ids(def) :
                Decrement(current)[id] = Cardinality(Missing(id, placed \cup {current}))
      BY <1>1, <1>4, <1>5, <1>6, DecrementCounts
    <2>2. QED
      BY <1>1, <1>3, <1>10, <1>11, <2>1 DEF CountsMissing
  <1>13. ready' = Available(Placed)'
    <2>1. ready' = Available(placed \cup {current})
      BY <1>1, <1>3, <1>5, <1>6, ReleasedAvailable
    <2>2. Available(placed \cup {current})' = Available(Placed)'
      BY <1>10 DEF Available
    <2>3. QED
      BY <1>11, <2>1, <2>2
  <1>14. ASSUME NEW k \in 1..n PROVE PlaceOK(k)'
    <2>1. CASE k \in 1..Len(order)
      <3>1. PlaceOK(k) /\ \A j \in 1..(k - 1) : j \in 1..Len(order)
        BY <1>1, <1>9, <2>1
      <3>2. Before(k)' = Before(k)
        BY <1>8, <3>1 DEF Before
      <3>3. Available(Before(k))' = Available(Before(k))
        BY <1>1, <3>2 DEF Available
      <3>4. QED
        BY <1>1, <1>8, <2>1, <3>1, <3>3 DEF PlaceOK
    <2>2. CASE k = n
      <3>1. 1..(k - 1) = 1..Len(order)
        BY <1>7, <1>9, <2>2
      <3>2. Before(k)' = placed
        <4>1. Before(k)' = {order'[j] : j \in 1..Len(order)}
          BY <3>1 DEF Before
        <4>2. Placed = {order[j] : j \in 1..Len(order)}
          BY <1>1 DEF Placed, Range
        <4>3. QED
          BY <1>5, <1>8, <4>1, <4>2
      <3>3. Available(Before(k))' = ready
        <4>1. Available(Before(k))' = Available(placed)'
          BY <3>2 DEF Available
        <4>2. QED
          BY <1>1, <1>5, <1>11, <4>1
      <3>4. QED
        BY <1>1, <1>4, <1>8, <2>2, <3>3 DEF PlaceOK
    <2>3. QED
      BY <1>9, <2>1, <2>2
  <1>15. SortOK'
    BY <1>1, <1>8, <1>12, <1>13, <1>14 DEF SortOK, AfterLoad
  <1>16. VerdictOK'
    BY <1>1, <1>11 DEF VerdictOK, LoadVerdict
  <1>17. CountOK' /\ SelectOK'
    BY <1>1 DEF CountOK, SelectOK, SelectionIsDescendants
  <1>18. QED
    BY <1>1, <1>15, <1>16, <1>17 DEF DefInv

\* The end of the sort, and the verdict.
LEMMA SortEndsKeeps ==
  ASSUME DefInv, SortEnds
  PROVE  DefInv'
  <1>1. /\ def \in Definitions /\ phase = "sorting" /\ ready = {} /\ SortOK
        /\ errors = SemanticErrors(def)
        /\ UNCHANGED <<def, indegree, ready, order, root, selected, queue>>
        /\ errors' = errors \cup {code \in {"CYCLE_DETECTED"} : CyclicNodeIds # {}}
        /\ phase' = IF errors' = {} THEN "loaded" ELSE "rejected"
    BY DEF DefInv, VerdictOK, SortEnds
  <1>2. /\ CyclicNodeIds = {} <=> Placed = Ids(def)
        /\ CyclicNodeIds = {} <=> ~HasCycle
    BY <1>1, SortEndsRight
  <1>3. errors' = {} <=> errors = {} /\ CyclicNodeIds = {}
    BY <1>1
  <1>4. errors' = {} <=> Sound
    BY <1>1, <1>2, <1>3, SoundTells
  <1>5. Sound' = Sound
    BY <1>1, DefStays
  <1>6. SortOK'
    BY <1>1, <1>2, <1>3, OrderStays DEF AfterLoad
  <1>7. VerdictOK'
    BY <1>1, <1>4, <1>5 DEF VerdictOK, LoadVerdict
  <1>8. CountOK' /\ SelectOK'
    BY <1>1 DEF CountOK, SelectOK, SelectionIsDescendants
  <1>9. QED
    BY <1>1, <1>6, <1>7, <1>8 DEF DefInv, Phases

\* A step after the load keeps the order and the verdict.
LEMMA LoadedKeeps ==
  ASSUME DefInv, UNCHANGED <<def, order>>, phase \in AfterLoad, phase' \in AfterLoad
  PROVE  SortOK' /\ VerdictOK'
  <1>1. SortOK /\ Placed = Ids(def) /\ Sound
    BY LoadedFacts DEF DefInv
  <1>2. SortOK'
    BY <1>1, OrderStays DEF AfterLoad
  <1>3. Sound'
    BY <1>1, DefStays
  <1>4. VerdictOK'
    BY <1>3 DEF VerdictOK, LoadVerdict, AfterLoad
  <1>5. QED
    BY <1>2, <1>4

\* --rerun-from: the checks of the snapshot refuse only a node it does not have.
LEMMA RerunFromKeeps ==
  ASSUME DefInv, NEW id, RerunFrom(id)
  PROVE  DefInv'
  <1>1. /\ def \in Definitions /\ phase = "loaded" /\ phase \in AfterLoad
        /\ UNCHANGED <<def, errors, order>> /\ root' = {id}
    BY DEF DefInv, RerunFrom, AfterLoad, Phases
  <1>2. ~SnapshotInvalid
    BY <1>1, LoadedFacts DEF SnapshotInvalid
  <1>3. CASE id \notin Ids(def)
    <2>1. phase' = "refused"
      BY <1>3 DEF RerunFrom
    <2>2. SortOK' /\ VerdictOK'
      BY <1>1, <2>1, LoadedKeeps DEF AfterLoad, Phases
    <2>3. CountOK' /\ SelectOK'
      BY <1>1, <1>3, <2>1 DEF CountOK, SelectOK, SelectionIsDescendants
    <2>4. QED
      BY <1>1, <2>1, <2>2, <2>3 DEF DefInv, Phases
  <1>4. CASE id \in Ids(def)
    <2>1. /\ phase' = "counting" /\ indegree' = Indegrees(def) /\ selected' = {}
          /\ queue' = {n \in Ids(def) : Indegrees(def)[n] = 0}
      BY <1>2, <1>4 DEF RerunFrom
    <2>2. SortOK' /\ VerdictOK'
      BY <1>1, <2>1, LoadedKeeps DEF AfterLoad, Phases
    <2>3. /\ \A S : Available(S)' = Available(S)
          /\ \A n, S : Missing(n, S)' = Missing(n, S)
          /\ \A S : Downward(S)' = Downward(S)
      BY <1>1, DefStays
    <2>4. /\ indegree' \in [Ids(def) -> Nat]
          /\ \A n \in Ids(def) : indegree'[n] = Cardinality(Missing(n, {}))
      BY <1>1, <2>1, CountsAtStart
    <2>5. CountsMissing(selected)'
      BY <1>1, <2>1, <2>3, <2>4 DEF CountsMissing
    <2>6. \A n \in Ids(def) : Indegrees(def)[n] = 0 <=> Range(Deps(n)) \subseteq {}
      BY <1>1, <2>1, <2>4, CountZero
    <2>7. queue' = Available({})
      BY <2>1, <2>6 DEF Available, Deps
    <2>8. queue' = Available(selected)'
      <3>1. Available({})' = Available(selected)'
        BY <2>1 DEF Available
      <3>2. QED
        BY <2>3, <2>7, <3>1
    <2>9. Downward(selected)'
      BY <2>1 DEF Downward
    <2>10. CountOK'
      BY <1>1, <1>4, <2>5, <2>8, <2>9 DEF CountOK
    <2>11. SelectOK'
      BY <2>1 DEF SelectOK, SelectionIsDescendants
    <2>12. QED
      BY <1>1, <2>1, <2>2, <2>10, <2>11 DEF DefInv, Phases
  <1>5. QED
    BY <1>3, <1>4

\* A round of the count.
LEMMA CountVisitKeeps ==
  ASSUME DefInv, CountVisit
  PROVE  DefInv'
  <1>1. /\ def \in Definitions /\ phase = "counting" /\ phase \in AfterLoad
        /\ UNCHANGED <<def, phase, errors, ready, order, root>>
        /\ CountsMissing(selected) /\ Downward(selected) /\ queue = Available(selected)
        /\ root \subseteq Ids(def)
    BY DEF DefInv, CountOK, CountVisit, AfterLoad, Phases
  <1>2. PICK current \in queue :
          /\ indegree' = Decrement(current)
          /\ queue' = (queue \ {current}) \cup Release(current)
          /\ selected' = selected \cup {current}
    BY DEF CountVisit
  <1>3. PICK placed : placed = selected
    OBVIOUS
  <1>4. /\ CountsMissing(placed) /\ Downward(placed) /\ current \in Available(placed)
        /\ current \notin placed
    BY <1>1, <1>3 DEF Available
  <1>5. /\ \A S : Available(S)' = Available(S)
        /\ \A n, S : Missing(n, S)' = Missing(n, S)
        /\ \A S : Downward(S)' = Downward(S)
    BY <1>1, DefStays
  <1>6. CountsMissing(selected)'
    <2>1. /\ Decrement(current) \in [Ids(def) -> Nat]
          /\ \A n \in Ids(def) :
                Decrement(current)[n] = Cardinality(Missing(n, placed \cup {current}))
      BY <1>1, <1>4, DecrementCounts
    <2>2. QED
      BY <1>1, <1>2, <1>3, <1>5, <2>1 DEF CountsMissing
  <1>7. /\ queue' = Available(placed \cup {current}) /\ Downward(placed \cup {current})
    BY <1>1, <1>2, <1>3, <1>4, ReleasedAvailable
  <1>8. /\ Available(placed \cup {current})' = Available(selected)'
        /\ Downward(placed \cup {current})' = Downward(selected)'
    <2>1. selected' = placed \cup {current}
      BY <1>2, <1>3
    <2>2. Available(placed \cup {current})' = Available(selected)'
      BY <2>1 DEF Available
    <2>3. Downward(placed \cup {current})' = Downward(selected)'
      BY <2>1 DEF Downward
    <2>4. QED
      BY <2>2, <2>3
  <1>9. CountOK'
    BY <1>1, <1>5, <1>6, <1>7, <1>8 DEF CountOK
  <1>10. SelectOK'
    BY <1>1 DEF SelectOK, SelectionIsDescendants
  <1>11. SortOK' /\ VerdictOK'
    BY <1>1, LoadedKeeps
  <1>12. QED
    BY <1>1, <1>9, <1>10, <1>11 DEF DefInv

\* The count of a loaded definition finds every node.
LEMMA CountEndsKeeps ==
  ASSUME DefInv, CountEnds
  PROVE  DefInv'
  <1>1. /\ def \in Definitions /\ phase = "counting" /\ phase \in AfterLoad /\ queue = {}
        /\ UNCHANGED <<def, errors, indegree, ready, order, root>>
        /\ Available(selected) = {} /\ selected \subseteq Ids(def) /\ root \subseteq Ids(def)
    BY DEF DefInv, CountOK, Downward, CountEnds, AfterLoad, Phases
  <1>2. GraphErrors(def) = {} /\ ~HasCycle
    BY <1>1, LoadedFacts
  <1>3. selected = Ids(def)
    <2>1. ASSUME NEW id \in Ids(def), id \notin selected PROVE FALSE
      BY <1>1, <1>2, <2>1, StuckIsCycle
    <2>2. QED
      BY <1>1, <2>1
  <1>4. Cardinality(selected) = Len(def.nodes)
    BY <1>2, <1>3 DEF GraphErrors
  <1>5. phase' = "selecting" /\ selected' = root /\ queue' = root
    BY <1>4 DEF CountEnds
  <1>6. \A S, T : IsClosed(S, T)' = IsClosed(S, T)
    BY <1>1, DefStays
  <1>7. SelectedOK'
    <2>1. \A ids \in SUBSET Ids(def) : IsClosed(root, ids)' => root \subseteq ids
      BY <1>1 DEF IsClosed
    <2>2. QED
      BY <1>1, <1>5, <2>1 DEF SelectedOK
  <1>8. SelectOK'
    BY <1>5, <1>7 DEF SelectOK, SelectionIsDescendants
  <1>9. CountOK' /\ SortOK' /\ VerdictOK'
    BY <1>1, <1>5, LoadedKeeps DEF CountOK, AfterLoad, Phases
  <1>10. QED
    BY <1>1, <1>5, <1>8, <1>9 DEF DefInv, Phases

\* Adding nodes that depend on selected ones stays within every closed set.
LEMMA MoreSelected ==
  ASSUME SelectedOK, UNCHANGED <<def, root>>, NEW new \in SUBSET Ids(def),
         \A id \in new : Range(Deps(id)) \cap selected # {}, selected' = selected \cup new
  PROVE  SelectedOK'
  <1>1. ASSUME NEW ids \in SUBSET Ids(def), IsClosed(root, ids) PROVE new \subseteq ids
    <2>1. selected \subseteq ids
      BY <1>1 DEF SelectedOK
    <2>2. QED
      BY <1>1, <2>1 DEF IsClosed, Deps
  <1>2. ASSUME NEW ids \in SUBSET Ids(def), IsClosed(root, ids)' PROVE selected' \subseteq ids
    <2>1. IsClosed(root, ids)
      BY <1>2 DEF IsClosed
    <2>2. QED
      BY <1>1, <2>1 DEF SelectedOK
  <1>3. root' \subseteq selected' /\ selected' \subseteq Ids(def)
    BY DEF SelectedOK
  <1>4. QED
    BY <1>2, <1>3 DEF SelectedOK

\* A round of the search for dependents.
LEMMA SelectDescendantsKeeps ==
  ASSUME DefInv, SelectDescendants
  PROVE  DefInv'
  <1>1. /\ def \in Definitions /\ phase = "selecting" /\ phase \in AfterLoad
        /\ UNCHANGED <<def, phase, errors, indegree, ready, order, root>>
        /\ SelectedOK /\ queue \subseteq selected /\ selected \subseteq Ids(def)
        /\ \A id \in selected \ queue : Dependents(def, id) \subseteq selected
    BY DEF DefInv, SelectOK, SelectedOK, SelectDescendants, AfterLoad, Phases
  <1>2. PICK current \in queue : /\ selected' = selected \cup New(current)
                                 /\ queue' = (queue \ {current}) \cup New(current)
    BY DEF SelectDescendants
  <1>3. PICK new \in SUBSET Ids(def) : new = New(current)
    BY DEF New, Dependents
  <1>4. \A id \in new : Range(Deps(id)) \cap selected # {}
    BY <1>1, <1>3 DEF New, Dependents, Deps
  <1>5. SelectedOK'
    BY <1>1, <1>2, <1>3, <1>4, MoreSelected
  <1>6. /\ queue' \subseteq selected'
        /\ \A id \in selected' \ queue' : Dependents(def, id) \subseteq selected'
    BY <1>1, <1>2 DEF New
  <1>7. SelectOK'
    BY <1>1, <1>5, <1>6 DEF SelectOK, SelectionIsDescendants
  <1>8. CountOK' /\ SortOK' /\ VerdictOK'
    BY <1>1, LoadedKeeps DEF CountOK
  <1>9. QED
    BY <1>1, <1>7, <1>8 DEF DefInv

\* A search that has ended: the least closed set.
LEMMA SelectedAtEnd ==
  ASSUME DefInv, phase \in {"selecting", "holding"}, IsClosed(root, selected),
         phase' = "selected",
         UNCHANGED <<def, errors, indegree, ready, order, root, selected, queue>>
  PROVE  DefInv'
  <1>1. def \in Definitions /\ phase \in AfterLoad /\ phase' \in AfterLoad /\ SelectedOK
    BY DEF DefInv, SelectOK, AfterLoad, Phases
  <1>2. \A S, T : IsClosed(S, T)' = IsClosed(S, T)
    BY DefStays
  <1>3. IsClosed(root, selected)' = IsClosed(root, selected)
    BY DEF IsClosed
  <1>4. \A ids : IsClosed(root, ids)' = IsClosed(root, ids)
    BY DEF IsClosed
  <1>5. SelectOK'
    BY <1>1, <1>3, <1>4 DEF SelectOK, SelectionIsDescendants, SelectedOK
  <1>6. CountOK' /\ SortOK' /\ VerdictOK'
    BY <1>1, LoadedKeeps DEF CountOK
  <1>7. QED
    BY <1>1, <1>5, <1>6 DEF DefInv, Phases

\* The end of a selection keeps the invariant: what is selected is the reachable set.
LEMMA SelectionEndsKeeps ==
  ASSUME DefInv, SelectionEnds
  PROVE  DefInv'
  <1>1. /\ SelectedOK /\ queue = {}
        /\ \A id \in selected : Dependents(def, id) \subseteq selected
    BY DEF DefInv, SelectOK, SelectionEnds
  <1>2. ASSUME NEW id \in Ids(def), Range(NodeOf(def, id).depends_on) \cap selected # {}
        PROVE  id \in selected
    <2>1. PICK d \in selected : d \in Range(NodeOf(def, id).depends_on)
      BY <1>2
    <2>2. id \in Dependents(def, d)
      BY <2>1 DEF Dependents
    <2>3. QED
      BY <1>1, <2>2
  <1>3. IsClosed(root, selected)
    BY <1>1, <1>2 DEF IsClosed, SelectedOK
  <1>4. QED
    BY <1>3, SelectedAtEnd DEF SelectionEnds

\* The start of holding back keeps the invariant: the roots are held.
LEMMA HoldBackKeeps ==
  ASSUME DefInv, NEW roots \in SUBSET Ids(def), HoldBack(roots)
  PROVE  DefInv'
  <1>1. /\ def \in Definitions /\ phase = "loaded" /\ phase \in AfterLoad /\ phase' = "holding"
        /\ UNCHANGED <<def, errors, indegree, ready, order, queue>>
        /\ root' = roots /\ selected' = roots
    BY DEF DefInv, HoldBack, AfterLoad, Phases
  <1>2. SelectedOK'
    <2>1. \A ids : IsClosed(root, ids)' => roots \subseteq ids
      BY <1>1 DEF IsClosed
    <2>2. QED
      BY <1>1, <2>1 DEF SelectedOK
  <1>3. SelectOK'
    BY <1>1, <1>2 DEF SelectOK, SelectionIsDescendants
  <1>4. CountOK' /\ SortOK' /\ VerdictOK'
    BY <1>1, LoadedKeeps DEF CountOK, AfterLoad, Phases
  <1>5. QED
    BY <1>1, <1>3, <1>4 DEF DefInv, Phases

\* A node held back keeps the invariant: it is reachable from a root.
LEMMA HoldNodeKeeps ==
  ASSUME DefInv, HoldNode
  PROVE  DefInv'
  <1>1. /\ def \in Definitions /\ phase = "holding" /\ phase \in AfterLoad /\ SelectedOK
        /\ UNCHANGED <<def, phase, errors, indegree, ready, order, root, queue>>
    BY DEF DefInv, SelectOK, HoldNode, AfterLoad, Phases
  <1>2. PICK id \in Behind : selected' = selected \cup {id}
    BY DEF HoldNode
  <1>3. {id} \in SUBSET Ids(def) /\ Range(Deps(id)) \cap selected # {}
    BY DEF Behind, Deps
  <1>4. SelectedOK'
    BY <1>1, <1>2, <1>3, MoreSelected
  <1>5. SelectOK'
    BY <1>1, <1>4 DEF SelectOK, SelectionIsDescendants
  <1>6. CountOK' /\ SortOK' /\ VerdictOK'
    BY <1>1, LoadedKeeps DEF CountOK
  <1>7. QED
    BY <1>1, <1>5, <1>6 DEF DefInv

\* The end of holding back keeps the invariant: nothing reachable is left out.
LEMMA HoldEndsKeeps ==
  ASSUME DefInv, HoldEnds
  PROVE  DefInv'
  <1>1. SelectedOK /\ Behind = {}
    BY DEF DefInv, SelectOK, HoldEnds
  <1>2. IsClosed(root, selected)
    BY <1>1 DEF IsClosed, SelectedOK, Behind
  <1>3. QED
    BY <1>2, SelectedAtEnd DEF HoldEnds

\* The calls of run-network do not touch the definition.
LEMMA DefUntouched ==
  ASSUME DefInv, UNCHANGED defVars
  PROVE  DefInv'
  <1>1. /\ \A S : Available(S)' = Available(S)
        /\ Sound' = Sound /\ def' = def /\ phase' = phase
    BY DefStays DEF defVars
  <1>2. /\ \A k : Before(k)' = Before(k)
        /\ Placed' = Placed /\ Available(Placed)' = Available(Placed)
        /\ CountsMissing(Placed)' = CountsMissing(Placed)
    BY DEF defVars, Before, Placed, Available, CountsMissing, Missing, Deps
  <1>3. \A k : PlaceOK(k)' = PlaceOK(k)
    BY DEF defVars, PlaceOK, Available, Before
  <1>4. SortOK'
    BY <1>1, <1>2, <1>3 DEF DefInv, SortOK, defVars
  <1>5. VerdictOK'
    BY <1>1 DEF DefInv, VerdictOK, LoadVerdict, defVars
  <1>6. CountOK'
    BY DEF DefInv, CountOK, CountsMissing, Missing, Deps, Downward, Available, defVars
  <1>7. SelectedOK' = SelectedOK /\ SelectionIsDescendants' = SelectionIsDescendants
    BY DEF SelectedOK, SelectionIsDescendants, IsClosed, defVars
  <1>8. SelectOK'
    BY <1>1, <1>7 DEF DefInv, SelectOK, defVars
  <1>9. QED
    BY <1>1, <1>4, <1>5, <1>6, <1>8 DEF DefInv

\* Every step of the definition's loops keeps the invariant.
LEMMA DefStep ==
  ASSUME DefInv, [Next]_vars
  PROVE  DefInv'
  <1>1. CASE DefNext
    <2>1. CASE Validate \/ Place \/ SortEnds
      BY <2>1, ValidateKeeps, PlaceKeeps, SortEndsKeeps
    <2>2. CASE \E id \in NodeIds : RerunFrom(id)
      BY <2>2, RerunFromKeeps
    <2>3. CASE CountVisit \/ CountEnds \/ SelectDescendants \/ SelectionEnds
      BY <2>3, CountVisitKeeps, CountEndsKeeps, SelectDescendantsKeeps, SelectionEndsKeeps
    <2>4. CASE \E roots \in (SUBSET Ids(def)) \ {{}} : HoldBack(roots)
      BY <2>4, HoldBackKeeps
    <2>5. CASE HoldNode \/ HoldEnds
      BY <2>5, HoldNodeKeeps, HoldEndsKeeps
    <2>6. QED
      BY <1>1, <2>1, <2>2, <2>3, <2>4, <2>5 DEF DefNext
  <1>2. CASE UNCHANGED defVars
    BY <1>2, DefUntouched
  <1>3. QED
    BY <1>1, <1>2 DEF Next, vars, defVars, Call, LockConflict, Admit, Finish, ArchiveRun

\* The invariant of the loops holds at the start.
LEMMA DefStarts ==
  ASSUME Init
  PROVE  DefInv
  <1>1. def \in Definitions /\ phase = "read" /\ order = <<>>
    BY DEF Init, DefInit
  <1>2. SortOK
    BY <1>1 DEF SortOK, AfterLoad
  <1>3. VerdictOK
    BY <1>1 DEF VerdictOK, LoadVerdict
  <1>4. CountOK /\ SelectOK
    BY <1>1 DEF CountOK, SelectOK, SelectionIsDescendants
  <1>5. QED
    BY <1>1, <1>2, <1>3, <1>4 DEF DefInv, Phases

\* What the loops over a definition keep true holds in every reachable state.
THEOREM DefinitionInvariant == Spec => []DefInv
  <1>1. Init => DefInv
    BY DefStarts
  <1>2. DefInv /\ [Next]_vars => DefInv'
    BY DefStep
  <1>3. QED
    BY <1>1, <1>2, PTL DEF Spec

\* Of any definition, with repeated dependencies and cycles or not, the order of
\* stableTopologicalSort is the one its text determines, and a definition that is
\* loaded has all its nodes in it.
THEOREM DefinitionOrder == Spec => []OrderIsStable
  <1>1. DefInv => OrderIsStable
    <2> SUFFICES ASSUME DefInv PROVE OrderIsStable
      OBVIOUS
    <2>1. DOMAIN order = 1..Len(order) /\ \A k \in 1..Len(order) : PlaceOK(k)
      BY DEF DefInv, SortOK
    <2>2. phase \in AfterLoad => Placed = Ids(def)
      BY DEF DefInv, SortOK
    <2>3. QED
      BY <2>1, <2>2 DEF OrderIsStable, PlaceOK, Before, AfterLoad
  <1>2. QED
    BY <1>1, DefinitionInvariant, PTL

\* Any definition that passes the schema is loaded if it is sound and rejected if
\* it is not: semanticErrors and the cycles of stableTopologicalSort.
THEOREM DefinitionVerdict == Spec => []LoadVerdict
  <1>1. DefInv => LoadVerdict
    BY DEF DefInv, VerdictOK
  <1>2. QED
    BY <1>1, DefinitionInvariant, PTL

\* What --rerun-from resets and what is held back behind excluded nodes is the
\* roots with everything that depends on them, in any graph.
THEOREM DefinitionSelection == Spec => []SelectionIsDescendants
  <1>1. DefInv => SelectionIsDescendants
    BY DEF DefInv, SelectOK
  <1>2. QED
    BY <1>1, DefinitionInvariant, PTL

-----------------------------------------------------------------------------
(* Admission *)

Active(k) == runs[k].lifecycle_status = "ACTIVE" /\ runs[k].status # "SUCCESS"
ActiveRuns == {k \in DOMAIN runs : Active(k)}

RunRecord == [status : {"CREATED", "RUNNING", "SUCCESS", "FAILED"},
              lifecycle_status : {"ACTIVE", "ARCHIVED"}]

\* A key that stands for a period is the one the policy makes of it.
PeriodKey(t, k) == t \in Nat /\ PolicyOK /\ k = FormatKey(def.policy, t)

CallerOK(p) ==
    /\ DOMAIN proc[p] = {"pc", "key", "resume", "period"}
    /\ proc[p].pc \in {"idle", "resolved", "working"}
    /\ proc[p].pc # "idle" =>
          /\ proc[p].key = {Key(p)}
          /\ \A t \in proc[p].period : PeriodKey(t, Key(p))
    /\ proc[p].pc = "working" =>
          holder = {p} /\ Key(p) \in DOMAIN runs /\ Active(Key(p))

RunsOK == IsFiniteSet(DOMAIN runs) /\ \A k \in DOMAIN runs : runs[k] \in RunRecord

ServedOK == \A s \in served : PeriodKey(s.at, s.key)

AdmInv ==
    /\ def \in Definitions /\ DOMAIN proc = Callers
    /\ RunsOK /\ ServedOK /\ ActiveRunsBounded
    /\ \A p \in Callers : CallerOK(p)

\* What Call finds for a call with a key, an instant or neither: no key or one,
\* and for an instant the key of its period.
LEMMA ResolvedKey ==
  ASSUME def \in Definitions, NEW c \in CallsPossible, NEW resolved, NEW k,
         resolved = ResolveEnsureBusinessKey(def.policy, c, calls), k \in resolved.keys
  PROVE  /\ resolved.keys = {k}
         /\ c.businessKey = {} => \A t \in c.scheduledFor : PeriodKey(t, k)
  <1>1. /\ c.scheduledFor = {} \/ \E t \in Instants \cup {Garbled} : c.scheduledFor = {t}
        /\ Instants \subseteq Nat
    BY AdmissionAssumption DEF CallsPossible, Option, NoCall
  <1> DEFINE given == IF c.businessKey # {} THEN c.businessKey
                      ELSE IF ~c.resume /\ c.scheduledFor = {} THEN {ManualKey(calls)} ELSE {}
             key == CHOOSE x \in given : TRUE
             instant == CHOOSE t \in c.scheduledFor : TRUE
             checked == IF given = {} THEN FormatKey(def.policy, instant) ELSE key
  <1>2. resolved = ResolveBusinessKey(def.policy, c.scheduledFor, given)
    BY DEF ResolveEnsureBusinessKey
  <1>3. /\ c.businessKey = {} /\ c.scheduledFor # {} => given = {}
    OBVIOUS
  <1> HIDE DEF given
  <1>4. /\ resolved = Checked(checked)
        /\ given = {} => /\ c.scheduledFor # {} /\ Garbled \notin c.scheduledFor
                         /\ ValidateScheduledPeriodPolicy(def.policy) = {}
                         /\ def.policy.type # "explicit"
    <2>1. \A e : k \notin Refused(e).keys
      BY DEF Refused
    <2>2. CASE def.policy.type = "explicit"
      BY <1>2, <2>1, <2>2 DEF ResolveBusinessKey
    <2>3. CASE def.policy.type # "explicit"
      BY <1>2, <2>1, <2>3 DEF ResolveBusinessKey
    <2>4. QED
      BY <2>2, <2>3
  <1>5. k = checked /\ resolved.keys = {k}
    <2> HIDE DEF checked
    <2>1. QED
      BY <1>4 DEF Checked
  <1>6. ASSUME c.businessKey = {}, NEW t \in c.scheduledFor PROVE PeriodKey(t, k)
    <2>1. given = {} /\ c.scheduledFor = {t} /\ instant = t
      BY <1>1, <1>3, <1>6
    <2>2. t \in Nat
      BY <1>1, <1>4, <2>1
    <2>3. PolicyOK
      BY <1>4, <2>1, DefinitionsAssumption DEF PolicyOK, PolicyEntry
    <2>4. QED
      BY <1>5, <2>1, <2>2, <2>3 DEF PeriodKey
  <1>7. QED
    BY <1>5, <1>6

\* What a step of one caller leaves to the others.
LEMMA OtherCallers ==
  ASSUME AdmInv, NEW p \in Callers, NEW q \in Callers, q # p,
         DOMAIN proc' = Callers, proc'[q] = proc[q], def' = def,
         proc[q].pc = "working" => holder' = holder /\ runs' = runs
  PROVE  CallerOK(q)'
  <1>1. CallerOK(q) /\ Key(q)' = Key(q)
    BY DEF AdmInv, Key
  <1>2. ASSUME NEW t, NEW k PROVE PeriodKey(t, k)' = PeriodKey(t, k)
    BY DEF PeriodKey, PolicyOK
  <1>3. QED
    BY <1>1, <1>2 DEF CallerOK, Active

\* A call of run-network resolves its key and keeps the invariant of admission.
LEMMA CallKeeps ==
  ASSUME AdmInv, NEW p \in Callers, NEW c \in CallsPossible, Call(p, c)
  PROVE  AdmInv'
  <1> DEFINE resolved == IF c.resumeRun # {} THEN [keys |-> c.resumeRun, errors |-> {}]
                         ELSE ResolveEnsureBusinessKey(def.policy, c, calls)
             r == IF resolved.keys = {} THEN Idle
                  ELSE [pc |-> "resolved", key |-> resolved.keys,
                        resume |-> c.resume \/ c.resumeRun # {},
                        period |-> IF c.businessKey = {} THEN c.scheduledFor ELSE {}]
  <1>1. /\ UNCHANGED <<def, runs, holder, served>> /\ proc' = [proc EXCEPT ![p] = r]
        /\ def \in Definitions /\ DOMAIN proc = Callers /\ proc'[p] = r /\ DOMAIN proc' = Callers
        /\ \A q \in Callers \ {p} : proc'[q] = proc[q]
    BY DEF Call, AdmInv
  <1>2. ASSUME NEW k \in resolved.keys
        PROVE  /\ resolved.keys = {k}
               /\ c.businessKey = {} => \A t \in c.scheduledFor : PeriodKey(t, k)
    <2>1. CASE c.resumeRun # {}
      BY <1>2, <2>1 DEF CallsPossible, NoCall
    <2>2. CASE c.resumeRun = {}
      BY <1>1, <1>2, <2>2, ResolvedKey
    <2>3. QED
      BY <2>1, <2>2
  <1> HIDE DEF resolved
  <1>3. ASSUME NEW t, NEW k PROVE PeriodKey(t, k)' = PeriodKey(t, k)
    BY <1>1 DEF PeriodKey, PolicyOK
  <1>4. CallerOK(p)'
    <2>1. CASE resolved.keys = {}
      BY <1>1, <2>1 DEF CallerOK, Idle
    <2>2. CASE resolved.keys # {}
      <3>1. PICK k \in resolved.keys : resolved.keys = {k}
        BY <1>2, <2>2
      <3>2. r.key = {k} /\ r.pc = "resolved" /\ DOMAIN r = {"pc", "key", "resume", "period"}
            /\ \A t \in r.period : PeriodKey(t, k)
        BY <1>2, <2>2, <3>1
      <3> HIDE DEF r
      <3>3. Key(p)' = k
        BY <1>1, <3>2 DEF Key
      <3>4. QED
        BY <1>1, <1>3, <3>2, <3>3 DEF CallerOK
    <2>3. QED
      BY <2>1, <2>2
  <1>5. ASSUME NEW q \in Callers \ {p} PROVE CallerOK(q)'
    BY <1>1, OtherCallers
  <1>6. RunsOK' /\ ServedOK' /\ ActiveRunsBounded'
    BY <1>1, <1>3 DEF AdmInv, RunsOK, ServedOK, ActiveRunsBounded
  <1>7. QED
    BY <1>1, <1>4, <1>5, <1>6 DEF AdmInv

\* A call that finds the lock taken keeps the invariant of admission.
LEMMA LockConflictKeeps ==
  ASSUME AdmInv, NEW p \in Callers, LockConflict(p)
  PROVE  AdmInv'
  <1>1. /\ UNCHANGED <<def, runs, holder, served>> /\ proc' = [proc EXCEPT ![p] = Idle]
        /\ def \in Definitions /\ DOMAIN proc = Callers
    BY DEF LockConflict, AdmInv
  <1>2. /\ proc'[p] = Idle /\ DOMAIN proc' = Callers
        /\ \A q \in Callers \ {p} : proc'[q] = proc[q]
    BY <1>1
  <1>3. ASSUME NEW t, NEW k PROVE PeriodKey(t, k)' = PeriodKey(t, k)
    BY <1>1 DEF PeriodKey, PolicyOK
  <1>4. CallerOK(p)'
    BY <1>2 DEF CallerOK, Idle
  <1>5. ASSUME NEW q \in Callers \ {p} PROVE CallerOK(q)'
    BY <1>1, <1>2, OtherCallers
  <1>6. RunsOK' /\ ServedOK' /\ ActiveRunsBounded'
    BY <1>1, <1>3 DEF AdmInv, RunsOK, ServedOK, ActiveRunsBounded
  <1>7. QED
    BY <1>1, <1>2, <1>4, <1>5, <1>6 DEF AdmInv

\* What the limit is about, and that it is a number.
LEMMA ActiveCount ==
  ASSUME AdmInv
  PROVE  /\ ActiveRuns \subseteq DOMAIN runs /\ IsFiniteSet(ActiveRuns)
         /\ Cardinality(ActiveRuns) \in Nat /\ def.max_active_runs \in Nat \ {0}
         /\ Cardinality(ActiveRuns) <= def.max_active_runs
         /\ \A k \in DOMAIN runs : k \in ActiveRuns <=> Active(k)
  <1>1. ActiveRuns \subseteq DOMAIN runs /\ IsFiniteSet(DOMAIN runs)
    BY DEF AdmInv, RunsOK, ActiveRuns
  <1>2. IsFiniteSet(ActiveRuns) /\ Cardinality(ActiveRuns) \in Nat
    BY <1>1, FS_Subset, FS_CardinalityType
  <1>3. def.max_active_runs \in Nat \ {0}
    BY DefinitionsAssumption DEF AdmInv
  <1>4. Cardinality(ActiveRuns) <= def.max_active_runs
    BY DEF AdmInv, ActiveRunsBounded, ActiveRuns, Active
  <1>5. QED
    BY <1>1, <1>2, <1>3, <1>4 DEF ActiveRuns

\* A step that makes no Run active keeps the limit.
LEMMA FewerActive ==
  ASSUME AdmInv, def' = def, ActiveRuns' \subseteq ActiveRuns
  PROVE  ActiveRunsBounded'
  <1>1. IsFiniteSet(ActiveRuns') /\ Cardinality(ActiveRuns') <= Cardinality(ActiveRuns)
    BY ActiveCount, FS_Subset
  <1>2. Cardinality(ActiveRuns') \in Nat
    BY <1>1, FS_CardinalityType
  <1>3. Cardinality(ActiveRuns') <= def'.max_active_runs
    BY <1>1, <1>2, ActiveCount
  <1>4. QED
    BY <1>3 DEF ActiveRunsBounded, ActiveRuns, Active

\* createNewRun under the limit: one Run more is active.
LEMMA PutKeeps ==
  ASSUME AdmInv, def' = def, NEW k, k \notin DOMAIN runs, ~MaxActiveRunsReached(k),
         runs' = Put(k, NewRun)
  PROVE  RunsOK' /\ ActiveRunsBounded' /\ k \in DOMAIN runs' /\ Active(k)'
  <1>1. /\ DOMAIN runs' = DOMAIN runs \cup {k} /\ runs'[k] = NewRun
        /\ \A l \in DOMAIN runs : runs'[l] = runs[l]
    BY DEF Put
  <1>2. NewRun \in RunRecord /\ NewRun.status = "CREATED" /\ NewRun.lifecycle_status = "ACTIVE"
    BY DEF NewRun, RunRecord
  <1>3. Active(k)'
    BY <1>1, <1>2 DEF Active
  <1>4. RunsOK'
    <2>1. IsFiniteSet(DOMAIN runs \cup {k})
      BY FS_AddElement DEF AdmInv, RunsOK
    <2>2. QED
      BY <1>1, <1>2, <2>1 DEF AdmInv, RunsOK
  <1>5. ActiveRuns' = ActiveRuns \cup {k}
    BY <1>1, <1>3 DEF ActiveRuns, Active
  <1>6. BlockedBy(k) = ActiveRuns
    BY DEF BlockedBy, ActiveRuns, Active, AdmInv, RunsOK, RunRecord
  <1>7. Cardinality(ActiveRuns) < def.max_active_runs
    BY <1>6, ActiveCount DEF MaxActiveRunsReached
  <1>8. Cardinality(ActiveRuns') = Cardinality(ActiveRuns) + 1
    BY <1>5, ActiveCount, FS_AddElement
  <1>9. Cardinality(ActiveRuns') <= def'.max_active_runs
    BY <1>7, <1>8, ActiveCount
  <1>10. QED
    BY <1>1, <1>3, <1>4, <1>9 DEF ActiveRunsBounded, ActiveRuns, Active

\* ensureRun under the lock.
LEMMA AdmitKeeps ==
  ASSUME AdmInv, NEW p \in Callers, Admit(p)
  PROVE  AdmInv'
  <1>0. PICK k : k = Key(p)
    OBVIOUS
  <1>1. /\ def' = def /\ def \in Definitions /\ DOMAIN proc = Callers /\ CallerOK(p)
        /\ proc[p].pc = "resolved" /\ holder = {}
        /\ served' = IF k \in DOMAIN runs'
                     THEN served \cup {[at |-> t, key |-> k] : t \in proc[p].period}
                     ELSE served
    BY <1>0 DEF Admit, AdmInv
  <1>2. \/ Return(p) /\ UNCHANGED runs
        \/ Work(p) /\ UNCHANGED runs /\ k \in DOMAIN runs /\ runs[k].status # "SUCCESS"
           /\ runs[k].lifecycle_status # "ARCHIVED"
        \/ Work(p) /\ runs' = Put(k, NewRun) /\ k \notin DOMAIN runs /\ ~MaxActiveRunsReached(k)
    BY <1>0 DEF Admit, UseRun, CreateRun
  <1>3. ASSUME NEW t, NEW l PROVE PeriodKey(t, l)' = PeriodKey(t, l)
    BY <1>1 DEF PeriodKey, PolicyOK
  <1>4. ServedOK'
    <2>1. \A t \in proc[p].period : PeriodKey(t, k)
      BY <1>1, <1>0 DEF CallerOK
    <2>2. \A s \in served : PeriodKey(s.at, s.key)
      BY DEF AdmInv, ServedOK
    <2>3. \A s \in served' : PeriodKey(s.at, s.key)
      BY <1>1, <2>1, <2>2
    <2>4. QED
      BY <1>3, <2>3 DEF ServedOK
  <1>5. \A q \in Callers : proc[q].pc # "working"
    BY <1>1 DEF AdmInv, CallerOK
  <1>6. DOMAIN proc' = Callers /\ \A q \in Callers \ {p} : proc'[q] = proc[q]
    BY <1>1, <1>2 DEF Return, Work
  <1>7. \A q \in Callers \ {p} : CallerOK(q)'
    BY <1>1, <1>5, <1>6, OtherCallers
  <1>8. ASSUME Work(p), k \in DOMAIN runs', Active(k)' PROVE CallerOK(p)'
    <2>1. /\ proc'[p] = [proc[p] EXCEPT !.pc = "working"] /\ holder' = {p}
      BY <1>1, <1>8 DEF Work
    <2>2. /\ proc'[p].pc = "working" /\ proc'[p].key = proc[p].key
          /\ proc'[p].period = proc[p].period
          /\ DOMAIN proc'[p] = {"pc", "key", "resume", "period"}
      BY <1>1, <2>1 DEF CallerOK
    <2>3. Key(p)' = k
      BY <1>0, <2>2 DEF Key
    <2>4. QED
      BY <1>1, <1>3, <1>8, <1>0, <2>1, <2>2, <2>3 DEF CallerOK
  <1>9. CASE Return(p) /\ UNCHANGED runs
    <2>1. CallerOK(p)'
      BY <1>1, <1>9 DEF Return, CallerOK, Idle
    <2>2. RunsOK' /\ ActiveRunsBounded'
      BY <1>1, <1>9 DEF AdmInv, RunsOK, ActiveRunsBounded
    <2>3. QED
      BY <1>1, <1>4, <1>6, <1>7, <2>1, <2>2 DEF AdmInv
  <1>10. CASE Work(p) /\ UNCHANGED runs /\ k \in DOMAIN runs /\ runs[k].status # "SUCCESS"
              /\ runs[k].lifecycle_status # "ARCHIVED"
    <2>1. k \in DOMAIN runs' /\ Active(k)'
      BY <1>10 DEF Active, AdmInv, RunsOK, RunRecord
    <2>4. CallerOK(p)'
      BY <1>8, <1>10, <2>1
    <2>2. RunsOK' /\ ActiveRunsBounded'
      BY <1>1, <1>10 DEF AdmInv, RunsOK, ActiveRunsBounded
    <2>3. QED
      BY <1>1, <1>4, <1>6, <1>7, <2>2, <2>4 DEF AdmInv
  <1>11. CASE Work(p) /\ runs' = Put(k, NewRun) /\ k \notin DOMAIN runs
              /\ ~MaxActiveRunsReached(k)
    <2>1. RunsOK' /\ ActiveRunsBounded' /\ k \in DOMAIN runs' /\ Active(k)'
      BY <1>1, <1>11, PutKeeps
    <2>2. QED
      BY <1>1, <1>4, <1>6, <1>7, <1>8, <1>11, <2>1 DEF AdmInv
  <1>12. QED
    BY <1>2, <1>9, <1>10, <1>11

\* The end of a Run at work: it was active, whatever its new status.
LEMMA FinishKeeps ==
  ASSUME AdmInv, NEW p \in Callers, NEW status \in {"SUCCESS", "FAILED", "RUNNING"},
         Finish(p, status)
  PROVE  AdmInv'
  <1>1. /\ UNCHANGED <<def, served>> /\ def \in Definitions /\ DOMAIN proc = Callers
        /\ CallerOK(p) /\ proc[p].pc = "working" /\ holder = {p} /\ holder' = {}
        /\ proc' = [proc EXCEPT ![p] = Idle]
        /\ runs' = [runs EXCEPT ![Key(p)].status = status]
    BY DEF Finish, Return, AdmInv, CallerOK
  <1>2. /\ proc'[p] = Idle /\ DOMAIN proc' = Callers
        /\ \A q \in Callers \ {p} : proc'[q] = proc[q]
    BY <1>1
  <1>3. PICK k \in DOMAIN runs : k = Key(p) /\ Active(k)
    BY <1>1 DEF CallerOK
  <1>4. /\ DOMAIN runs' = DOMAIN runs /\ runs'[k] = [runs[k] EXCEPT !.status = status]
        /\ \A l \in DOMAIN runs \ {k} : runs'[l] = runs[l]
    BY <1>1, <1>3
  <1>5. runs'[k] \in RunRecord
    BY <1>3, <1>4 DEF AdmInv, RunsOK, RunRecord
  <1>6. RunsOK'
    BY <1>4, <1>5 DEF AdmInv, RunsOK
  <1>7. ActiveRuns' \subseteq ActiveRuns
    BY <1>3, <1>4 DEF ActiveRuns, Active
  <1>8. ActiveRunsBounded'
    BY <1>1, <1>7, FewerActive
  <1>9. CallerOK(p)'
    BY <1>2 DEF CallerOK, Idle
  <1>10. ASSUME NEW q \in Callers \ {p} PROVE CallerOK(q)'
    <2>1. proc[q].pc # "working"
      BY <1>1 DEF AdmInv, CallerOK
    <2>2. QED
      BY <1>1, <1>2, <2>1, OtherCallers
  <1>11. ASSUME NEW t, NEW l PROVE PeriodKey(t, l)' = PeriodKey(t, l)
    BY <1>1 DEF PeriodKey, PolicyOK
  <1>12. ServedOK'
    BY <1>1, <1>11 DEF AdmInv, ServedOK
  <1>13. QED
    BY <1>1, <1>2, <1>6, <1>8, <1>9, <1>10, <1>12 DEF AdmInv

\* archive-run: nobody is at work while it has the lock.
LEMMA ArchiveKeeps ==
  ASSUME AdmInv, NEW k \in DOMAIN runs, ArchiveRun(k)
  PROVE  AdmInv'
  <1>1. /\ UNCHANGED <<def, proc, holder, served>> /\ def \in Definitions
        /\ DOMAIN proc = Callers /\ holder = {}
        /\ runs' = [runs EXCEPT ![k].lifecycle_status = "ARCHIVED"]
    BY DEF ArchiveRun, AdmInv
  <1>2. /\ DOMAIN runs' = DOMAIN runs
        /\ runs'[k] = [runs[k] EXCEPT !.lifecycle_status = "ARCHIVED"]
        /\ \A l \in DOMAIN runs \ {k} : runs'[l] = runs[l]
    BY <1>1
  <1>3. runs'[k] \in RunRecord /\ runs'[k].lifecycle_status = "ARCHIVED"
    BY <1>2 DEF AdmInv, RunsOK, RunRecord
  <1>4. RunsOK'
    BY <1>2, <1>3 DEF AdmInv, RunsOK
  <1>5. ActiveRuns' \subseteq ActiveRuns
    BY <1>2, <1>3 DEF ActiveRuns, Active
  <1>6. ActiveRunsBounded'
    BY <1>1, <1>5, FewerActive
  <1>7. ASSUME NEW t, NEW l PROVE PeriodKey(t, l)' = PeriodKey(t, l)
    BY <1>1 DEF PeriodKey, PolicyOK
  <1>8. ASSUME NEW q \in Callers PROVE CallerOK(q)'
    <2>1. CallerOK(q) /\ proc[q].pc # "working" /\ Key(q)' = Key(q)
      BY <1>1 DEF AdmInv, CallerOK, Key
    <2>2. QED
      BY <1>1, <1>7, <2>1 DEF CallerOK
  <1>9. ServedOK'
    BY <1>1, <1>7 DEF AdmInv, ServedOK
  <1>10. QED
    BY <1>1, <1>4, <1>6, <1>8, <1>9 DEF AdmInv

\* The steps of the definition, and no step.
LEMMA AdmUntouched ==
  ASSUME AdmInv, UNCHANGED admVars, def' = def
  PROVE  AdmInv'
  <1>1. ASSUME NEW t, NEW l PROVE PeriodKey(t, l)' = PeriodKey(t, l)
    BY DEF PeriodKey, PolicyOK
  <1>2. ASSUME NEW q \in Callers PROVE CallerOK(q)'
    <2>1. CallerOK(q) /\ Key(q)' = Key(q)
      BY DEF AdmInv, Key, admVars
    <2>2. QED
      BY <1>1, <2>1 DEF CallerOK, admVars, Active
  <1>3. ServedOK'
    BY <1>1 DEF AdmInv, ServedOK, admVars
  <1>4. QED
    BY <1>2, <1>3 DEF AdmInv, RunsOK, ActiveRunsBounded, admVars

\* The definition is that of the network that is called.
LEMMA DefUnchanged ==
  ASSUME DefNext
  PROVE  def' = def
  BY DEF DefNext, Validate, Place, SortEnds, RerunFrom, CountVisit, CountEnds,
         SelectDescendants, SelectionEnds, HoldBack, HoldNode, HoldEnds

\* The invariant of admission holds at the start.
LEMMA AdmInit ==
  ASSUME Init
  PROVE  AdmInv
  <1>1. /\ def \in Definitions /\ runs = <<>> /\ holder = {} /\ served = {}
        /\ proc = [p \in Callers |-> Idle]
    BY DEF Init, DefInit
  <1>2. DOMAIN runs = {}
    BY <1>1
  <1>3. RunsOK
    BY <1>2, FS_EmptySet DEF RunsOK
  <1>4. ActiveRunsBounded
    <2>1. {k \in DOMAIN runs : runs[k].lifecycle_status = "ACTIVE" /\ runs[k].status # "SUCCESS"}
          = {}
      BY <1>2
    <2>2. def.max_active_runs \in Nat
      BY <1>1, DefinitionsAssumption
    <2>3. QED
      BY <2>1, <2>2, FS_EmptySet DEF ActiveRunsBounded
  <1>5. \A p \in Callers : CallerOK(p)
    BY <1>1 DEF CallerOK, Idle
  <1>6. QED
    BY <1>1, <1>3, <1>4, <1>5 DEF AdmInv, ServedOK

\* Every step keeps the invariant of admission.
LEMMA AdmStep ==
  ASSUME AdmInv, [Next]_vars
  PROVE  AdmInv'
  <1>1. CASE DefNext /\ UNCHANGED admVars
    BY <1>1, AdmUntouched, DefUnchanged
  <1>2. CASE \E p \in Callers : \E c \in CallsPossible : Call(p, c)
    BY <1>2, CallKeeps
  <1>3. CASE \E p \in Callers : LockConflict(p) \/ Admit(p)
    BY <1>3, LockConflictKeeps, AdmitKeeps
  <1>4. CASE \E p \in Callers : \E status \in {"SUCCESS", "FAILED", "RUNNING"} : Finish(p, status)
    BY <1>4, FinishKeeps
  <1>5. CASE \E k \in DOMAIN runs : ArchiveRun(k)
    BY <1>5, ArchiveKeeps
  <1>6. CASE UNCHANGED vars
    BY <1>6, AdmUntouched DEF vars, admVars
  <1>7. QED
    BY <1>1, <1>2, <1>3, <1>4, <1>5, <1>6 DEF Next

\* The inductive invariant of the admission holds in every reachable state.
THEOREM AdmissionInvariant == Spec => []AdmInv
  <1>1. Init => AdmInv
    BY AdmInit
  <1>2. AdmInv /\ [Next]_vars => AdmInv'
    BY AdmStep
  <1>3. QED
    BY <1>1, <1>2, PTL DEF Spec

\* No sequence of calls, resumes, failures and archivals leaves more unfinished
\* Runs than max_active_runs, whatever that limit is.
THEOREM AdmissionBounded == Spec => []ActiveRunsBounded
  <1>1. AdmInv => ActiveRunsBounded
    BY DEF AdmInv
  <1>2. QED
    BY <1>1, AdmissionInvariant, PTL

\* Two calls of cron get the same Run exactly when their instants fall into the
\* same period of the network's zone.
THEOREM AdmissionPeriods == Spec => []OneRunPerPeriod
  <1>1. AdmInv => OneRunPerPeriod
    <2> SUFFICES ASSUME AdmInv, NEW s \in served, NEW t \in served
                 PROVE  (s.key = t.key) = SamePeriod(s.at, t.at)
      BY DEF OneRunPerPeriod
    <2>1. def \in Definitions /\ PeriodKey(s.at, s.key) /\ PeriodKey(t.at, t.key)
      BY DEF AdmInv, ServedOK
    <2>2. QED
      BY <2>1, KeysArePeriods DEF PeriodKey
  <1>2. QED
    BY <1>1, AdmissionInvariant, PTL
=============================================================================
