------------------------- MODULE RunExecutionProofs -------------------------
(***************************************************************************)
(* Proofs about RunExecution for any nodes, invocations and bounds.        *)
(*                                                                         *)
(* IInv holds whether or not the Network lock excludes (Exclusive): the    *)
(* compare-and-sets alone make a node with idempotent: false run at most   *)
(* once and keep SUCCESS truthful.  XInv adds what exclusion buys, and     *)
(* BrakeInv what the retry brake keeps while nobody uses --rerun-from.     *)
(* ProgressInv is what the refinement of NetworkWorkflow needs besides.    *)
(***************************************************************************)
EXTENDS RunExecution, TLAPS, FiniteSetTheorems

-----------------------------------------------------------------------------
(* The inductive invariant. *)

\* A Node State record: revision 0 is "no record", a node that never had an
\* attempt has not run, and active_attempt_id names the latest attempt.
StateOK(n) ==
    /\ state[n].rev = 0 => state[n] = NoState
    /\ state[n].status = "none" => state[n].rev = 0
    /\ state[n].latest = 0 => state[n].status \in {"none", "WAITING", "BLOCKED"}
    /\ state[n].active # None =>
          state[n].latest # 0 /\ attempt[n][state[n].active].no = state[n].latest

\* An attempt record has a revision, a number and a status or is no record.
WellFormed(a) ==
    /\ a.no = 0 <=> a.rev = 0
    /\ a.no = 0 <=> a.status = "none"

AttemptOK(n, j) ==
    /\ WellFormed(attempt[n][j])
    /\ attempt[n][j].status = "SUCCESS" => job[n][j] = "SUCCESS"

\* A process may still start, or already started, the job of its attempt.
Engaged(n, i) ==
    \/ pc[i] \in {"ready", "launch"} /\ Order[at[i]] = n
    \/ job[n][i] \notin {"none", "notBegun"}

\* The heart of AtMostOnce: nobody is engaged in a node that may be claimed,
\* only the active attempt in a RUNNING node, one attempt in any other.
OnceOK(n) ==
    /\ state[n].status \in {"none", "WAITING", "BLOCKED"} =>
          \A i \in Invocation : ~Engaged(n, i)
    /\ state[n].status = "RUNNING" =>
          \A i \in Invocation : Engaged(n, i) => i = state[n].active
    /\ \A i, j \in Invocation : Engaged(n, i) /\ Engaged(n, j) => i = j

NodeTruthful(n) ==
    state[n].status = "SUCCESS" =>
        \E i \in Invocation :
            /\ attempt[n][i].no = state[n].latest
            /\ job[n][i] = "SUCCESS" \/ "SUCCESS" \in resolved[n][i]

\* What a process holds in memory was once on record.
SeenState(i, n) ==
    /\ view[i].state[n].rev <= state[n].rev
    /\ view[i].state[n].rev = state[n].rev => view[i].state[n] = state[n]

SeenAttempt(i, n, j) ==
    LET a == view[i].attempt[n][j]
    IN  /\ WellFormed(a)
        /\ a.no # 0 => a.no = attempt[n][j].no
        /\ a.status = "SUCCESS" => job[n][j] = "SUCCESS"
        /\ view[i].resolved[n][j] \subseteq resolved[n][j]

\* A process makes one attempt per node: none of the nodes ahead has one.
BeforeLoop == {"idle", "invocation", "ensure", "reconcile", "repair", "rerunRead", "rerun",
               "begin", "orphanRead", "orphan", "orphanState", "abandon", "prepareRead",
               "prepare"}
InNode == {"claim", "ready", "launch", "wait", "authorize", "persist", "apply"}

Ahead(i, n) ==
    \/ pc[i] \in BeforeLoop
    \/ \E k \in 1..Len(Order) :
          /\ Order[k] = n
          /\ \/ pc[i] \in {"loop", "accept", "start"} /\ k >= at[i]
             \/ pc[i] \in InNode \cup {"aggregate", "blocked"} /\ k > at[i]

FreshOK(i, n) == Ahead(i, n) => attempt[n][i].no = 0 /\ job[n][i] = "none"

\* What a process knows in each of its phases.
AtOK(i) ==
    /\ pc[i] \in InNode \cup {"orphanState", "accept", "start", "aggregate", "blocked"} =>
          at[i] \in 1..Len(Order)
    /\ pc[i] = "loop" => at[i] \in 1..Len(Order) + 1

NodePhaseOK(i, n) ==
    /\ pc[i] \in {"accept", "start", "claim"} => view[i].state[n].status = "WAITING"
    /\ pc[i] \in InNode => view[i].attempt[n][i].no # 0
    /\ pc[i] \in InNode \ {"claim"} =>
          view[i].state[n].status = "RUNNING" /\ view[i].state[n].active = i
    /\ pc[i] \in {"claim", "ready", "launch"} => job[n][i] = "none"
    /\ pc[i] \in {"authorize", "persist", "apply"} =>
          /\ decision[i][n].status # "none"
          /\ decision[i][n].status = "SUCCESS" => job[n][i] = "SUCCESS"
          /\ decision[i][n].code = "PREPARE_FAILED" => job[n][i] = "notBegun"
    /\ pc[i] = "orphanState" => n \in todo[i]

OrphanOK(i, n) ==
    /\ view[i].state[n].active \in Invocation
    /\ decision[i][n].status # "none"
    /\ decision[i][n].status = "SUCCESS" => job[n][view[i].state[n].active] = "SUCCESS"

PhaseOK(i) ==
    /\ AtOK(i)
    /\ pc[i] \in InNode \cup {"orphanState", "accept", "start"} => NodePhaseOK(i, Order[at[i]])
    /\ pc[i] = "rerun" => \A n \in todo[i] \cap NonIdempotent : view[i].state[n].latest = 0
    /\ pc[i] \in {"orphan", "orphanState"} => \A n \in todo[i] : OrphanOK(i, n)

ResolverOK ==
    LET n == resolver.node
    IN  resolver.stage # "idle" =>
          /\ resolver.inv \in Invocation
          /\ resolver.old.rev <= state[n].rev
          /\ resolver.old.rev = state[n].rev => resolver.old = state[n]
          /\ resolver.old.status \in {"UNKNOWN", "FAILED"}
          /\ resolver.old.latest # 0
          /\ attempt[n][resolver.inv].no = resolver.old.latest
          /\ resolver.stage = "apply" => resolver.to \in resolved[n][resolver.inv]

NodeOK(n) ==
    /\ StateOK(n)
    /\ NodeTruthful(n)
    /\ n \in NonIdempotent => OnceOK(n)
    /\ \A j \in Invocation : AttemptOK(n, j)

ProcOK(i) ==
    /\ \A n \in Node : SeenState(i, n) /\ FreshOK(i, n)
    /\ \A n \in Node, j \in Invocation : SeenAttempt(i, n, j)
    /\ PhaseOK(i)

IInv ==
    /\ TypeOK
    /\ \A n \in Node : NodeOK(n)
    /\ \A i \in Invocation : ProcOK(i)
    /\ ResolverOK

-----------------------------------------------------------------------------
(* What the exclusion of the Network lock adds. *)

\* The node states a process evaluates, in memory since it read them all.
Evaluating == {"repair", "prepare", "loop", "finish"} \cup InNode
              \cup {"accept", "start", "aggregate", "blocked"}

\* The phases in which all Node States exist.
Existing == {"reconcile", "rerunRead", "rerun", "begin", "orphanRead", "orphan", "orphanState",
             "abandon", "prepareRead"} \cup Evaluating

ExistOK(i) ==
    pc[i] \in Existing \/ (pc[i] = "invocation" /\ mode[i] = "RERUN_FROM")
    => \A n \in Node : state[n].status # "none"

\* Only an operator's resolution can overtake the owner's copy of a state.
SyncedOK(i) ==
    pc[i] \in Evaluating =>
        \A n \in Node :
            /\ view[i].state[n].status # "none"
            /\ view[i].state[n].status \notin {"UNKNOWN", "FAILED"} =>
                  view[i].state[n] = state[n]

DependenciesOK(i) ==
    pc[i] \in {"accept", "start", "claim", "ready", "launch"} =>
        \A d \in DependsOn[Order[at[i]]] : view[i].state[d].status = "SUCCESS"

OwnerOK(i) ==
    /\ Live(i) => owner = i
    /\ pc[i] = "rerunRead" => view[i].run = run
    /\ pc[i] = "rerun" => run.status # "SUCCESS"
    /\ pc[i] = "start" /\ Hold => heldStarts = 0
    /\ ExistOK(i)
    /\ SyncedOK(i)
    /\ DependenciesOK(i)

XInv ==
    /\ \A i \in Invocation : OwnerOK(i)
    /\ SuccessfulRunIsFinal
    /\ StopBoundary

-----------------------------------------------------------------------------
(* The repository's writes. *)

\* The positions of the topological order stand for the nodes one to one.
LEMMA Positions ==
  /\ Len(Order) \in Nat
  /\ \A k \in 1..Len(Order) : Order[k] \in Node
  /\ \A k, l \in 1..Len(Order) : Order[k] = Order[l] => k = l
  /\ \A n \in Node : \E k \in 1..Len(Order) : Order[k] = n
  /\ NonIdempotent \subseteq Node
  BY NetworkAssumption

\* The records that stand for "no record" are well typed.
LEMMA TypesOfNothing ==
  /\ NoState \in StateRecord /\ NoAttempt \in AttemptRecord /\ NoView \in View
  /\ NoDecision \in [Node -> Decision]
  /\ NoRun \in RunRecord
  <1>1. NoState \in StateRecord /\ NoAttempt \in AttemptRecord /\ NoRun \in RunRecord
    BY DEF NoState, StateRecord, NoAttempt, AttemptRecord, NodeStatus, Code, NoRun, RunRecord,
           RunStatus
  <1>2. NoView \in View
    BY <1>1 DEF NoView, View
  <1>3. NoDecision \in [Node -> Decision]
    BY DEF NoDecision, Decision, Code
  <1>4. QED
    BY <1>1, <1>2, <1>3

\* The fields of a view.
LEMMA ViewFields ==
  ASSUME NEW v \in View, NEW n \in Node, NEW j \in Invocation
  PROVE  /\ v.run \in RunRecord /\ v.state \in [Node -> StateRecord]
         /\ v.attempt \in [Node -> [Invocation -> AttemptRecord]]
         /\ v.resolved \in [Node -> [Invocation -> SUBSET Outcomes]]
         /\ v.state[n] \in StateRecord /\ v.attempt[n][j] \in AttemptRecord
         /\ v.resolved[n][j] \in SUBSET Outcomes
  BY DEF View

\* One process moves to another phase.
LEMMA GotoMoves ==
  ASSUME TypeOK, NEW i \in Invocation, NEW p \in Phase, Goto(i, p)
  PROVE  /\ pc' \in [Invocation -> Phase] /\ pc'[i] = p
         /\ \A k \in Invocation \ {i} : pc'[k] = pc[k]
  BY DEF TypeOK, Goto

\* An error or a stop ends one process.
LEMMA EndMoves ==
  ASSUME TypeOK, NEW i \in Invocation, NEW how \in Outcome, End(i, how)
  PROVE  /\ pc' \in [Invocation -> Phase] /\ pc'[i] = "close"
         /\ \A k \in Invocation \ {i} : pc'[k] = pc[k]
         /\ outcome' \in [Invocation -> Outcome]
  BY DEF TypeOK, End, Goto, Phase

\* What a compare-and-set that succeeds changes.
WroteState(i, n, s, l, a) ==
    /\ state[n].rev = view[i].state[n].rev
    /\ state'[n] = [status |-> s, rev |-> state[n].rev + 1, latest |-> l, active |-> a]
    /\ \A m \in Node \ {n} : state'[m] = state[m]
    /\ view'[i].state[n] = state'[n]
    /\ \A m \in Node \ {n} : view'[i].state[m] = view[i].state[m]
    /\ view'[i].run = view[i].run /\ view'[i].attempt = view[i].attempt
    /\ view'[i].resolved = view[i].resolved

\* upsertNodeState writes over the version read, or the process ends.
LEMMA PutStateMoves ==
  ASSUME TypeOK, NEW i \in Invocation, NEW n \in Node, NEW s \in NodeStatus, NEW l \in Nat,
         NEW a \in Invocation \cup {None}, NEW r \in BOOLEAN, NEW next \in Phase,
         PutState(i, n, s, l, a, r, next)
  PROVE  /\ state' \in [Node -> StateRecord] /\ view' \in [Invocation -> View]
         /\ pc' \in [Invocation -> Phase] /\ outcome' \in [Invocation -> Outcome]
         /\ \A k \in Invocation \ {i} : pc'[k] = pc[k] /\ view'[k] = view[k]
         /\ \/ /\ StateWritable(n, view[i].state[n], s, r)
               /\ WroteState(i, n, s, l, a) /\ pc'[i] = next
            \/ /\ pc'[i] = "close" /\ UNCHANGED <<state, view>>
  <1>1. view[i] \in View /\ view[i].state[n] \in StateRecord /\ state[n] \in StateRecord
    BY DEF TypeOK, View
  <1>2. CASE ~StateWritable(n, view[i].state[n], s, r)
    <2>1. End(i, "failed") /\ UNCHANGED <<state, view>>
      BY <1>2 DEF PutState
    <2>2. QED
      BY <2>1, EndMoves DEF Outcome, TypeOK
  <1>3. CASE StateWritable(n, view[i].state[n], s, r)
    <2> DEFINE new == NewState(view[i].state[n], s, l, a)
    <2>1. /\ state' = [state EXCEPT ![n] = new]
          /\ view' = [view EXCEPT ![i].state[n] = new]
          /\ Goto(i, next) /\ UNCHANGED outcome
      BY <1>3 DEF PutState
    <2>2. state[n].rev = view[i].state[n].rev
      BY <1>3 DEF StateWritable
    <2>3. new \in StateRecord
          /\ new = [status |-> s, rev |-> state[n].rev + 1, latest |-> l, active |-> a]
      BY <1>1, <2>2 DEF NewState, StateRecord
    <2> HIDE DEF new
    <2>4. state' \in [Node -> StateRecord] /\ state'[n] = new
          /\ \A m \in Node \ {n} : state'[m] = state[m]
      BY <2>1, <2>3 DEF TypeOK
    <2> DEFINE f == [view[i].state EXCEPT ![n] = new]
    <2>5. /\ view'[i] = [view[i] EXCEPT !.state = f]
          /\ \A k \in Invocation \ {i} : view'[k] = view[k]
          /\ view' = [view EXCEPT ![i] = [view[i] EXCEPT !.state = f]]
      BY <2>1 DEF TypeOK
    <2>8. /\ f \in [Node -> StateRecord] /\ f[n] = new
          /\ \A m \in Node \ {n} : f[m] = view[i].state[m]
      BY <1>1, <2>3 DEF View
    <2> HIDE DEF f
    <2> DEFINE w == [view[i] EXCEPT !.state = f]
    <2>11. /\ w \in View /\ w.state = f /\ w.run = view[i].run
           /\ w.attempt = view[i].attempt /\ w.resolved = view[i].resolved
      <3>1. f \in [Node -> StateRecord] /\ view[i] \in View
        BY <1>1, <2>8
      <3>2. QED
        BY ONLY <3>1 DEF View
    <2>12. view'[i] = w
      BY <2>5
    <2> HIDE DEF w
    <2>6. /\ view'[i] \in View /\ view'[i].state = f
          /\ view'[i].run = view[i].run /\ view'[i].attempt = view[i].attempt
          /\ view'[i].resolved = view[i].resolved
      BY <2>11, <2>12
    <2>7. view' \in [Invocation -> View]
      BY <2>5, <2>6 DEF TypeOK
    <2>9. WroteState(i, n, s, l, a)
      BY <2>2, <2>3, <2>4, <2>6, <2>8 DEF WroteState
    <2>10. QED
      BY <1>3, <2>1, <2>4, <2>5, <2>7, <2>9, GotoMoves DEF TypeOK
  <1>4. QED
    BY <1>2, <1>3

WroteAttempt(i, n, j, a) ==
    /\ attempt'[n][j] = a
    /\ \A m \in Node, k \in Invocation :
          m # n \/ k # j => attempt'[m][k] = attempt[m][k]
    /\ view'[i].attempt[n][j] = a
    /\ \A m \in Node, k \in Invocation :
          m # n \/ k # j => view'[i].attempt[m][k] = view[i].attempt[m][k]
    /\ view'[i].run = view[i].run /\ view'[i].state = view[i].state
    /\ view'[i].resolved = view[i].resolved

\* The next revision of a RUNNING attempt that was in memory as it was.
AttemptPut(i, n, j, s) ==
    /\ attempt[n][j].status = "RUNNING"
    /\ attempt[n][j].rev = view[i].attempt[n][j].rev
    /\ \E a \in AttemptRecord :
          /\ WroteAttempt(i, n, j, a)
          /\ a.status = s /\ a.rev = attempt[n][j].rev + 1
          /\ a.no = view[i].attempt[n][j].no

\* An attempt record is written to the repository and kept in memory.
LEMMA AttemptWritten ==
  ASSUME TypeOK, NEW i \in Invocation, NEW n \in Node, NEW j \in Invocation,
         NEW a \in AttemptRecord,
         attempt' = [attempt EXCEPT ![n][j] = a],
         view' = [view EXCEPT ![i].attempt[n][j] = a]
  PROVE  /\ attempt' \in [Node -> [Invocation -> AttemptRecord]]
         /\ view' \in [Invocation -> View]
         /\ \A k \in Invocation \ {i} : view'[k] = view[k]
         /\ WroteAttempt(i, n, j, a)
  <1>1. /\ view[i] \in View /\ view[i].attempt \in [Node -> [Invocation -> AttemptRecord]]
        /\ attempt \in [Node -> [Invocation -> AttemptRecord]]
    BY DEF TypeOK, View
  <1>2. ASSUME NEW f \in [Node -> [Invocation -> AttemptRecord]]
        PROVE  LET g == [f EXCEPT ![n][j] = a]
               IN  /\ g \in [Node -> [Invocation -> AttemptRecord]] /\ g[n][j] = a
                   /\ \A m \in Node, k \in Invocation : m # n \/ k # j => g[m][k] = f[m][k]
    OBVIOUS
  <1> DEFINE g == [view[i].attempt EXCEPT ![n][j] = a]
  <1>3. /\ g \in [Node -> [Invocation -> AttemptRecord]] /\ g[n][j] = a
        /\ \A m \in Node, k \in Invocation : m # n \/ k # j => g[m][k] = view[i].attempt[m][k]
    BY <1>1, <1>2
  <1>4. /\ attempt' \in [Node -> [Invocation -> AttemptRecord]] /\ attempt'[n][j] = a
        /\ \A m \in Node, k \in Invocation : m # n \/ k # j => attempt'[m][k] = attempt[m][k]
    BY <1>1, <1>2
  <1>5. /\ view' = [view EXCEPT ![i] = [view[i] EXCEPT !.attempt = g]]
        /\ view'[i] = [view[i] EXCEPT !.attempt = g]
        /\ \A k \in Invocation \ {i} : view'[k] = view[k]
    BY DEF TypeOK
  <1> HIDE DEF g
  <1>6. /\ view'[i] \in View /\ view'[i].attempt = g /\ view'[i].run = view[i].run
        /\ view'[i].state = view[i].state /\ view'[i].resolved = view[i].resolved
    BY <1>1, <1>3, <1>5 DEF View
  <1>7. view' \in [Invocation -> View]
    BY <1>5, <1>6 DEF TypeOK
  <1>8. QED
    BY <1>3, <1>4, <1>5, <1>6, <1>7 DEF WroteAttempt

\* finalizeAttempt and setAttemptExecutionStarted write a RUNNING attempt only.
LEMMA PutAttemptMoves ==
  ASSUME TypeOK, NEW i \in Invocation, NEW n \in Node, NEW j \in Invocation,
         NEW s \in {"RUNNING"} \cup Terminal, NEW code \in Code, NEW started \in {"no", "yes"},
         NEW next \in Phase, PutAttempt(i, n, j, s, code, started, next)
  PROVE  /\ attempt' \in [Node -> [Invocation -> AttemptRecord]]
         /\ view' \in [Invocation -> View]
         /\ pc' \in [Invocation -> Phase] /\ outcome' \in [Invocation -> Outcome]
         /\ \A k \in Invocation \ {i} : pc'[k] = pc[k] /\ view'[k] = view[k]
         /\ \/ pc'[i] = next /\ AttemptPut(i, n, j, s)
            \/ pc'[i] = "close" /\ UNCHANGED <<attempt, view>>
  <1> DEFINE old == view[i].attempt[n][j]
             new == [old EXCEPT !.status = s, !.code = code, !.started = started,
                                !.rev = old.rev + 1]
             writable == attempt[n][j].status = "RUNNING" /\ attempt[n][j].rev = old.rev
  <1>1. old \in AttemptRecord
    BY DEF TypeOK, View
  <1>2. /\ new \in AttemptRecord /\ new.status = s /\ new.rev = old.rev + 1
        /\ new.no = old.no /\ new.code = code
    <2>1. s \in {"none", "RUNNING"} \cup Terminal /\ old.rev \in Nat /\ old.rev + 1 \in Nat
      BY <1>1 DEF AttemptRecord
    <2>2. ASSUME NEW o \in AttemptRecord, NEW r \in Nat
          PROVE  LET a == [o EXCEPT !.status = s, !.code = code, !.started = started, !.rev = r]
                 IN  /\ a \in AttemptRecord /\ a.status = s /\ a.rev = r
                     /\ a.no = o.no /\ a.code = code
      BY <2>1 DEF AttemptRecord
    <2>3. QED
      BY <1>1, <2>1, <2>2
  <1>3. CASE ~writable
    <2>1. End(i, "failed") /\ UNCHANGED <<attempt, view>>
      BY <1>3 DEF PutAttempt
    <2>2. QED
      BY <2>1, EndMoves DEF Outcome, TypeOK
  <1>4. CASE writable
    <2>1. /\ attempt' = [attempt EXCEPT ![n][j] = new]
          /\ view' = [view EXCEPT ![i].attempt[n][j] = new]
          /\ Goto(i, next) /\ UNCHANGED outcome
      BY <1>4 DEF PutAttempt
    <2>2. /\ attempt[n][j].status = "RUNNING" /\ attempt[n][j].rev = old.rev
      BY <1>4
    <2>3. new.rev = attempt[n][j].rev + 1
      BY <1>2, <2>2
    <2> HIDE DEF new, old
    <2>4. /\ attempt' \in [Node -> [Invocation -> AttemptRecord]]
          /\ view' \in [Invocation -> View]
          /\ \A k \in Invocation \ {i} : view'[k] = view[k]
          /\ WroteAttempt(i, n, j, new)
      BY <1>2, <2>1, AttemptWritten
    <2>5. old = view[i].attempt[n][j]
      BY DEF old
    <2>6. AttemptPut(i, n, j, s)
      BY <1>2, <2>2, <2>3, <2>4, <2>5 DEF AttemptPut
    <2>7. QED
      BY <2>1, <2>4, <2>6, GotoMoves DEF TypeOK
  <1>5. QED
    BY <1>3, <1>4

\* A step changes only the run of a process's view.
LEMMA RunWritten ==
  ASSUME TypeOK, NEW i \in Invocation, NEW r \in RunRecord,
         view' = [view EXCEPT ![i].run = r]
  PROVE  /\ view' \in [Invocation -> View]
         /\ \A k \in Invocation \ {i} : view'[k] = view[k]
         /\ view'[i].run = r /\ view'[i].state = view[i].state
         /\ view'[i].attempt = view[i].attempt /\ view'[i].resolved = view[i].resolved
  <1>1. view[i] \in View
    BY DEF TypeOK
  <1>2. /\ view' = [view EXCEPT ![i] = [view[i] EXCEPT !.run = r]]
        /\ view'[i] = [view[i] EXCEPT !.run = r]
        /\ \A k \in Invocation \ {i} : view'[k] = view[k]
    BY DEF TypeOK
  <1>3. /\ view'[i] \in View /\ view'[i].run = r /\ view'[i].state = view[i].state
        /\ view'[i].attempt = view[i].attempt /\ view'[i].resolved = view[i].resolved
    BY <1>1, <1>2 DEF View
  <1>4. view' \in [Invocation -> View]
    BY <1>2, <1>3 DEF TypeOK
  <1>5. QED
    BY <1>2, <1>3, <1>4

\* updateRunAggregate writes over the version read, or the process ends.
LEMMA PutRunMoves ==
  ASSUME TypeOK, NEW i \in Invocation, NEW s \in RunStatus, NEW started \in {"no", "yes"},
         NEW next \in Phase, NEW how \in Outcome, PutRun(i, s, started, next, how)
  PROVE  /\ run' \in RunRecord /\ view' \in [Invocation -> View]
         /\ pc' \in [Invocation -> Phase] /\ outcome' \in [Invocation -> Outcome]
         /\ \A k \in Invocation \ {i} : pc'[k] = pc[k] /\ view'[k] = view[k]
         /\ view'[i].state = view[i].state /\ view'[i].attempt = view[i].attempt
         /\ view'[i].resolved = view[i].resolved
         /\ \/ pc'[i] = next /\ run'.status = s
            \/ pc'[i] = "close" /\ run' = run
  <1> DEFINE new == [status |-> s, started |-> started, rev |-> view[i].run.rev + 1]
  <1>1. view[i].run \in RunRecord
    BY DEF TypeOK, View
  <1>2. new \in RunRecord /\ new.status = s
    BY <1>1 DEF RunRecord
  <1>3. CASE run.rev # view[i].run.rev
    <2>1. End(i, "failed") /\ UNCHANGED <<run, view>>
      BY <1>3 DEF PutRun
    <2>2. QED
      BY <2>1, EndMoves DEF Outcome, TypeOK
  <1>4. CASE run.rev = view[i].run.rev
    <2>1. /\ run' = new /\ view' = [view EXCEPT ![i].run = new]
          /\ Goto(i, next) /\ outcome' = [outcome EXCEPT ![i] = how]
      BY <1>4 DEF PutRun
    <2> HIDE DEF new
    <2>2. outcome' \in [Invocation -> Outcome]
      BY <2>1 DEF TypeOK
    <2>3. /\ view' \in [Invocation -> View]
          /\ \A k \in Invocation \ {i} : view'[k] = view[k]
          /\ view'[i].state = view[i].state
          /\ view'[i].attempt = view[i].attempt /\ view'[i].resolved = view[i].resolved
      BY <1>2, <2>1, RunWritten
    <2>4. QED
      BY <1>2, <2>1, <2>2, <2>3, GotoMoves
  <1>5. QED
    BY <1>3, <1>4

\* A process that is gone leaves no memory.
LEMMA ForgetMoves ==
  ASSUME TypeOK, NEW i \in Invocation, Forget(i)
  PROVE  /\ at' \in [Invocation -> Nat] /\ sel' \in [Invocation -> SUBSET Node]
         /\ todo' \in [Invocation -> SUBSET Node] /\ excl' \in [Invocation -> SUBSET Node]
         /\ view' \in [Invocation -> View]
         /\ lease' \in [Invocation -> {"HELD", "UNCERTAIN", "FINAL"}]
         /\ decision' \in [Invocation -> [Node -> Decision]]
         /\ seen' \in [Invocation -> Nat] /\ mode' = mode
         /\ view'[i] = NoView
         /\ \A k \in Invocation \ {i} :
               /\ at'[k] = at[k] /\ todo'[k] = todo[k] /\ view'[k] = view[k]
               /\ decision'[k] = decision[k]
  <1>1. /\ view' \in [Invocation -> View] /\ view'[i] = NoView
        /\ \A k \in Invocation \ {i} : view'[k] = view[k]
    BY TypesOfNothing DEF TypeOK, Forget
  <1>2. /\ decision' \in [Invocation -> [Node -> Decision]]
        /\ \A k \in Invocation \ {i} : decision'[k] = decision[k]
    BY TypesOfNothing DEF TypeOK, Forget
  <1>3. QED
    BY <1>1, <1>2 DEF TypeOK, Forget

-----------------------------------------------------------------------------
(* Steps and what they leave alone. *)

\* Process k does not move.
Kept(k) ==
    /\ pc'[k] = pc[k] /\ at'[k] = at[k] /\ todo'[k] = todo[k]
    /\ view'[k] = view[k] /\ decision'[k] = decision[k]

OthersKept(i) == \A k \in Invocation \ {i} : Kept(k)

\* Nobody gives process k an attempt or a job.
FreshKept(k) ==
    \A n \in Node : /\ attempt[n][k].no = 0 => attempt'[n][k].no = 0
                    /\ job[n][k] = "none" => job'[n][k] = "none"

\* Revisions grow, attempt numbers stay, jobs that ended have ended and
\* resolutions are never deleted.
Evolves ==
    /\ \A n \in Node : state'[n] = state[n] \/ state'[n].rev > state[n].rev
    /\ \A n \in Node, j \in Invocation :
          /\ attempt[n][j].no # 0 => attempt'[n][j].no = attempt[n][j].no
          /\ job[n][j] \in {"SUCCESS", "notBegun"} => job'[n][j] = job[n][j]
          /\ resolved[n][j] \subseteq resolved'[n][j]

\* A process takes into its view what is or was on record.
Refreshed(i) ==
    \A n \in Node :
        /\ view'[i].state[n] \in {view[i].state[n], state[n], state'[n], NoState}
        /\ \A j \in Invocation :
              /\ view'[i].attempt[n][j] \in
                    {view[i].attempt[n][j], attempt[n][j], attempt'[n][j], NoAttempt}
              /\ view'[i].resolved[n][j] \in {view[i].resolved[n][j], resolved[n][j], {}}

\* The types of the records and of the copies in memory.
LEMMA RecordTypes ==
  ASSUME TypeOK, NEW n \in Node, NEW i \in Invocation, NEW j \in Invocation
  PROVE  /\ state[n] \in StateRecord /\ attempt[n][j] \in AttemptRecord
         /\ state[n].rev \in Nat /\ state[n].latest \in Nat
         /\ state[n].active \in Invocation \cup {None} /\ state[n].status \in NodeStatus
         /\ attempt[n][j].no \in Nat /\ attempt[n][j].rev \in Nat
         /\ view[i].state[n] \in StateRecord /\ view[i].attempt[n][j] \in AttemptRecord
         /\ view[i].state[n].rev \in Nat /\ view[i].state[n].latest \in Nat
         /\ view[i].state[n].active \in Invocation \cup {None}
         /\ view[i].state[n].status \in NodeStatus
         /\ view[i].attempt[n][j].no \in Nat /\ view[i].attempt[n][j].rev \in Nat
         /\ view[i].attempt[n][j].status \in {"none", "RUNNING"} \cup Terminal
         /\ view[i].attempt[n][j].started \in {"no", "yes"}
         /\ decision[i][n] \in Decision /\ at[i] \in Nat /\ pc[i] \in Phase
         /\ job[n][j] \in JobState /\ view[i] \in View
         /\ resolved[n][j] \subseteq Outcomes /\ view[i].resolved[n][j] \subseteq Outcomes
  <1>1. /\ state[n] \in StateRecord /\ attempt[n][j] \in AttemptRecord /\ view[i] \in View
        /\ decision[i][n] \in Decision /\ at[i] \in Nat /\ pc[i] \in Phase
        /\ job[n][j] \in JobState /\ resolved[n][j] \subseteq Outcomes
    BY DEF TypeOK
  <1>2. view[i].state[n] \in StateRecord /\ view[i].attempt[n][j] \in AttemptRecord
        /\ view[i].resolved[n][j] \subseteq Outcomes
    BY <1>1, ViewFields
  <1>3. QED
    BY <1>1, <1>2 DEF StateRecord, AttemptRecord

\* A copy of a Node State stays older than, or equal to, the record.
LEMMA SeenStep ==
  ASSUME TypeOK, TypeOK', NEW i \in Invocation, NEW n \in Node, Evolves,
         SeenState(i, n), StateOK(n),
         view'[i].state[n] \in {view[i].state[n], state[n], state'[n], NoState}
  PROVE  SeenState(i, n)'
  <1>1. /\ state[n].rev \in Nat /\ state'[n].rev \in Nat /\ view[i].state[n].rev \in Nat
        /\ NoState.rev = 0
    BY RecordTypes DEF TypeOK, StateRecord, NoState
  <1>2. state'[n] = state[n] \/ state'[n].rev > state[n].rev
    BY DEF Evolves
  <1>3. QED
    BY <1>1, <1>2 DEF SeenState, StateOK

\* A copy of an attempt stays true of the record and of its job.
LEMMA SeenAttemptStep ==
  ASSUME TypeOK, TypeOK', NEW i \in Invocation, NEW n \in Node, NEW j \in Invocation, Evolves,
         SeenAttempt(i, n, j), AttemptOK(n, j), AttemptOK(n, j)',
         view'[i].attempt[n][j] \in
            {view[i].attempt[n][j], attempt[n][j], attempt'[n][j], NoAttempt},
         view'[i].resolved[n][j] \in {view[i].resolved[n][j], resolved[n][j], {}}
  PROVE  SeenAttempt(i, n, j)'
  <1>1. /\ attempt[n][j].no # 0 => attempt'[n][j].no = attempt[n][j].no
        /\ job[n][j] = "SUCCESS" => job'[n][j] = "SUCCESS"
        /\ resolved[n][j] \subseteq resolved'[n][j]
    BY DEF Evolves
  <1>2. view'[i].resolved[n][j] \subseteq resolved'[n][j]
    BY <1>1 DEF SeenAttempt
  <1>3. NoAttempt.no = 0 /\ NoAttempt.rev = 0 /\ NoAttempt.status = "none"
    BY DEF NoAttempt
  <1>4. QED
    BY <1>1, <1>2, <1>3 DEF SeenAttempt, AttemptOK, WellFormed

\* A process that does not move keeps what it knows.
LEMMA KeptOK ==
  ASSUME TypeOK, TypeOK', NEW k \in Invocation, Kept(k), Evolves, FreshKept(k), ProcOK(k),
         \A n \in Node : StateOK(n) /\ \A j \in Invocation : AttemptOK(n, j)',
         \A n \in Node : \A j \in Invocation : AttemptOK(n, j)
  PROVE  ProcOK(k)'
  <1>1. \A n \in Node : SeenState(k, n)'
    BY SeenStep DEF ProcOK, Kept
  <1>2. \A n \in Node, j \in Invocation : SeenAttempt(k, n, j)'
    BY SeenAttemptStep DEF ProcOK, Kept
  <1>3. ASSUME NEW n \in Node PROVE FreshOK(k, n)'
    <2>1. Ahead(k, n)' <=> Ahead(k, n)
      BY DEF Kept, Ahead
    <2>2. QED
      BY <2>1 DEF ProcOK, FreshOK, FreshKept
  <1>4. PhaseOK(k)'
    <2>1. AtOK(k)' /\ PhaseOK(k)
      BY DEF ProcOK, PhaseOK, AtOK, Kept
    <2>2. ASSUME pc[k] \in InNode \cup {"orphanState", "accept", "start"}
          PROVE  NodePhaseOK(k, Order[at[k]])'
      <3> DEFINE n == Order[at[k]]
      <3>1. n \in Node /\ NodePhaseOK(k, n)
        BY <2>1, <2>2, Positions DEF PhaseOK, AtOK
      <3>2. /\ job[n][k] = "none" => job'[n][k] = "none"
            /\ job[n][k] \in {"SUCCESS", "notBegun"} => job'[n][k] = job[n][k]
        BY <3>1 DEF Evolves, FreshKept
      <3>3. n' = n
        BY DEF Kept
      <3> HIDE DEF n
      <3>4. NodePhaseOK(k, n)'
        BY <3>1, <3>2, <3>3 DEF NodePhaseOK, Kept
      <3>5. QED
        BY <3>4, <3>3 DEF n, NodePhaseOK
    <2>3. ASSUME pc[k] \in {"orphan", "orphanState"}, NEW n \in todo[k] PROVE OrphanOK(k, n)'
      <3>1. n \in Node /\ OrphanOK(k, n)
        BY <2>1, <2>3 DEF PhaseOK, TypeOK
      <3>2. QED
        BY <3>1 DEF OrphanOK, Kept, Evolves
    <2>4. QED
      BY <2>1, <2>2, <2>3 DEF PhaseOK, Kept
  <1>5. QED
    BY <1>1, <1>2, <1>3, <1>4 DEF ProcOK

\* A node whose record is not written stays as it is.
LEMMA NodeKept ==
  ASSUME TypeOK, TypeOK', NEW n \in Node, Evolves, NodeOK(n), state'[n] = state[n],
         \A j \in Invocation : AttemptOK(n, j)' /\ (Engaged(n, j)' => Engaged(n, j))
  PROVE  NodeOK(n)'
  <1>1. StateOK(n)'
    <2>1. \A j \in Invocation :
             attempt[n][j].no # 0 => attempt'[n][j].no = attempt[n][j].no
      BY DEF Evolves
    <2>2. StateOK(n) /\ state[n].active \in Invocation \cup {None}
      BY RecordTypes DEF NodeOK, TypeOK, StateRecord
    <2>3. QED
      BY <2>1, <2>2 DEF StateOK
  <1>2. NodeTruthful(n)'
    <2>1. SUFFICES ASSUME state[n].status = "SUCCESS"
                   PROVE  \E i \in Invocation :
                             /\ attempt'[n][i].no = state[n].latest
                             /\ job'[n][i] = "SUCCESS" \/ "SUCCESS" \in resolved'[n][i]
      BY DEF NodeTruthful
    <2>2. PICK i \in Invocation : /\ attempt[n][i].no = state[n].latest
                                  /\ job[n][i] = "SUCCESS" \/ "SUCCESS" \in resolved[n][i]
      BY <2>1 DEF NodeOK, NodeTruthful
    <2>3. state[n].latest # 0
      BY <2>1 DEF NodeOK, StateOK
    <2>4. QED
      BY <2>2, <2>3 DEF Evolves
  <1>3. ASSUME n \in NonIdempotent PROVE OnceOK(n)'
    <2>1. OnceOK(n)
      BY <1>3 DEF NodeOK
    <2>2. \A j \in Invocation : Engaged(n, j)' => Engaged(n, j)
      OBVIOUS
    <2>3. QED
      BY <2>1, <2>2 DEF OnceOK
  <1>4. QED
    BY <1>1, <1>2, <1>3 DEF NodeOK

\* An attempt that is not written stays truthful.
LEMMA AttemptKept ==
  ASSUME NEW n \in Node, NEW j \in Invocation, Evolves, AttemptOK(n, j),
         attempt'[n][j] = attempt[n][j]
  PROVE  AttemptOK(n, j)'
  BY DEF AttemptOK, Evolves

\* What resolve-node read stays older than, or equal to, the record.
LEMMA ResolverKept ==
  ASSUME TypeOK, TypeOK', Evolves, ResolverOK, UNCHANGED resolver
  PROVE  ResolverOK'
  <1> SUFFICES ASSUME resolver.stage # "idle" PROVE ResolverOK'
    BY DEF ResolverOK
  <1>1. PICK n \in Node : n = resolver.node
    BY DEF TypeOK, ResolverRecord
  <1>2. /\ resolver.old.rev \in Nat /\ state[n].rev \in Nat /\ state'[n].rev \in Nat
        /\ state'[n] = state[n] \/ state'[n].rev > state[n].rev
    BY RecordTypes DEF TypeOK, ResolverRecord, StateRecord, Evolves
  <1>3. PICK j \in Invocation : j = resolver.inv
    BY DEF ResolverOK
  <1>4. /\ resolver.old.rev <= state[n].rev
        /\ resolver.old.rev = state[n].rev => resolver.old = state[n]
        /\ resolver.old.status \in {"UNKNOWN", "FAILED"}
        /\ resolver.old.latest # 0
        /\ attempt[n][j].no = resolver.old.latest
        /\ resolver.stage = "apply" => resolver.to \in resolved[n][j]
    BY <1>1, <1>3 DEF ResolverOK
  <1>5. /\ attempt'[n][j].no = resolver.old.latest
        /\ resolver.stage = "apply" => resolver.to \in resolved'[n][j]
    BY <1>4 DEF Evolves
  <1>6. /\ resolver.old.rev <= state'[n].rev
        /\ resolver.old.rev = state'[n].rev => resolver.old = state'[n]
    BY <1>2, <1>4
  <1>7. QED
    BY <1>1, <1>3, <1>4, <1>5, <1>6 DEF ResolverOK

\* Nothing the invariant speaks of changes.
LEMMA StillStep ==
  ASSUME IInv, TypeOK',
         UNCHANGED <<state, attempt, resolved, job, resolver, pc, at, todo, view, decision>>
  PROVE  IInv'
  <1>1. Evolves
    BY DEF Evolves
  <1>2. \A n \in Node : StateOK(n) /\ \A j \in Invocation : AttemptOK(n, j)
    BY DEF IInv, NodeOK
  <1>3. \A n \in Node, j \in Invocation : AttemptOK(n, j)'
    BY <1>1, <1>2, AttemptKept
  <1>4. \A n \in Node : NodeOK(n)'
    BY <1>1, <1>3, NodeKept DEF IInv, Engaged
  <1>5. \A k \in Invocation : ProcOK(k)'
    BY <1>1, <1>2, <1>3, KeptOK DEF IInv, Kept, FreshKept
  <1>6. QED
    BY <1>1, <1>4, <1>5, ResolverKept DEF IInv

\* A step of process i that writes no record of a node.
LEMMA QuietStep ==
  ASSUME IInv, TypeOK', NEW i \in Invocation, OthersKept(i), Refreshed(i),
         UNCHANGED <<state, attempt, resolved, job, resolver>>,
         PhaseOK(i)', \A n \in Node : Ahead(i, n)' => Ahead(i, n),
         pc'[i] \in {"ready", "launch"} => pc[i] \in {"ready", "launch"} /\ at'[i] = at[i]
  PROVE  IInv'
  <1>1. Evolves
    BY DEF Evolves
  <1>2. \A n \in Node : StateOK(n) /\ \A j \in Invocation : AttemptOK(n, j)
    BY DEF IInv, NodeOK
  <1>3. \A n \in Node, j \in Invocation : AttemptOK(n, j)'
    BY <1>1, <1>2, AttemptKept
  <1>4. ASSUME NEW n \in Node PROVE NodeOK(n)'
    <2>1. ASSUME NEW j \in Invocation, Engaged(n, j)' PROVE Engaged(n, j)
      BY <2>1 DEF Engaged, OthersKept, Kept
    <2>2. QED
      BY <1>1, <1>3, <2>1, NodeKept DEF IInv
  <1>5. ASSUME NEW k \in Invocation, k # i PROVE ProcOK(k)'
    BY <1>1, <1>2, <1>3, <1>5, KeptOK DEF IInv, OthersKept, FreshKept
  <1>6. ProcOK(i)'
    <2>1. ProcOK(i) /\ TypeOK
      BY DEF IInv
    <2>2. ASSUME NEW n \in Node PROVE SeenState(i, n)' /\ FreshOK(i, n)'
      <3>1. SeenState(i, n)'
        BY <1>1, <1>2, <2>1, SeenStep DEF ProcOK, Refreshed
      <3>2. FreshOK(i, n)'
        BY <2>1 DEF ProcOK, FreshOK
      <3>3. QED
        BY <3>1, <3>2
    <2>3. ASSUME NEW n \in Node, NEW j \in Invocation PROVE SeenAttempt(i, n, j)'
      BY <1>1, <1>2, <1>3, <2>1, SeenAttemptStep DEF ProcOK, Refreshed
    <2>4. QED
      BY <2>2, <2>3 DEF ProcOK
  <1>7. QED
    BY <1>1, <1>4, <1>5, <1>6, ResolverKept DEF IInv

\* The phases in which a process has nothing of its own to remember.
Plain == {"idle", "invocation", "ensure", "reconcile", "repair", "rerunRead", "begin",
          "orphanRead", "abandon", "prepareRead", "prepare", "finish", "close", "release",
          "done", "crashed"}

\* Phases in which a process need not know anything.
LEMMA PlainPhase ==
  ASSUME NEW i \in Invocation, pc'[i] \in Plain
  PROVE  PhaseOK(i)'
  BY DEF Plain, PhaseOK, AtOK, InNode

\* A step to such a phase that writes no Node State or attempt.
LEMMA PlainStep ==
  ASSUME IInv, TypeOK', NEW i \in Invocation, OthersKept(i), Refreshed(i),
         UNCHANGED <<state, attempt, resolved, job, resolver>>,
         pc'[i] \in Plain, pc'[i] \in BeforeLoop => pc[i] \in BeforeLoop
  PROVE  IInv'
  <1>1. PhaseOK(i)'
    BY PlainPhase
  <1>2. \A n \in Node : Ahead(i, n)' => Ahead(i, n)
    BY DEF Ahead, Plain, BeforeLoop, InNode
  <1>3. pc'[i] \notin {"ready", "launch"}
    BY DEF Plain
  <1>4. QED
    BY <1>1, <1>2, <1>3, QuietStep

-----------------------------------------------------------------------------
(* ensureRun *)

\* acquire and findRunInsideLock.
LEMMA OpenKeeps ==
  ASSUME IInv, NEW i \in Invocation, Open(i)
  PROVE  IInv'
  <1>1. TypeOK /\ pc[i] = "idle"
    BY DEF IInv, Open, OpenNew, OpenRefused, OpenExisting
  <1>2. UNCHANGED <<state, attempt, resolved, job, resolver, at, todo, view, decision>>
    BY DEF Open, OpenNew, OpenRefused, OpenExisting, records, scratch, env
  <1>3. /\ pc'[i] \in {"invocation", "ensure", "done"}
        /\ pc' \in [Invocation -> Phase] /\ \A k \in Invocation \ {i} : pc'[k] = pc[k]
    BY <1>1, GotoMoves DEF Open, OpenNew, OpenRefused, OpenExisting, Phase
  <1>4. TypeOK'
    <2>1. CASE OpenNew(i)
      BY <1>1, <1>3, <2>1 DEF TypeOK, OpenNew, RunRecord, RunStatus, env
    <2>2. CASE OpenRefused(i)
      BY <1>1, <1>3, <2>2 DEF TypeOK, OpenRefused, Outcome, records, scratch, env
    <2>3. CASE OpenExisting(i)
      <3>1. \A n \in Node : Descendants({n}) \in SUBSET Node
        BY DEF Descendants
      <3>2. sel' = sel \/ \E D \in SUBSET Node : sel' = [sel EXCEPT ![i] = D]
        BY <2>3, <3>1 DEF OpenExisting
      <3>3. sel' \in [Invocation -> SUBSET Node]
        BY <1>1, <3>2 DEF TypeOK
      <3>4. QED
        BY <1>1, <1>3, <2>3, <3>3 DEF TypeOK, OpenExisting, records, env
    <2>4. QED
      BY <2>1, <2>2, <2>3 DEF Open
  <1>5. QED
    BY <1>1, <1>2, <1>3, <1>4, PlainStep DEF OthersKept, Kept, Refreshed, Plain, BeforeLoop

\* createInvocation.
LEMMA CreateInvocationKeeps ==
  ASSUME IInv, NEW i \in Invocation, CreateInvocation(i)
  PROVE  IInv'
  <1>1. TypeOK /\ pc[i] = "invocation"
    BY DEF IInv, CreateInvocation
  <1>2. /\ UNCHANGED <<run, state, attempt, resolved, cancel, job, owner, view, outcome>>
        /\ UNCHANGED <<mode, at, sel, todo, excl, lease, decision, seen>>
        /\ UNCHANGED <<resolver, stopper, used, heldStarts>>
    BY DEF CreateInvocation, scratch, env
  <1>3. /\ pc'[i] \in {"begin", "ensure"}
        /\ pc' \in [Invocation -> Phase] /\ \A k \in Invocation \ {i} : pc'[k] = pc[k]
    BY <1>1, GotoMoves DEF CreateInvocation, Phase
  <1>4. TypeOK'
    BY <1>1, <1>2, <1>3 DEF TypeOK, CreateInvocation
  <1>5. QED
    BY <1>1, <1>2, <1>3, <1>4, PlainStep DEF OthersKept, Kept, Refreshed, Plain, BeforeLoop

\* reconcileRun reads all records at once.
LEMMA ReconcileReadKeeps ==
  ASSUME IInv, NEW i \in Invocation, ReconcileRead(i)
  PROVE  IInv'
  <1>1. TypeOK /\ pc[i] = "reconcile"
    BY DEF IInv, ReconcileRead
  <1> DEFINE v == [run |-> run, state |-> state, attempt |-> attempt, resolved |-> resolved]
  <1>2. UNCHANGED <<records, job, owner, scratch, outcome, env>>
    BY DEF ReconcileRead
  <1>3. /\ pc'[i] = "repair"
        /\ pc' \in [Invocation -> Phase] /\ \A k \in Invocation \ {i} : pc'[k] = pc[k]
    BY <1>1, GotoMoves DEF ReconcileRead, Phase
  <1>4. v \in View
    BY <1>1 DEF TypeOK, View
  <1>5. /\ view' \in [Invocation -> View] /\ view'[i] = v
        /\ \A k \in Invocation \ {i} : view'[k] = view[k]
    BY <1>1, <1>4 DEF ReconcileRead, TypeOK
  <1>6. Refreshed(i)
    BY <1>5 DEF Refreshed
  <1>7. TypeOK'
    BY <1>1, <1>2, <1>3, <1>5 DEF TypeOK, records, scratch, env
  <1>8. OthersKept(i)
    BY <1>2, <1>3, <1>5 DEF OthersKept, Kept, scratch
  <1>9. QED
    BY <1>1, <1>2, <1>3, <1>6, <1>7, <1>8, PlainStep DEF Plain, BeforeLoop, records, env

\* computeRunAggregateStatus is a Run status.
LEMMA AggregateType ==
  ASSUME NEW st, NEW started
  PROVE  Aggregate(st, started) \in RunStatus
  BY DEF Aggregate, RunStatus, Terminal

\* reconcileRun writes the aggregate, and goes on or refuses.
LEMMA FinishReconciliationKeeps ==
  ASSUME IInv, NEW i \in Invocation, FinishReconciliation(i)
  PROVE  IInv'
  <1>1. TypeOK /\ pc[i] = "repair"
    BY DEF IInv, FinishReconciliation
  <1>2. /\ UNCHANGED <<state, attempt, resolved, cancel, invRec, job, owner>>
        /\ UNCHANGED <<mode, at, sel, todo, excl, lease, decision, seen>>
        /\ UNCHANGED <<resolver, stopper, used, heldStarts>>
    BY DEF FinishReconciliation, scratch, env
  <1>3. /\ pc'[i] \in {"close", "rerunRead", "begin"} /\ outcome' \in [Invocation -> Outcome]
        /\ pc' \in [Invocation -> Phase] /\ \A k \in Invocation \ {i} : pc'[k] = pc[k]
    BY <1>1, GotoMoves, EndMoves DEF FinishReconciliation, Phase, TypeOK, Outcome
  <1> DEFINE s == Aggregate(Statuses(view[i]), view[i].run.started)
  <1>4. s \in RunStatus /\ run.rev + 1 \in Nat /\ run.rev \in Nat
    BY <1>1, AggregateType DEF TypeOK, RunRecord
  <1>5. run' = run \/ run' = [run EXCEPT !.status = s, !.rev = run.rev + 1]
    BY DEF FinishReconciliation
  <1> HIDE DEF s
  <1>6. run' \in RunRecord
    BY <1>1, <1>4, <1>5 DEF TypeOK, RunRecord
  <1>7. /\ view' \in [Invocation -> View] /\ \A k \in Invocation \ {i} : view'[k] = view[k]
        /\ view'[i].state = view[i].state
        /\ view'[i].attempt = view[i].attempt /\ view'[i].resolved = view[i].resolved
    BY <1>1, <1>6, RunWritten DEF FinishReconciliation
  <1>8. TypeOK'
    BY <1>1, <1>2, <1>3, <1>6, <1>7 DEF TypeOK
  <1>9. OthersKept(i) /\ Refreshed(i)
    BY <1>2, <1>3, <1>7 DEF OthersKept, Kept, Refreshed
  <1>10. QED
    BY <1>1, <1>2, <1>3, <1>8, <1>9, PlainStep DEF Plain, BeforeLoop

-----------------------------------------------------------------------------
(* Faults, the end of an invocation and the control steps of the scheduler *)

\* The variables the invariant does not speak of keep their types.
RestTypes ==
    /\ run' \in RunRecord
    /\ cancel' \in [state : {"none", "REQUESTED", "ACCEPTED", "RELEASED"}, rev : Nat]
    /\ invRec' \in [Invocation -> {"none", "RUNNING"} \cup Terminal]
    /\ owner' \in Invocation \cup {None}
    /\ mode' \in [Invocation -> {"NEW", "RESUME", "RERUN_FROM"}]
    /\ sel' \in [Invocation -> SUBSET Node]
    /\ excl' \in [Invocation -> SUBSET Node]
    /\ lease' \in [Invocation -> {"HELD", "UNCERTAIN", "FINAL"}]
    /\ seen' \in [Invocation -> Nat]
    /\ outcome' \in [Invocation -> Outcome]
    /\ stopper' \in StopperRecord
    /\ used' \in [faults : Nat, calls : Nat]
    /\ heldStarts' \in Nat

\* The counters of the bounds.
LEMMA UsedType ==
  ASSUME TypeOK
  PROVE  /\ [used EXCEPT !.faults = used.faults + 1] \in [faults : Nat, calls : Nat]
         /\ [used EXCEPT !.calls = used.calls + 1] \in [faults : Nat, calls : Nat]
  <1>1. used \in [faults : Nat, calls : Nat]
    BY DEF TypeOK
  <1>2. PICK x \in Nat, y \in Nat : x = used.faults + 1 /\ y = used.calls + 1
    <2>1. used.faults \in Nat /\ used.calls \in Nat
      BY <1>1
    <2>2. QED
      BY ONLY <2>1
  <1>3. [used EXCEPT !.faults = x] \in [faults : Nat, calls : Nat]
    BY ONLY <1>1, x \in Nat
  <1>4. [used EXCEPT !.calls = y] \in [faults : Nat, calls : Nat]
    BY ONLY <1>1, y \in Nat
  <1>5. QED
    BY <1>2, <1>3, <1>4

\* finalizeInvocation at the end.
LEMMA CloseKeeps ==
  ASSUME IInv, NEW i \in Invocation, Close(i)
  PROVE  IInv'
  <1>1. TypeOK /\ pc[i] = "close"
    BY DEF IInv, Close
  <1>2. /\ UNCHANGED <<run, state, attempt, resolved, cancel, job, owner, view, outcome>>
        /\ UNCHANGED <<mode, at, sel, todo, excl, lease, decision, seen>>
        /\ UNCHANGED <<resolver, stopper, used, heldStarts>>
    BY DEF Close, scratch, env
  <1>3. /\ pc'[i] = "release"
        /\ pc' \in [Invocation -> Phase] /\ \A k \in Invocation \ {i} : pc'[k] = pc[k]
    BY <1>1, GotoMoves DEF Close, Phase
  <1>4. InvocationStatus(i) \in Terminal
    BY DEF InvocationStatus, Terminal
  <1>5. invRec' \in [Invocation -> {"none", "RUNNING"} \cup Terminal]
    BY <1>1, <1>4 DEF Close, FinalizeInvocation, TypeOK
  <1>6. TypeOK'
    BY <1>1, <1>2, <1>3, <1>5 DEF TypeOK
  <1>7. QED
    BY <1>1, <1>2, <1>3, <1>6, PlainStep DEF OthersKept, Kept, Refreshed, Plain, BeforeLoop

\* The process is gone: its memory is empty again.
LEMMA GoneStep ==
  ASSUME IInv, NEW i \in Invocation, NEW p \in {"done", "crashed"}, Goto(i, p), Forget(i),
         UNCHANGED <<records, job, resolver, stopper, heldStarts>>,
         outcome' \in [Invocation -> Outcome], used' \in [faults : Nat, calls : Nat],
         owner' \in Invocation \cup {None}
  PROVE  IInv'
  <1>1. TypeOK
    BY DEF IInv
  <1>2. /\ pc'[i] \in {"done", "crashed"}
        /\ pc' \in [Invocation -> Phase] /\ \A k \in Invocation \ {i} : pc'[k] = pc[k]
    BY <1>1, GotoMoves DEF Phase
  <1>3. /\ at' \in [Invocation -> Nat] /\ sel' \in [Invocation -> SUBSET Node]
        /\ todo' \in [Invocation -> SUBSET Node] /\ excl' \in [Invocation -> SUBSET Node]
        /\ view' \in [Invocation -> View]
        /\ lease' \in [Invocation -> {"HELD", "UNCERTAIN", "FINAL"}]
        /\ decision' \in [Invocation -> [Node -> Decision]]
        /\ seen' \in [Invocation -> Nat] /\ mode' = mode
        /\ view'[i] = NoView
        /\ \A k \in Invocation \ {i} :
              /\ at'[k] = at[k] /\ todo'[k] = todo[k] /\ view'[k] = view[k]
              /\ decision'[k] = decision[k]
    BY <1>1, ForgetMoves
  <1>4. TypeOK'
    BY <1>1, <1>2, <1>3 DEF TypeOK, records
  <1>5. Refreshed(i)
    BY <1>3 DEF Refreshed, NoView
  <1>6. OthersKept(i)
    BY <1>2, <1>3 DEF OthersKept, Kept
  <1>7. QED
    BY <1>2, <1>4, <1>5, <1>6, PlainStep DEF Plain, BeforeLoop, records

\* A process gives up, or moves to a phase with nothing to remember.
LEMMA LeaveStep ==
  ASSUME IInv, NEW i \in Invocation, NEW p \in {"close", "release", "finish"}, Goto(i, p),
         UNCHANGED <<state, attempt, resolved, job, view, at, todo, decision, resolver>>,
         RestTypes
  PROVE  IInv'
  <1>1. TypeOK
    BY DEF IInv
  <1>2. /\ pc'[i] \in {"close", "release", "finish"}
        /\ pc' \in [Invocation -> Phase] /\ \A k \in Invocation \ {i} : pc'[k] = pc[k]
    BY <1>1, GotoMoves DEF Phase
  <1>3. TypeOK'
    BY <1>1, <1>2 DEF TypeOK, RestTypes
  <1>4. QED
    BY <1>2, <1>3, PlainStep DEF OthersKept, Kept, Refreshed, Plain, BeforeLoop

\* A lost lease, an error, a crash and release.
LEMMA FaultsKeep ==
  ASSUME IInv, NEW i \in Invocation, Faults(i) \/ Release(i)
  PROVE  IInv'
  <1>1. TypeOK
    BY DEF IInv
  <1>2. Fault => used' \in [faults : Nat, calls : Nat]
    BY <1>1, UsedType DEF Fault
  <1>3. CASE LoseLease(i)
    <2>1. TypeOK'
      BY <1>1, <1>2, <1>3 DEF LoseLease, TypeOK, records
    <2>2. QED
      BY <1>3, <2>1, StillStep DEF LoseLease, records
  <1>4. CASE Crash(i)
    <2>1. outcome' \in [Invocation -> Outcome]
      BY <1>1, <1>4 DEF Crash, TypeOK, Outcome
    <2>2. QED
      BY <1>1, <1>2, <1>4, <2>1, GoneStep DEF Crash, TypeOK
  <1>5. CASE Release(i)
    <2>1. owner' \in Invocation \cup {None}
      BY <1>1, <1>5 DEF Release, TypeOK
    <2>2. QED
      BY <1>1, <1>5, <2>1, GoneStep DEF Release, TypeOK, env
  <1>6. CASE Fail(i)
    <2>1. UNCHANGED <<records, job, owner, resolver, stopper, heldStarts>> /\ Fault
      BY <1>6 DEF Fail
    <2>2. CASE End(i, "failed") /\ UNCHANGED <<scratch, view>>
      <3>1. outcome' \in [Invocation -> Outcome] /\ Goto(i, "close")
        BY <1>1, <2>2 DEF End, TypeOK, Outcome
      <3>2. RestTypes
        BY <1>1, <1>2, <2>1, <2>2, <3>1 DEF RestTypes, TypeOK, records, scratch
      <3>3. QED
        BY <2>1, <2>2, <3>1, <3>2, LeaveStep DEF records, scratch
    <2>3. CASE Goto(i, "release") /\ UNCHANGED <<outcome, scratch, view>>
      <3>1. RestTypes
        BY <1>1, <1>2, <2>1, <2>3 DEF RestTypes, TypeOK, records, scratch
      <3>2. QED
        BY <2>1, <2>3, <3>1, LeaveStep DEF records, scratch
    <2>4. CASE Goto(i, "done") /\ Forget(i) /\ UNCHANGED outcome
      BY <1>1, <1>2, <2>1, <2>4, GoneStep DEF TypeOK
    <2>5. QED
      BY <1>6, <2>2, <2>3, <2>4 DEF Fail
  <1>7. QED
    BY <1>3, <1>4, <1>5, <1>6 DEF Faults

\* force-unlock-network changes no record of the Run.
LEMMA ForceUnlockKeeps ==
  ASSUME IInv, ForceUnlock
  PROVE  IInv'
  <1>1. TypeOK'
    BY DEF IInv, TypeOK, ForceUnlock, records, scratch, env
  <1>2. QED
    BY <1>1, StillStep DEF ForceUnlock, records, scratch, env

\* cancel-run writes the CANCEL_REQUEST only.
LEMMA StopKeeps ==
  ASSUME IInv, Stop
  PROVE  IInv'
  <1>1. TypeOK
    BY DEF IInv
  <1>2. ASSUME NEW to \in {"REQUESTED", "RELEASED"}, StopRead(to) PROVE IInv'
    <2>1. used' \in [faults : Nat, calls : Nat]
      BY <1>1, <1>2, UsedType DEF StopRead
    <2>2. stopper' \in StopperRecord
      BY <1>1, <1>2 DEF StopRead, StopperRecord, TypeOK
    <2>3. TypeOK'
      BY <1>1, <1>2, <2>1, <2>2 DEF TypeOK, StopRead, records, scratch
    <2>4. QED
      BY <1>2, <2>3, StillStep DEF StopRead, records, scratch
  <1>3. CASE StopWrite
    <2>1. stopper \in StopperRecord /\ cancel.rev \in Nat
      BY <1>1 DEF TypeOK
    <2>2. cancel' \in [state : {"none", "REQUESTED", "ACCEPTED", "RELEASED"}, rev : Nat]
      BY <1>1, <1>3, <2>1 DEF StopWrite, StopperRecord, TypeOK
    <2>3. stopper' \in StopperRecord /\ heldStarts' \in Nat
      BY <1>1, <1>3 DEF StopWrite, StopperRecord, NoStopper, TypeOK
    <2>4. TypeOK'
      BY <1>1, <1>3, <2>2, <2>3 DEF TypeOK, StopWrite, scratch
    <2>5. QED
      BY <1>3, <2>4, StillStep DEF StopWrite, scratch
  <1>4. QED
    BY <1>2, <1>3 DEF Stop

\* A step that writes the Run, or nothing, and goes to a plain phase.
LEMMA RunStep ==
  ASSUME IInv, NEW i \in Invocation, NEW s \in RunStatus, NEW started \in {"no", "yes"},
         NEW next \in {"prepareRead", "orphanRead", "close"}, NEW how \in Outcome,
         PutRun(i, s, started, next, how), next # "close" => pc[i] \in BeforeLoop,
         UNCHANGED <<state, attempt, resolved, cancel, invRec, job, owner, scratch, env>>
  PROVE  IInv'
  <1>1. TypeOK /\ next \in Phase
    BY DEF IInv, Phase
  <1>2. /\ run' \in RunRecord /\ view' \in [Invocation -> View]
        /\ pc' \in [Invocation -> Phase] /\ outcome' \in [Invocation -> Outcome]
        /\ \A k \in Invocation \ {i} : pc'[k] = pc[k] /\ view'[k] = view[k]
        /\ view'[i].state = view[i].state /\ view'[i].attempt = view[i].attempt
        /\ view'[i].resolved = view[i].resolved
        /\ pc'[i] = next \/ pc'[i] = "close"
    BY <1>1, PutRunMoves
  <1>3. TypeOK'
    BY <1>1, <1>2 DEF TypeOK, scratch, env
  <1>4. OthersKept(i) /\ Refreshed(i)
    BY <1>2 DEF OthersKept, Kept, Refreshed, scratch
  <1>5. QED
    BY <1>2, <1>3, <1>4, PlainStep DEF Plain, BeforeLoop, env

\* A step that changes nothing of what the invariant speaks of but the phase.
LEMMA PhaseStep ==
  ASSUME IInv, NEW i \in Invocation,
         NEW p \in {"reconcile", "invocation", "abandon", "prepareRead", "orphanRead"},
         Goto(i, p), pc[i] \in BeforeLoop,
         UNCHANGED <<state, attempt, resolved, job, view, at, todo, decision, resolver>>,
         RestTypes
  PROVE  IInv'
  <1>1. TypeOK
    BY DEF IInv
  <1>2. /\ pc'[i] = p
        /\ pc' \in [Invocation -> Phase] /\ \A k \in Invocation \ {i} : pc'[k] = pc[k]
    BY <1>1, GotoMoves DEF Phase
  <1>3. TypeOK'
    BY <1>1, <1>2 DEF TypeOK, RestTypes
  <1>4. QED
    BY <1>2, <1>3, PlainStep DEF OthersKept, Kept, Refreshed, Plain, BeforeLoop

\* The aggregate at the start and at the end of the scheduler.
LEMMA RunStartedKeeps ==
  ASSUME IInv, NEW i \in Invocation, EnsureRunStarted(i) \/ FinishLoop(i)
  PROVE  IInv'
  <1>1. TypeOK /\ view[i] \in View /\ view[i].run \in RunRecord
    BY DEF IInv, TypeOK, View
  <1>2. view[i].run.started \in {"no", "yes"} /\ "RUNNING" \in RunStatus
    BY <1>1 DEF RunRecord, RunStatus
  <1>3. CASE FinishLoop(i)
    <2> DEFINE s == Aggregate(Statuses(view[i]), view[i].run.started)
    <2>1. s \in RunStatus
      BY AggregateType
    <2>2. /\ PutRun(i, s, view[i].run.started, "close", "finished")
          /\ UNCHANGED <<state, attempt, resolved, cancel, invRec, job, owner, scratch, env>>
      BY <1>3 DEF FinishLoop
    <2> HIDE DEF s
    <2>3. QED
      BY <1>2, <2>1, <2>2, RunStep DEF Outcome
  <1>4. CASE EnsureRunStarted(i)
    <2>1. PICK next \in {"prepareRead", "orphanRead"} :
             next = IF mode[i] = "NEW" THEN "prepareRead" ELSE "orphanRead"
      OBVIOUS
    <2>2. /\ pc[i] = "begin"
          /\ UNCHANGED <<state, attempt, resolved, cancel, invRec, job, owner, scratch, env>>
      BY <1>4 DEF EnsureRunStarted
    <2>3. CASE PutRun(i, "RUNNING", "yes", next, "none")
      BY <1>2, <2>2, <2>3, RunStep DEF Outcome, BeforeLoop
    <2>4. CASE Goto(i, next) /\ UNCHANGED <<run, view, outcome>>
      <3>1. RestTypes
        BY <1>1, <2>2, <2>4 DEF RestTypes, TypeOK, scratch, env
      <3>2. QED
        BY <2>2, <2>4, <3>1, PhaseStep DEF scratch, env, BeforeLoop
    <2>5. QED
      BY <1>4, <2>1, <2>3, <2>4 DEF EnsureRunStarted
  <1>5. QED
    BY <1>3, <1>4

\* finalizeAbandonedInvocations writes invocation records only.
LEMMA FinalizeAbandonedKeeps ==
  ASSUME IInv, NEW i \in Invocation, FinalizeAbandoned(i)
  PROVE  IInv'
  <1>1. /\ TypeOK /\ pc[i] = "abandon"
        /\ UNCHANGED <<run, state, attempt, resolved, cancel, job, owner, view, outcome, scratch, env>>
    BY DEF IInv, FinalizeAbandoned
  <1>2. ASSUME NEW j \in Invocation, invRec' = FinalizeInvocation(j, "CANCELLED"), UNCHANGED pc
        PROVE  IInv'
    <2>1. invRec' \in [Invocation -> {"none", "RUNNING"} \cup Terminal]
      BY <1>1, <1>2 DEF FinalizeInvocation, TypeOK, Terminal
    <2>2. TypeOK'
      BY <1>1, <1>2, <2>1 DEF TypeOK, scratch, env
    <2>3. QED
      BY <1>1, <1>2, <2>2, StillStep DEF scratch, env
  <1>3. CASE Goto(i, "prepareRead") /\ UNCHANGED invRec
    <2>1. RestTypes
      BY <1>1, <1>3 DEF RestTypes, TypeOK, scratch, env
    <2>2. QED
      BY <1>1, <1>3, <2>1, PhaseStep DEF scratch, env, BeforeLoop
  <1>4. QED
    BY <1>2, <1>3 DEF FinalizeAbandoned

\* The states in memory are read anew.
LEMMA StatesRead ==
  ASSUME TypeOK, NEW i \in Invocation, view' = [view EXCEPT ![i].state = state]
  PROVE  /\ view' \in [Invocation -> View] /\ \A k \in Invocation \ {i} : view'[k] = view[k]
         /\ view'[i].state = state /\ view'[i].run = view[i].run
         /\ view'[i].attempt = view[i].attempt /\ view'[i].resolved = view[i].resolved
  <1>1. view[i] \in View /\ state \in [Node -> StateRecord]
    BY DEF TypeOK
  <1>2. /\ view' = [view EXCEPT ![i] = [view[i] EXCEPT !.state = state]]
        /\ view'[i] = [view[i] EXCEPT !.state = state]
        /\ \A k \in Invocation \ {i} : view'[k] = view[k]
    BY DEF TypeOK
  <1>3. /\ view'[i] \in View /\ view'[i].state = state /\ view'[i].run = view[i].run
        /\ view'[i].attempt = view[i].attempt /\ view'[i].resolved = view[i].resolved
    BY <1>1, <1>2 DEF View
  <1>4. view' \in [Invocation -> View]
    BY <1>2, <1>3 DEF TypeOK
  <1>5. QED
    BY <1>2, <1>3, <1>4

\* The states are read again before a resume is prepared.
LEMMA ReadStatesKeeps ==
  ASSUME IInv, NEW i \in Invocation, ReadStates(i)
  PROVE  IInv'
  <1>1. /\ TypeOK /\ pc[i] = "prepareRead"
        /\ UNCHANGED <<records, job, owner, mode, at, sel, excl, lease, decision, seen, outcome,
                       env>>
    BY DEF IInv, ReadStates
  <1>2. /\ view' \in [Invocation -> View] /\ \A k \in Invocation \ {i} : view'[k] = view[k]
        /\ view'[i].state = state /\ view'[i].attempt = view[i].attempt
        /\ view'[i].resolved = view[i].resolved
    BY <1>1, StatesRead DEF ReadStates
  <1>3. /\ pc'[i] = "prepare"
        /\ pc' \in [Invocation -> Phase] /\ \A k \in Invocation \ {i} : pc'[k] = pc[k]
    BY <1>1, GotoMoves DEF ReadStates, Phase
  <1>4. /\ todo' \in [Invocation -> SUBSET Node]
        /\ \A k \in Invocation \ {i} : todo'[k] = todo[k]
    BY <1>1 DEF ReadStates, TypeOK
  <1>5. TypeOK'
    BY <1>1, <1>2, <1>3, <1>4 DEF TypeOK, records, env
  <1>6. OthersKept(i) /\ Refreshed(i)
    BY <1>1, <1>2, <1>3, <1>4 DEF OthersKept, Kept, Refreshed
  <1>7. QED
    BY <1>1, <1>3, <1>5, <1>6, PlainStep DEF Plain, BeforeLoop, records, env

\* The lease of a process is confirmed, or its loss ends it.
LEMMA LeaseKeeps ==
  ASSUME IInv, NEW i \in Invocation,
         ConfirmForDrain(i) \/ LeaseInterrupted(i) \/ StartRefused(i)
  PROVE  IInv'
  <1>1. TypeOK
    BY DEF IInv
  <1>2. CASE ConfirmForDrain(i)
    <2>1. TypeOK'
      BY <1>1, <1>2 DEF ConfirmForDrain, TypeOK, records, env
    <2>2. QED
      BY <1>2, <2>1, StillStep DEF ConfirmForDrain, records, env
  <1>3. CASE LeaseInterrupted(i)
    <2>1. outcome' \in [Invocation -> Outcome] /\ Goto(i, "close")
      BY <1>1, <1>3 DEF LeaseInterrupted, End, TypeOK, Outcome
    <2>2. RestTypes
      BY <1>1, <1>3, <2>1 DEF LeaseInterrupted, RestTypes, TypeOK, records, scratch, env
    <2>3. QED
      BY <1>3, <2>1, <2>2, LeaveStep DEF LeaseInterrupted, records, scratch, env
  <1>4. CASE StartRefused(i)
    <2>1. RestTypes
      BY <1>1, <1>4 DEF StartRefused, RestTypes, TypeOK, records, scratch, env
    <2>2. QED
      BY <1>4, <2>1, LeaveStep DEF StartRefused, records, scratch, env
  <1>5. QED
    BY <1>2, <1>3, <1>4

-----------------------------------------------------------------------------
(* Writes of Node States *)

\* The transition table: what may follow what.
LEMMA Transitions ==
  ASSUME NEW x, NEW y, <<x, y>> \in AllowedTransition \cup ResolutionTransition
  PROVE  /\ x # "none" /\ y # "none"
         /\ y = "BLOCKED" => x \in {"WAITING", "BLOCKED"}
         /\ x \in {"WAITING", "BLOCKED"} => y \in {"WAITING", "RUNNING", "BLOCKED"}
         /\ y = "RUNNING" => x \in {"WAITING", "RUNNING"}
         /\ x = "SUCCESS" => y \in {"SUCCESS", "WAITING"}
  BY DEF AllowedTransition, ResolutionTransition, NodeStatus, Terminal

\* A write that is not a claim keeps what is true of its node, if nobody is
\* engaged in a non-idempotent node that becomes WAITING and a SUCCESS is true.
LEMMA WrittenNode ==
  ASSUME TypeOK, TypeOK', NEW n \in Node, NodeOK(n), UNCHANGED <<attempt, resolved, job>>,
         NEW s \in NodeStatus \ {"RUNNING"}, NEW a \in {None, state[n].active},
         state'[n] = [status |-> s, rev |-> state[n].rev + 1, latest |-> state[n].latest,
                      active |-> a],
         <<state[n].status, s>> \in AllowedTransition \cup ResolutionTransition,
         \A j \in Invocation : Engaged(n, j)' => Engaged(n, j),
         s = "WAITING" /\ n \in NonIdempotent => \A j \in Invocation : ~Engaged(n, j),
         s = "SUCCESS" => \E j \in Invocation :
                             /\ attempt[n][j].no = state[n].latest
                             /\ job[n][j] = "SUCCESS" \/ "SUCCESS" \in resolved[n][j]
  PROVE  NodeOK(n)'
  <1>1. /\ state[n].rev \in Nat /\ state[n].latest \in Nat
        /\ state[n].active \in Invocation \cup {None}
    BY RecordTypes DEF TypeOK, StateRecord
  <1>2. /\ state'[n].status = s /\ state'[n].rev = state[n].rev + 1
        /\ state'[n].latest = state[n].latest /\ state'[n].active = a
    OBVIOUS
  <1>3. /\ state[n].status # "none" /\ s # "none" /\ s # "RUNNING"
        /\ s = "BLOCKED" => state[n].status \in {"WAITING", "BLOCKED"}
        /\ state[n].status \in {"WAITING", "BLOCKED"} => s \in {"WAITING", "BLOCKED"}
    BY Transitions
  <1>4. StateOK(n)'
    <2>1. state'[n].rev # 0
      BY <1>1, <1>2
    <2>2. StateOK(n)
      BY DEF NodeOK
    <2>3. state'[n].latest = 0 => state'[n].status \in {"none", "WAITING", "BLOCKED"}
      BY <1>2, <1>3, <2>2 DEF StateOK
    <2>4. state'[n].active # None =>
             state'[n].latest # 0 /\ attempt'[n][state'[n].active].no = state'[n].latest
      BY <1>2, <2>2 DEF StateOK
    <2>5. QED
      BY <1>2, <1>3, <2>1, <2>3, <2>4 DEF StateOK
  <1>5. NodeTruthful(n)'
    BY <1>2 DEF NodeTruthful
  <1>6. ASSUME n \in NonIdempotent PROVE OnceOK(n)'
    <2>1. OnceOK(n)
      BY <1>6 DEF NodeOK
    <2>2. s \in {"WAITING", "BLOCKED"} => \A j \in Invocation : ~Engaged(n, j)'
      BY <1>3, <1>6, <2>1 DEF OnceOK
    <2>3. \A j \in Invocation : Engaged(n, j)' => Engaged(n, j)
      OBVIOUS
    <2>4. QED
      BY <1>2, <1>3, <2>1, <2>2, <2>3 DEF OnceOK
  <1>7. \A j \in Invocation : AttemptOK(n, j)'
    BY DEF NodeOK, AttemptOK
  <1>8. QED
    BY <1>4, <1>5, <1>6, <1>7 DEF NodeOK

\* A process writes one Node State.
LEMMA WriteStep ==
  ASSUME IInv, TypeOK', NEW i \in Invocation, NEW n \in Node, OthersKept(i),
         UNCHANGED <<attempt, resolved, job, resolver>>,
         NEW s, NEW l, NEW a, WroteState(i, n, s, l, a), NodeOK(n)', PhaseOK(i)',
         \A m \in Node : Ahead(i, m)' => Ahead(i, m),
         \A m \in Node \ {n} : \A j \in Invocation : Engaged(m, j)' => Engaged(m, j)
  PROVE  IInv'
  <1>1. TypeOK /\ ProcOK(i)
    BY DEF IInv
  <1>2. Evolves
    <2>1. state[n].rev \in Nat /\ state'[n].rev = state[n].rev + 1
      BY <1>1, RecordTypes DEF WroteState
    <2>2. \A m \in Node : state'[m] = state[m] \/ state'[m].rev > state[m].rev
      BY <2>1 DEF WroteState
    <2>3. QED
      BY <2>2 DEF Evolves
  <1>3. \A m \in Node : StateOK(m) /\ \A j \in Invocation : AttemptOK(m, j)
    BY DEF IInv, NodeOK
  <1>4. \A m \in Node, j \in Invocation : AttemptOK(m, j)'
    BY <1>2, <1>3, AttemptKept
  <1>5. ASSUME NEW m \in Node PROVE NodeOK(m)'
    <2>1. CASE m = n
      BY <2>1
    <2>2. CASE m # n
      BY <1>1, <1>2, <1>4, <2>2, NodeKept DEF IInv, WroteState
    <2>3. QED
      BY <2>1, <2>2
  <1>6. ASSUME NEW k \in Invocation, k # i PROVE ProcOK(k)'
    BY <1>1, <1>2, <1>3, <1>4, <1>6, KeptOK DEF IInv, OthersKept, FreshKept
  <1>7. ProcOK(i)'
    <2>1. Refreshed(i)
      BY DEF Refreshed, WroteState
    <2>2. ASSUME NEW m \in Node PROVE SeenState(i, m)' /\ FreshOK(i, m)'
      <3>1. SeenState(i, m)'
        BY <1>1, <1>2, <1>3, <2>1, SeenStep DEF ProcOK, Refreshed
      <3>2. FreshOK(i, m)'
        BY <1>1 DEF ProcOK, FreshOK
      <3>3. QED
        BY <3>1, <3>2
    <2>3. ASSUME NEW m \in Node, NEW j \in Invocation PROVE SeenAttempt(i, m, j)'
      BY <1>1, <1>2, <1>3, <1>4, <2>1, SeenAttemptStep DEF ProcOK, Refreshed
    <2>4. QED
      BY <2>2, <2>3 DEF ProcOK
  <1>8. QED
    BY <1>1, <1>2, <1>5, <1>6, <1>7, ResolverKept DEF IInv

\* upsertNodeState by a process, of anything but a claim.
LEMMA PutStateKeeps ==
  ASSUME IInv, NEW i \in Invocation, NEW n \in Node, NEW s \in NodeStatus \ {"RUNNING"},
         NEW a \in {None, view[i].state[n].active}, NEW r \in BOOLEAN, NEW next \in Phase,
         PutState(i, n, s, view[i].state[n].latest, a, r, next),
         view[i].state[n] = state[n] /\ s = "WAITING" /\ n \in NonIdempotent =>
            \A j \in Invocation : ~Engaged(n, j),
         view[i].state[n] = state[n] /\ s = "SUCCESS" =>
            \E j \in Invocation : /\ attempt[n][j].no = state[n].latest
                                  /\ job[n][j] = "SUCCESS" \/ "SUCCESS" \in resolved[n][j],
         UNCHANGED <<run, attempt, resolved, cancel, invRec, job, owner, mode, at, sel, lease,
                     decision, seen, env>>,
         excl' \in [Invocation -> SUBSET Node], todo' \in [Invocation -> SUBSET Node],
         \A k \in Invocation \ {i} : todo'[k] = todo[k],
         \/ next \in BeforeLoop /\ pc[i] \in BeforeLoop
         \/ next = "blocked" /\ pc[i] = "loop"
         \/ next = "aggregate" /\ pc[i] = "apply",
         pc'[i] = next /\ WroteState(i, n, s, view[i].state[n].latest, a) => PhaseOK(i)'
  PROVE  IInv'
  <1>1. TypeOK /\ ProcOK(i) /\ NodeOK(n)
    BY DEF IInv
  <1>2. /\ view[i].state[n].latest \in Nat /\ a \in Invocation \cup {None} /\ s \in NodeStatus
        /\ state[n] \in StateRecord /\ view[i].state[n] \in StateRecord
    BY <1>1, RecordTypes
  <1>3. PICK l \in Nat : l = view[i].state[n].latest
    BY <1>2
  <1>4. PutState(i, n, s, l, a, r, next)
    BY <1>3
  <1>5. /\ state' \in [Node -> StateRecord] /\ view' \in [Invocation -> View]
        /\ pc' \in [Invocation -> Phase] /\ outcome' \in [Invocation -> Outcome]
        /\ \A k \in Invocation \ {i} : pc'[k] = pc[k] /\ view'[k] = view[k]
        /\ \/ /\ StateWritable(n, view[i].state[n], s, r)
              /\ WroteState(i, n, s, l, a) /\ pc'[i] = next
           \/ /\ pc'[i] = "close" /\ UNCHANGED <<state, view>>
    BY ONLY <1>1, <1>2, <1>4, i \in Invocation, n \in Node, l \in Nat, r \in BOOLEAN,
            next \in Phase, PutStateMoves
  <1>6. TypeOK'
    BY <1>1, <1>5 DEF TypeOK, env
  <1>7. OthersKept(i)
    BY <1>5 DEF OthersKept, Kept
  <1>8. CASE pc'[i] = "close" /\ UNCHANGED <<state, view>>
    BY <1>6, <1>7, <1>8, PlainStep DEF Plain, BeforeLoop, Refreshed, env
  <1>9. CASE /\ StateWritable(n, view[i].state[n], s, r)
             /\ WroteState(i, n, s, l, a) /\ pc'[i] = next
    <2>1. view[i].state[n] = state[n]
      BY <1>1, <1>9 DEF WroteState, ProcOK, SeenState
    <2>2. <<state[n].status, s>> \in AllowedTransition \cup ResolutionTransition
      BY <1>9 DEF StateWritable
    <2>3. state'[n] = [status |-> s, rev |-> state[n].rev + 1, latest |-> state[n].latest,
                       active |-> a]
      BY <1>3, <1>9, <2>1 DEF WroteState
    <2>4. next \notin {"ready", "launch"}
      BY DEF BeforeLoop
    <2>5. \A m \in Node, j \in Invocation : Engaged(m, j)' => Engaged(m, j)
      BY <1>7, <1>9, <2>4 DEF Engaged, OthersKept, Kept
    <2>6. NodeOK(n)'
      BY <1>1, <1>6, <2>1, <2>2, <2>3, <2>5, WrittenNode
    <2>7. \A m \in Node : Ahead(i, m)' => Ahead(i, m)
      BY <1>1, <1>9, RecordTypes DEF Ahead, BeforeLoop, InNode
    <2>8. UNCHANGED <<attempt, resolved, job, resolver>> /\ PhaseOK(i)'
      BY <1>3, <1>9 DEF env
    <2>9. QED
      BY <1>6, <1>7, <1>9, <2>5, <2>6, <2>7, <2>8, WriteStep
  <1>10. QED
    BY <1>5, <1>8, <1>9

\* ensureNodeStates
LEMMA EnsureNodeStatesKeeps ==
  ASSUME IInv, NEW i \in Invocation, EnsureNodeStates(i)
  PROVE  IInv'
  <1>1. /\ TypeOK /\ pc[i] = "ensure"
        /\ UNCHANGED <<run, attempt, resolved, cancel, invRec, job, owner, scratch, view, outcome,
                       env>>
    BY DEF IInv, EnsureNodeStates
  <1>2. CASE Goto(i, "reconcile") /\ UNCHANGED state
    <2>1. RestTypes
      BY <1>1 DEF RestTypes, TypeOK, scratch, env
    <2>2. QED
      BY <1>1, <1>2, <2>1, PhaseStep DEF scratch, env, BeforeLoop
  <1>3. ASSUME NEW n \in Node, state[n].status = "none", UNCHANGED pc,
               state' = [state EXCEPT ![n] = [status |-> "WAITING", rev |-> 1, latest |-> 0,
                                              active |-> None]]
        PROVE  IInv'
    <2>1. [status |-> "WAITING", rev |-> 1, latest |-> 0, active |-> None] \in StateRecord
      BY DEF StateRecord, NodeStatus
    <2>2. /\ state' \in [Node -> StateRecord]
          /\ state'[n].status = "WAITING" /\ state'[n].rev = 1 /\ state'[n].latest = 0
          /\ state'[n].active = None
          /\ \A m \in Node \ {n} : state'[m] = state[m]
      BY <1>1, <1>3, <2>1 DEF TypeOK
    <2>3. TypeOK'
      BY <1>1, <1>3, <2>2 DEF TypeOK, scratch, env
    <2>4. state[n].rev = 0 /\ NodeOK(n)
      BY <1>3 DEF IInv, NodeOK, StateOK
    <2>5. Evolves
      BY <2>2, <2>4, <1>1 DEF Evolves
    <2>6. \A m \in Node : StateOK(m) /\ \A j \in Invocation : AttemptOK(m, j)
      BY DEF IInv, NodeOK
    <2>7. \A m \in Node, j \in Invocation : AttemptOK(m, j)'
      BY <1>1, <2>5, <2>6, AttemptKept
    <2>8. \A m \in Node, j \in Invocation : Engaged(m, j)' <=> Engaged(m, j)
      BY <1>1, <1>3 DEF Engaged, scratch
    <2>9. NodeOK(n)'
      <3>1. StateOK(n)' /\ NodeTruthful(n)'
        BY <2>2 DEF StateOK, NodeTruthful
      <3>2. n \in NonIdempotent => OnceOK(n)'
        BY <1>3, <2>2, <2>4, <2>8 DEF NodeOK, OnceOK
      <3>3. QED
        BY <2>7, <3>1, <3>2 DEF NodeOK
    <2>10. ASSUME NEW m \in Node, m # n PROVE NodeOK(m)'
      BY <1>1, <2>2, <2>3, <2>5, <2>7, <2>8, <2>10, NodeKept DEF IInv
    <2>11. ASSUME NEW k \in Invocation PROVE ProcOK(k)'
      <3>1. Kept(k) /\ FreshKept(k)
        BY <1>1, <1>3 DEF Kept, FreshKept, scratch
      <3>2. QED
        BY <1>1, <2>3, <2>5, <2>6, <2>7, <3>1, KeptOK DEF IInv
    <2>12. QED
      BY <1>1, <2>3, <2>5, <2>9, <2>10, <2>11, ResolverKept DEF IInv, env
  <1>4. QED
    BY <1>2, <1>3 DEF EnsureNodeStates

\* repairState
LEMMA ApplyTerminalAttemptKeeps ==
  ASSUME IInv, NEW i \in Invocation, ApplyTerminalAttempt(i)
  PROVE  IInv'
  <1>1. /\ TypeOK /\ ProcOK(i) /\ pc[i] = "repair"
        /\ UNCHANGED <<run, attempt, resolved, cancel, invRec, job, owner, scratch, env>>
    BY DEF IInv, ApplyTerminalAttempt
  <1>2. PICK n \in Node :
          /\ TerminalPending(view[i], n)
          /\ PutState(i, n, view[i].attempt[n][view[i].state[n].active].status,
                      view[i].state[n].latest, None, FALSE, "repair")
    BY DEF ApplyTerminalAttempt
  <1>3. view[i].state[n].active \in Invocation
    BY <1>1, <1>2, RecordTypes DEF TerminalPending
  <1>4. PICK j \in Invocation : j = view[i].state[n].active
    BY <1>3
  <1>5. PICK s \in Terminal : s = view[i].attempt[n][j].status
    BY <1>2, <1>4 DEF TerminalPending
  <1>6. s \in NodeStatus \ {"RUNNING"} /\ s # "WAITING"
    BY DEF Terminal, NodeStatus
  <1>7. ASSUME view[i].state[n] = state[n], s = "SUCCESS"
        PROVE  /\ attempt[n][j].no = state[n].latest /\ job[n][j] = "SUCCESS"
    <2>1. StateOK(n) /\ SeenAttempt(i, n, j)
      BY <1>1 DEF IInv, NodeOK, ProcOK
    <2>2. state[n].active # None
      BY <1>4, <1>7, ExecutionAssumption
    <2>3. QED
      BY <1>4, <1>5, <1>7, <2>1, <2>2 DEF StateOK, SeenAttempt
  <1> DEFINE r == FALSE
  <1>8. PutState(i, n, s, view[i].state[n].latest, None, r, "repair") /\ r \in BOOLEAN
    BY <1>2, <1>4, <1>5
  <1> HIDE DEF r
  <1>9. pc'[i] = "repair" => PhaseOK(i)'
    BY PlainPhase DEF Plain
  <1>10. UNCHANGED <<mode, at, sel, todo, excl, lease, decision, seen>>
    BY <1>1 DEF scratch
  <1>11. todo' \in [Invocation -> SUBSET Node] /\ excl' \in [Invocation -> SUBSET Node]
    BY <1>1, <1>10 DEF TypeOK
  <1>12. "repair" \in Phase /\ "repair" \in BeforeLoop
    BY DEF BeforeLoop, Phase
  <1>13. view[i].state[n] = state[n] /\ s = "SUCCESS" =>
            \E k \in Invocation : /\ attempt[n][k].no = state[n].latest
                                  /\ job[n][k] = "SUCCESS" \/ "SUCCESS" \in resolved[n][k]
    BY <1>7
  <1>14. QED
    BY <1>1, <1>6, <1>8, <1>9, <1>10, <1>11, <1>12, <1>13, PutStateKeeps

\* reconcileRun applies a resolution that is on record.
LEMMA ApplyResolutionKeeps ==
  ASSUME IInv, NEW i \in Invocation, ApplyResolution(i)
  PROVE  IInv'
  <1>1. /\ TypeOK /\ ProcOK(i) /\ pc[i] = "repair"
        /\ UNCHANGED <<run, attempt, resolved, cancel, invRec, job, owner, scratch, env>>
    BY DEF IInv, ApplyResolution
  <1>2. PICK n \in Node, j \in Invocation :
          /\ ResolutionPending(view[i], n, j)
          /\ \E o \in view[i].resolved[n][j] :
                PutState(i, n, o, view[i].state[n].latest, None, TRUE, "repair")
    BY DEF ApplyResolution
  <1> DEFINE r == TRUE
  <1>3. PICK s \in view[i].resolved[n][j] :
                PutState(i, n, s, view[i].state[n].latest, None, r, "repair") /\ r \in BOOLEAN
    BY <1>2
  <1> HIDE DEF r
  <1>4. s \in Outcomes
    BY <1>1, <1>3, RecordTypes
  <1>5. s \in NodeStatus \ {"RUNNING"} /\ s # "WAITING"
    BY <1>4 DEF Outcomes, NodeStatus
  <1>6. ASSUME view[i].state[n] = state[n], s = "SUCCESS"
        PROVE  attempt[n][j].no = state[n].latest /\ "SUCCESS" \in resolved[n][j]
    <2>1. SeenAttempt(i, n, j)
      BY <1>1 DEF ProcOK
    <2>2. /\ view[i].attempt[n][j].no = view[i].state[n].latest
          /\ view[i].attempt[n][j].status \in {"UNKNOWN", "FAILED"}
      BY <1>2 DEF ResolutionPending, ResolutionRefused
    <2>3. view[i].attempt[n][j].no # 0
      BY <2>1, <2>2 DEF SeenAttempt, WellFormed
    <2>4. QED
      BY <1>3, <1>6, <2>1, <2>2, <2>3 DEF SeenAttempt
  <1>7. pc'[i] = "repair" => PhaseOK(i)'
    BY PlainPhase DEF Plain
  <1>8. UNCHANGED <<mode, at, sel, todo, excl, lease, decision, seen>>
    BY <1>1 DEF scratch
  <1>9. todo' \in [Invocation -> SUBSET Node] /\ excl' \in [Invocation -> SUBSET Node]
    BY <1>1, <1>8 DEF TypeOK
  <1>10. "repair" \in Phase /\ "repair" \in BeforeLoop
    BY DEF BeforeLoop, Phase
  <1>11. view[i].state[n] = state[n] /\ s = "SUCCESS" =>
            \E k \in Invocation : /\ attempt[n][k].no = state[n].latest
                                  /\ job[n][k] = "SUCCESS" \/ "SUCCESS" \in resolved[n][k]
    BY <1>6
  <1>12. QED
    BY <1>1, <1>3, <1>5, <1>7, <1>8, <1>9, <1>10, <1>11, PutStateKeeps

\* prepareRerunFrom
LEMMA RerunReadKeeps ==
  ASSUME IInv, NEW i \in Invocation, RerunRead(i)
  PROVE  IInv'
  <1>1. /\ TypeOK /\ pc[i] = "rerunRead"
        /\ UNCHANGED <<records, job, owner, mode, at, sel, excl, lease, decision, seen, env>>
    BY DEF IInv, RerunRead
  <1>2. CASE End(i, "failed") /\ UNCHANGED <<view, todo>>
    <2>1. Goto(i, "close") /\ outcome' \in [Invocation -> Outcome]
      BY <1>1, <1>2 DEF End, TypeOK, Outcome
    <2>2. RestTypes
      BY <1>1, <2>1 DEF RestTypes, TypeOK, records, env
    <2>3. QED
      BY <1>1, <1>2, <2>1, <2>2, LeaveStep DEF records, env
  <1>3. CASE /\ ~RerunRefused(i) /\ view' = [view EXCEPT ![i].state = state]
             /\ todo' = [todo EXCEPT ![i] = sel[i]]
             /\ Goto(i, "rerun") /\ UNCHANGED outcome
    <2>1. /\ view' \in [Invocation -> View] /\ \A k \in Invocation \ {i} : view'[k] = view[k]
          /\ view'[i].state = state /\ view'[i].attempt = view[i].attempt
          /\ view'[i].resolved = view[i].resolved
      BY <1>1, <1>3, StatesRead
    <2>2. /\ pc'[i] = "rerun"
          /\ pc' \in [Invocation -> Phase] /\ \A k \in Invocation \ {i} : pc'[k] = pc[k]
      BY <1>1, <1>3, GotoMoves DEF Phase
    <2>3. /\ todo' \in [Invocation -> SUBSET Node] /\ todo'[i] = sel[i]
          /\ \A k \in Invocation \ {i} : todo'[k] = todo[k]
      BY <1>1, <1>3 DEF TypeOK
    <2>4. TypeOK'
      BY <1>1, <1>3, <2>1, <2>2, <2>3 DEF TypeOK, records, env
    <2>5. OthersKept(i) /\ Refreshed(i)
      BY <1>1, <2>1, <2>2, <2>3 DEF OthersKept, Kept, Refreshed
    <2>6. PhaseOK(i)'
      <3>1. ASSUME NEW n \in sel[i] \cap NonIdempotent PROVE state[n].latest = 0
        <4>1. n \in Node /\ ~(state[n].latest > 0)
          BY <1>1, <1>3, <3>1 DEF RerunRefused, TypeOK
        <4>2. QED
          BY <1>1, <4>1, RecordTypes DEF TypeOK, StateRecord
      <3>2. QED
        BY <2>1, <2>2, <2>3, <3>1 DEF PhaseOK, AtOK, InNode
    <2>7. \A n \in Node : Ahead(i, n)' => Ahead(i, n)
      BY <1>1 DEF Ahead, BeforeLoop
    <2>8. QED
      BY <1>1, <2>2, <2>4, <2>5, <2>6, <2>7, QuietStep DEF records, env
  <1>4. QED
    BY <1>2, <1>3 DEF RerunRead

\* RERUN_FROM resets nodes; a non-idempotent one never had an attempt.
LEMMA RerunResetKeeps ==
  ASSUME IInv, NEW i \in Invocation, RerunReset(i)
  PROVE  IInv'
  <1>1. /\ TypeOK /\ ProcOK(i) /\ pc[i] = "rerun"
        /\ UNCHANGED <<run, attempt, resolved, cancel, invRec, job, owner, mode, at, sel, excl,
                       lease, decision, seen, env>>
    BY DEF IInv, RerunReset
  <1>2. CASE Goto(i, "invocation") /\ UNCHANGED <<state, view, todo, outcome>>
    <2>1. RestTypes
      BY <1>1, <1>2 DEF RestTypes, TypeOK, env
    <2>2. QED
      BY <1>1, <1>2, <2>1, PhaseStep DEF env, BeforeLoop
  <1> DEFINE r == FALSE
  <1>3. ASSUME NEW n \in todo[i], todo' = [todo EXCEPT ![i] = todo[i] \ {n}],
               PutState(i, n, "WAITING", view[i].state[n].latest, None, r, "rerun")
        PROVE  IInv'
    <2>1. r \in BOOLEAN /\ n \in Node
      BY <1>1, <1>3 DEF TypeOK
    <2> HIDE DEF r
    <2>2. /\ todo' \in [Invocation -> SUBSET Node] /\ todo'[i] = todo[i] \ {n}
          /\ \A k \in Invocation \ {i} : todo'[k] = todo[k]
      BY <1>1, <1>3 DEF TypeOK
    <2>3. ASSUME view[i].state[n] = state[n], n \in NonIdempotent, NEW j \in Invocation
          PROVE  ~Engaged(n, j)
      <3>1. state[n].latest = 0
        BY <1>1, <1>3, <2>3 DEF ProcOK, PhaseOK
      <3>2. StateOK(n) /\ OnceOK(n)
        BY <2>1, <2>3 DEF IInv, NodeOK
      <3>3. QED
        BY <3>1, <3>2 DEF StateOK, OnceOK
    <2>4. ASSUME pc'[i] = "rerun",
                 WroteState(i, n, "WAITING", view[i].state[n].latest, None)
          PROVE  PhaseOK(i)'
      <3>1. ASSUME NEW m \in todo'[i] \cap NonIdempotent PROVE view'[i].state[m].latest = 0
        <4>1. m \in Node \ {n} /\ m \in todo[i] \cap NonIdempotent
          BY <1>1, <2>2, <3>1 DEF TypeOK
        <4>2. view[i].state[m].latest = 0
          BY <1>1, <4>1 DEF ProcOK, PhaseOK
        <4>3. QED
          BY <2>4, <4>1, <4>2 DEF WroteState
      <3>2. QED
        BY <2>4, <3>1 DEF PhaseOK, AtOK, InNode
    <2>5. /\ "rerun" \in Phase /\ "rerun" \in BeforeLoop
          /\ "WAITING" \in NodeStatus \ {"RUNNING"}
      BY DEF BeforeLoop, Phase, NodeStatus
    <2>6. excl' \in [Invocation -> SUBSET Node]
      BY <1>1 DEF TypeOK
    <2>7. QED
      BY <1>1, <1>3, <2>1, <2>2, <2>3, <2>4, <2>5, <2>6, PutStateKeeps
  <1>4. QED
    BY <1>1, <1>2, <1>3 DEF RerunReset

\* finalizeNodeState of an adjudicated orphan
LEMMA FinalizeOrphanStateKeeps ==
  ASSUME IInv, NEW i \in Invocation, FinalizeOrphanState(i)
  PROVE  IInv'
  <1>1. /\ TypeOK /\ ProcOK(i) /\ pc[i] = "orphanState"
        /\ UNCHANGED <<run, attempt, resolved, cancel, invRec, job, owner, mode, at, sel, excl,
                       lease, decision, seen, env>>
    BY DEF IInv, FinalizeOrphanState
  <1>2. Order[at[i]] \in Node /\ NodePhaseOK(i, Order[at[i]])
    BY <1>1, Positions DEF ProcOK, PhaseOK, AtOK
  <1>3. PICK n \in Node : n = Order[at[i]]
    BY <1>2
  <1>4. n \in todo[i] /\ OrphanOK(i, n)
    BY <1>1, <1>2, <1>3 DEF NodePhaseOK, ProcOK, PhaseOK
  <1>5. decision[i][n] \in Decision
    BY <1>1, RecordTypes
  <1>6. PICK s \in Terminal : s = decision[i][n].status
    BY <1>4, <1>5 DEF OrphanOK, Decision
  <1>7. s \in NodeStatus \ {"RUNNING"} /\ s # "WAITING"
    BY DEF NodeStatus, Terminal
  <1> DEFINE r == FALSE
  <1>8. /\ PutState(i, n, s, view[i].state[n].latest, None, r, "orphan") /\ r \in BOOLEAN
        /\ todo' = [todo EXCEPT ![i] = todo[i] \ {n}]
    BY <1>3, <1>6 DEF FinalizeOrphanState
  <1> HIDE DEF r
  <1>9. /\ todo' \in [Invocation -> SUBSET Node] /\ todo'[i] = todo[i] \ {n}
        /\ \A k \in Invocation \ {i} : todo'[k] = todo[k]
    BY <1>1, <1>8 DEF TypeOK
  <1>10. view[i].state[n] = state[n] /\ s = "SUCCESS" =>
            \E k \in Invocation : /\ attempt[n][k].no = state[n].latest
                                  /\ job[n][k] = "SUCCESS" \/ "SUCCESS" \in resolved[n][k]
    <2>1. SUFFICES ASSUME view[i].state[n] = state[n], s = "SUCCESS"
                   PROVE  /\ state[n].active \in Invocation
                          /\ attempt[n][state[n].active].no = state[n].latest
                          /\ job[n][state[n].active] = "SUCCESS"
      OBVIOUS
    <2>2. state[n].active \in Invocation /\ job[n][state[n].active] = "SUCCESS"
      BY <1>4, <1>6, <2>1 DEF OrphanOK
    <2>3. StateOK(n) /\ state[n].active # None
      BY <2>2, ExecutionAssumption DEF IInv, NodeOK
    <2>4. QED
      BY <2>2, <2>3 DEF StateOK
  <1>11. ASSUME pc'[i] = "orphan", WroteState(i, n, s, view[i].state[n].latest, None)
         PROVE  PhaseOK(i)'
    <2>1. ASSUME NEW m \in todo'[i] PROVE OrphanOK(i, m)'
      <3>1. m \in Node \ {n} /\ OrphanOK(i, m)
        BY <1>1, <1>9, <2>1 DEF TypeOK, ProcOK, PhaseOK
      <3>2. view'[i].state[m] = view[i].state[m]
        BY <1>11, <3>1 DEF WroteState
      <3>3. QED
        BY <1>1, <3>1, <3>2 DEF OrphanOK
    <2>2. QED
      BY <1>11, <2>1 DEF PhaseOK, AtOK, InNode
  <1>12. "orphan" \in Phase /\ "orphan" \in BeforeLoop /\ pc[i] \in BeforeLoop
    BY <1>1 DEF BeforeLoop, Phase
  <1>13. excl' \in [Invocation -> SUBSET Node]
    BY <1>1 DEF TypeOK
  <1>14. QED
    BY <1>1, <1>7, <1>8, <1>9, <1>10, <1>11, <1>12, <1>13, PutStateKeeps

\* prepareResumeStates
LEMMA PrepareResumeStateKeeps ==
  ASSUME IInv, NEW i \in Invocation, PrepareResumeState(i)
  PROVE  IInv'
  <1>1. /\ TypeOK /\ ProcOK(i) /\ pc[i] = "prepare"
        /\ UNCHANGED <<run, attempt, resolved, cancel, invRec, job, owner, mode, at, sel, lease,
                       decision, seen, env>>
    BY DEF IInv, PrepareResumeState
  <1> DEFINE r == FALSE
  <1>2. PICK n \in todo[i] :
          /\ \/ /\ HeldByBrake(view[i], n)
                /\ PutState(i, n, view[i].state[n].status, view[i].state[n].latest,
                            view[i].state[n].active, r, "prepare")
             \/ /\ view[i].state[n].status = "BLOCKED" \/ Retryable(view[i], n)
                /\ PutState(i, n, "WAITING", view[i].state[n].latest, None, r, "prepare")
             \/ UNCHANGED <<state, view, pc, outcome>>
          /\ \/ excl' = [excl EXCEPT ![i] = excl[i] \cup {n}]
             \/ excl' = [excl EXCEPT ![i] = excl[i]]
          /\ todo' = [todo EXCEPT ![i] = todo[i] \ {n}]
    BY DEF PrepareResumeState
  <1>3. n \in Node /\ r \in BOOLEAN
    BY <1>1 DEF TypeOK
  <1> HIDE DEF r
  <1>4. /\ excl' \in [Invocation -> SUBSET Node] /\ todo' \in [Invocation -> SUBSET Node]
        /\ \A k \in Invocation \ {i} : todo'[k] = todo[k]
    <2>1. excl[i] \cup {n} \in SUBSET Node /\ excl[i] \in SUBSET Node
      BY <1>1, <1>3 DEF TypeOK
    <2>6. excl \in [Invocation -> SUBSET Node]
      BY <1>1 DEF TypeOK
    <2>7. PICK e \in SUBSET Node : excl' = [excl EXCEPT ![i] = e]
      BY <1>2, <2>1
    <2>2. excl' \in [Invocation -> SUBSET Node]
      BY ONLY <2>6, <2>7, e \in SUBSET Node
    <2>3. todo[i] \ {n} \in SUBSET Node
      BY <1>1 DEF TypeOK
    <2>4. /\ todo' \in [Invocation -> SUBSET Node]
          /\ \A k \in Invocation \ {i} : todo'[k] = todo[k]
      BY <1>1, <1>2, <2>3 DEF TypeOK
    <2>5. QED
      BY <2>2, <2>4
  <1>5. pc'[i] = "prepare" => PhaseOK(i)'
    BY PlainPhase DEF Plain
  <1>6. /\ "prepare" \in Phase /\ "prepare" \in BeforeLoop
        /\ "WAITING" \in NodeStatus \ {"RUNNING"}
    BY DEF BeforeLoop, Phase, NodeStatus
  <1>7. CASE /\ HeldByBrake(view[i], n)
             /\ PutState(i, n, view[i].state[n].status, view[i].state[n].latest,
                         view[i].state[n].active, r, "prepare")
    <2>1. PICK s \in {"FAILED", "CANCELLED"} : s = view[i].state[n].status
      BY <1>7 DEF HeldByBrake, Retryable
    <2>2. s \in NodeStatus \ {"RUNNING"} /\ s \notin {"WAITING", "SUCCESS"}
      BY DEF NodeStatus
    <2>3. PutState(i, n, s, view[i].state[n].latest, view[i].state[n].active, r, "prepare")
      BY <1>7, <2>1
    <2>4. QED
      BY <1>1, <1>3, <1>4, <1>5, <1>6, <2>2, <2>3, PutStateKeeps
  <1>8. CASE /\ view[i].state[n].status = "BLOCKED" \/ Retryable(view[i], n)
             /\ PutState(i, n, "WAITING", view[i].state[n].latest, None, r, "prepare")
    <2>1. ASSUME view[i].state[n] = state[n], n \in NonIdempotent, NEW j \in Invocation
          PROVE  ~Engaged(n, j)
      <3>1. state[n].status = "BLOCKED" /\ OnceOK(n)
        BY <1>3, <1>8, <2>1 DEF Retryable, IInv, NodeOK
      <3>2. QED
        BY <3>1 DEF OnceOK
    <2>2. QED
      BY <1>1, <1>3, <1>4, <1>5, <1>6, <1>8, <2>1, PutStateKeeps
  <1>9. CASE UNCHANGED <<state, view, pc, outcome>>
    <2>1. TypeOK'
      BY <1>1, <1>4, <1>9 DEF TypeOK, env
    <2>2. OthersKept(i) /\ Refreshed(i)
      BY <1>1, <1>4, <1>9 DEF OthersKept, Kept, Refreshed
    <2>3. QED
      BY <1>1, <1>6, <1>9, <2>1, <2>2, PlainStep DEF Plain, env
  <1>10. QED
    BY <1>2, <1>7, <1>8, <1>9

-----------------------------------------------------------------------------
(* The loop *)

\* The loop begins at the first node.
LEMMA PrepareDoneKeeps ==
  ASSUME IInv, NEW i \in Invocation, PrepareDone(i)
  PROVE  IInv'
  <1>1. /\ TypeOK /\ pc[i] = "prepare" /\ at' = [at EXCEPT ![i] = 1] /\ Goto(i, "loop")
        /\ UNCHANGED <<records, job, owner, view, mode, sel, todo, lease, decision, seen,
                       outcome, env>>
    BY DEF IInv, PrepareDone
  <1>2. \E D : excl' = [excl EXCEPT ![i] = Descendants(D)]
    BY DEF PrepareDone
  <1>3. excl' \in [Invocation -> SUBSET Node]
    BY <1>1, <1>2 DEF TypeOK, Descendants
  <1>4. /\ pc'[i] = "loop"
        /\ pc' \in [Invocation -> Phase] /\ \A k \in Invocation \ {i} : pc'[k] = pc[k]
    BY <1>1, GotoMoves DEF Phase
  <1>5. /\ at' \in [Invocation -> Nat] /\ at'[i] = 1
        /\ \A k \in Invocation \ {i} : at'[k] = at[k]
    BY <1>1 DEF TypeOK
  <1>6. TypeOK'
    BY <1>1, <1>3, <1>4, <1>5 DEF TypeOK, records, env
  <1>7. OthersKept(i) /\ Refreshed(i)
    BY <1>1, <1>4, <1>5 DEF OthersKept, Kept, Refreshed
  <1>8. PhaseOK(i)'
    BY <1>4, <1>5, Positions DEF PhaseOK, AtOK, InNode
  <1>9. \A n \in Node : Ahead(i, n)' => Ahead(i, n)
    BY <1>1 DEF Ahead, BeforeLoop
  <1>10. QED
    BY <1>1, <1>4, <1>6, <1>7, <1>8, <1>9, QuietStep DEF records, env

\* PRESERVED, EXCLUDED and DEFERRED nodes are passed.
LEMMA PassNodeKeeps ==
  ASSUME IInv, NEW i \in Invocation, PassNode(i)
  PROVE  IInv'
  <1>1. /\ TypeOK /\ ProcOK(i) /\ pc[i] = "loop"
        /\ UNCHANGED <<records, job, owner, view, mode, sel, todo, excl, lease, decision, seen,
                       outcome, env>>
    BY DEF IInv, PassNode
  <1>2. CASE Goto(i, "finish") /\ UNCHANGED at
    <2>1. RestTypes
      BY <1>1 DEF RestTypes, TypeOK, records, env
    <2>2. QED
      BY <1>1, <1>2, <2>1, LeaveStep DEF records, env
  <1>3. CASE InLoop(i) /\ at' = [at EXCEPT ![i] = at[i] + 1] /\ UNCHANGED pc
    <2>1. /\ at[i] \in 1..Len(Order) /\ at[i] \in Nat
      BY <1>1, <1>3, Positions DEF TypeOK, InLoop, ProcOK, PhaseOK, AtOK
    <2>2. /\ at' \in [Invocation -> Nat] /\ at'[i] = at[i] + 1
          /\ \A k \in Invocation \ {i} : at'[k] = at[k]
      BY <1>1, <1>3, <2>1 DEF TypeOK
    <2>3. TypeOK'
      BY <1>1, <1>3, <2>2 DEF TypeOK, records, env
    <2>4. OthersKept(i) /\ Refreshed(i)
      BY <1>1, <1>3, <2>2 DEF OthersKept, Kept, Refreshed
    <2>5. PhaseOK(i)'
      BY <1>1, <1>3, <2>1, <2>2, Positions DEF PhaseOK, AtOK, InNode
    <2>6. ASSUME NEW n \in Node, Ahead(i, n)' PROVE Ahead(i, n)
      <3>1. PICK k \in 1..Len(Order) : Order[k] = n /\ k >= at[i] + 1
        BY <1>1, <1>3, <2>2, <2>6 DEF Ahead, BeforeLoop, InNode
      <3>2. k >= at[i]
        BY <2>1, <3>1, Positions
      <3>3. QED
        BY <1>1, <3>1, <3>2 DEF Ahead
    <2>7. QED
      BY <1>1, <1>3, <2>3, <2>4, <2>5, <2>6, QuietStep DEF records, env
  <1>4. QED
    BY <1>2, <1>3 DEF PassNode

\* A WAITING node becomes BLOCKED.
LEMMA BlockNodeKeeps ==
  ASSUME IInv, NEW i \in Invocation, BlockNode(i)
  PROVE  IInv'
  <1>1. /\ TypeOK /\ ProcOK(i) /\ pc[i] = "loop" /\ InLoop(i)
        /\ UNCHANGED <<run, attempt, resolved, cancel, invRec, job, owner, scratch, env>>
    BY DEF IInv, BlockNode, InLoop
  <1>2. at[i] \in 1..Len(Order) /\ Order[at[i]] \in Node
    BY <1>1, Positions DEF TypeOK, InLoop, ProcOK, PhaseOK, AtOK
  <1>3. PICK n \in Node : n = Order[at[i]]
    BY <1>2
  <1> DEFINE r == FALSE
  <1>4. /\ PutState(i, n, "BLOCKED", view[i].state[n].latest, view[i].state[n].active, r,
                    "blocked")
        /\ r \in BOOLEAN
    BY <1>3 DEF BlockNode
  <1> HIDE DEF r
  <1>5. "BLOCKED" \in NodeStatus \ {"RUNNING"} /\ "blocked" \in Phase
    BY DEF NodeStatus, Phase
  <1>6. UNCHANGED <<mode, at, sel, todo, excl, lease, decision, seen>>
    BY <1>1 DEF scratch
  <1>7. pc'[i] = "blocked" => PhaseOK(i)'
    BY <1>2, <1>6 DEF PhaseOK, AtOK, InNode
  <1>8. todo' \in [Invocation -> SUBSET Node] /\ excl' \in [Invocation -> SUBSET Node]
    BY <1>1, <1>6 DEF TypeOK
  <1>9. QED
    BY <1>1, <1>4, <1>5, <1>6, <1>7, <1>8, PutStateKeeps

\* From a boundary check on, the process holds the node WAITING in memory.
LEMMA BoundaryStep ==
  ASSUME IInv, NEW i \in Invocation, NEW p \in {"accept", "start"}, Goto(i, p),
         at[i] \in 1..Len(Order), view[i].state[Order[at[i]]].status = "WAITING",
         pc[i] \in {"loop", "accept"},
         UNCHANGED <<state, attempt, resolved, job, view, at, todo, decision, resolver>>,
         RestTypes
  PROVE  IInv'
  <1>1. TypeOK
    BY DEF IInv
  <1>2. /\ pc'[i] = p
        /\ pc' \in [Invocation -> Phase] /\ \A k \in Invocation \ {i} : pc'[k] = pc[k]
    BY <1>1, GotoMoves DEF Phase
  <1>3. TypeOK'
    BY <1>1, <1>2 DEF TypeOK, RestTypes
  <1>4. PhaseOK(i)'
    BY <1>2 DEF PhaseOK, AtOK, NodePhaseOK, InNode
  <1>5. \A n \in Node : Ahead(i, n)' => Ahead(i, n)
    BY <1>2 DEF Ahead, BeforeLoop, InNode
  <1>6. OthersKept(i) /\ Refreshed(i)
    BY <1>2 DEF OthersKept, Kept, Refreshed
  <1>7. QED
    BY <1>2, <1>3, <1>4, <1>5, <1>6, QuietStep

\* The check for a stop request at the boundary of a node.
LEMMA StopCheckKeeps ==
  ASSUME IInv, NEW i \in Invocation, StopCheck(i)
  PROVE  IInv'
  <1>1. /\ TypeOK /\ ProcOK(i) /\ pc[i] = "loop" /\ InLoop(i)
        /\ UNCHANGED <<records, job, owner, view, mode, at, sel, todo, excl, lease, decision, env>>
        /\ ~Passed(i, Order[at[i]]) /\ ~MustBlock(i, Order[at[i]])
        /\ seen' = [seen EXCEPT ![i] = cancel.rev]
    BY DEF IInv, StopCheck, InLoop
  <1>2. /\ at[i] \in 1..Len(Order) /\ view[i].state[Order[at[i]]].status = "WAITING"
    BY <1>1, Positions DEF TypeOK, InLoop, ProcOK, PhaseOK, AtOK, Passed
  <1>3. seen' \in [Invocation -> Nat]
    BY <1>1 DEF TypeOK
  <1>4. CASE End(i, "stopped")
    <2>1. Goto(i, "close") /\ outcome' \in [Invocation -> Outcome]
      BY <1>1, <1>4 DEF End, TypeOK, Outcome
    <2>2. RestTypes
      BY <1>1, <1>3, <2>1 DEF RestTypes, TypeOK, records, env
    <2>3. QED
      BY <1>1, <2>1, <2>2, LeaveStep DEF records, env
  <1>5. ASSUME NEW p \in {"accept", "start"}, Goto(i, p), UNCHANGED outcome
        PROVE  IInv'
    <2>1. RestTypes
      BY <1>1, <1>3, <1>5 DEF RestTypes, TypeOK, records, env
    <2>2. QED
      BY <1>1, <1>2, <1>5, <2>1, BoundaryStep DEF records, env
  <1>6. QED
    BY <1>4, <1>5 DEF StopCheck

\* The scheduler accepts a stop request.
LEMMA AcceptStopKeeps ==
  ASSUME IInv, NEW i \in Invocation, AcceptStop(i)
  PROVE  IInv'
  <1>1. /\ TypeOK /\ ProcOK(i) /\ pc[i] = "accept"
        /\ UNCHANGED <<run, state, attempt, resolved, invRec, job, owner, view, scratch, env>>
    BY DEF IInv, AcceptStop
  <1>2. at[i] \in 1..Len(Order) /\ view[i].state[Order[at[i]]].status = "WAITING"
    BY <1>1 DEF ProcOK, PhaseOK, AtOK, NodePhaseOK
  <1>3. cancel' \in [state : {"none", "REQUESTED", "ACCEPTED", "RELEASED"}, rev : Nat]
    BY <1>1 DEF AcceptStop, TypeOK
  <1>4. CASE End(i, "stopped")
    <2>1. Goto(i, "close") /\ outcome' \in [Invocation -> Outcome]
      BY <1>1, <1>4 DEF End, TypeOK, Outcome
    <2>2. RestTypes
      BY <1>1, <1>3, <2>1 DEF RestTypes, TypeOK, scratch, env
    <2>3. QED
      BY <1>1, <2>1, <2>2, LeaveStep DEF scratch, env
  <1>5. CASE Goto(i, "start") /\ UNCHANGED outcome
    <2>1. RestTypes
      BY <1>1, <1>3, <1>5 DEF RestTypes, TypeOK, scratch, env
    <2>2. QED
      BY <1>1, <1>2, <1>5, <2>1, BoundaryStep DEF scratch, env
  <1>6. QED
    BY <1>4, <1>5 DEF AcceptStop

\* The aggregate after each node.
LEMMA UpdateAggregateKeeps ==
  ASSUME IInv, NEW i \in Invocation, UpdateAggregate(i)
  PROVE  IInv'
  <1>1. /\ TypeOK /\ ProcOK(i) /\ pc[i] \in {"aggregate", "blocked"}
        /\ UNCHANGED <<state, attempt, resolved, cancel, invRec, job, owner, mode, sel, todo,
                       excl, lease, decision, seen, env>>
        /\ at' = [at EXCEPT ![i] = at[i] + 1]
    BY DEF IInv, UpdateAggregate
  <1>2. PICK s \in RunStatus : s = Aggregate(Statuses(view[i]), view[i].run.started)
    BY AggregateType
  <1>3. \/ PutRun(i, s, view[i].run.started, "close", "drained")
        \/ PutRun(i, s, view[i].run.started, "loop", "none")
    BY <1>2 DEF UpdateAggregate
  <1>4. view[i].run.started \in {"no", "yes"}
    BY <1>1 DEF TypeOK, View, RunRecord
  <1>5. /\ run' \in RunRecord /\ view' \in [Invocation -> View]
        /\ pc' \in [Invocation -> Phase] /\ outcome' \in [Invocation -> Outcome]
        /\ \A k \in Invocation \ {i} : pc'[k] = pc[k] /\ view'[k] = view[k]
        /\ view'[i].state = view[i].state /\ view'[i].attempt = view[i].attempt
        /\ view'[i].resolved = view[i].resolved
        /\ pc'[i] \in {"close", "loop"}
    <2>1. /\ "close" \in Phase /\ "loop" \in Phase
          /\ "drained" \in Outcome /\ "none" \in Outcome
      BY DEF Phase, Outcome
    <2>2. CASE PutRun(i, s, view[i].run.started, "close", "drained")
      BY <1>1, <1>4, <2>1, <2>2, PutRunMoves
    <2>3. CASE PutRun(i, s, view[i].run.started, "loop", "none")
      BY <1>1, <1>4, <2>1, <2>3, PutRunMoves
    <2>4. QED
      BY <1>3, <2>2, <2>3
  <1>6. at[i] \in 1..Len(Order) /\ at[i] \in Nat
    BY <1>1 DEF TypeOK, ProcOK, PhaseOK, AtOK
  <1>7. /\ at' \in [Invocation -> Nat] /\ at'[i] = at[i] + 1
        /\ \A k \in Invocation \ {i} : at'[k] = at[k]
    BY <1>1, <1>6 DEF TypeOK
  <1>8. TypeOK'
    BY <1>1, <1>5, <1>7 DEF TypeOK, env
  <1>9. OthersKept(i) /\ Refreshed(i)
    BY <1>1, <1>5, <1>7 DEF OthersKept, Kept, Refreshed
  <1>10. PhaseOK(i)'
    BY <1>5, <1>6, <1>7, Positions DEF PhaseOK, AtOK, InNode
  <1>11. ASSUME NEW n \in Node, Ahead(i, n)' PROVE Ahead(i, n)
    <2>1. PICK k \in 1..Len(Order) : Order[k] = n /\ k >= at[i] + 1
      BY <1>5, <1>7, <1>11 DEF Ahead, BeforeLoop, InNode
    <2>2. k > at[i]
      BY <1>6, <2>1, Positions
    <2>3. QED
      BY <1>1, <2>1, <2>2 DEF Ahead
  <1>12. QED
    BY <1>1, <1>5, <1>8, <1>9, <1>10, <1>11, QuietStep DEF env

-----------------------------------------------------------------------------
(* Writes of Attempts and their execution *)

\* A process writes one Attempt record: a new one of its own, or the next
\* revision of one that keeps its number.
LEMMA AttemptStep ==
  ASSUME IInv, TypeOK', NEW i \in Invocation, NEW n \in Node, NEW j \in Invocation,
         NEW a \in AttemptRecord, WroteAttempt(i, n, j, a),
         UNCHANGED <<state, resolved, job, resolver>>, OthersKept(i),
         WellFormed(a), a.status = "SUCCESS" => job[n][j] = "SUCCESS",
         \/ a.no = attempt[n][j].no
         \/ j = i /\ attempt[n][j].no = 0 /\ ~Ahead(i, n)',
         PhaseOK(i)', \A m \in Node : Ahead(i, m)' => Ahead(i, m),
         pc'[i] \in {"ready", "launch"} => pc[i] \in {"ready", "launch"} /\ at'[i] = at[i]
  PROVE  IInv'
  <1>1. TypeOK /\ ProcOK(i)
    BY DEF IInv
  <1>2. Evolves
    <2>1. \A m \in Node, k \in Invocation :
             attempt[m][k].no # 0 => attempt'[m][k].no = attempt[m][k].no
      BY DEF WroteAttempt
    <2>2. QED
      BY <2>1 DEF Evolves
  <1>3. \A m \in Node : StateOK(m) /\ \A k \in Invocation : AttemptOK(m, k)
    BY DEF IInv, NodeOK
  <1>4. ASSUME NEW m \in Node, NEW k \in Invocation PROVE AttemptOK(m, k)'
    <2>1. CASE m = n /\ k = j
      BY <2>1 DEF AttemptOK, WroteAttempt
    <2>2. CASE m # n \/ k # j
      BY <1>2, <1>3, <2>2, AttemptKept DEF WroteAttempt
    <2>3. QED
      BY <2>1, <2>2
  <1>5. ASSUME NEW m \in Node PROVE NodeOK(m)'
    <2>1. ASSUME NEW k \in Invocation, Engaged(m, k)' PROVE Engaged(m, k)
      BY <2>1 DEF Engaged, OthersKept, Kept
    <2>2. QED
      BY <1>1, <1>2, <1>4, <2>1, NodeKept DEF IInv
  <1>6. ASSUME NEW k \in Invocation, k # i PROVE ProcOK(k)'
    <2>1. FreshKept(k)
      BY <1>6 DEF FreshKept, WroteAttempt
    <2>2. QED
      BY <1>1, <1>2, <1>3, <1>4, <1>6, <2>1, KeptOK DEF IInv, OthersKept
  <1>7. ProcOK(i)'
    <2>1. Refreshed(i)
      BY DEF Refreshed, WroteAttempt
    <2>2. ASSUME NEW m \in Node PROVE SeenState(i, m)' /\ FreshOK(i, m)'
      <3>1. SeenState(i, m)'
        BY <1>1, <1>2, <1>3, <2>1, SeenStep DEF ProcOK, Refreshed
      <3>2. FreshOK(i, m)'
        BY <1>1 DEF ProcOK, FreshOK, WroteAttempt
      <3>3. QED
        BY <3>1, <3>2
    <2>3. ASSUME NEW m \in Node, NEW k \in Invocation PROVE SeenAttempt(i, m, k)'
      BY <1>1, <1>2, <1>3, <1>4, <2>1, SeenAttemptStep DEF ProcOK, Refreshed
    <2>4. QED
      BY <2>2, <2>3 DEF ProcOK
  <1>8. QED
    BY <1>1, <1>2, <1>5, <1>6, <1>7, ResolverKept DEF IInv

\* finalizeAttempt and setAttemptExecutionStarted
LEMMA PutAttemptKeeps ==
  ASSUME IInv, NEW i \in Invocation, NEW n \in Node, NEW j \in Invocation,
         NEW s \in {"RUNNING"} \cup Terminal, NEW code \in Code, NEW started \in {"no", "yes"},
         NEW next \in Phase, PutAttempt(i, n, j, s, code, started, next),
         s = "SUCCESS" => job[n][j] = "SUCCESS",
         UNCHANGED <<run, state, resolved, cancel, invRec, job, owner, mode, sel, todo, excl,
                     lease, decision, seen, env>>,
         at' \in [Invocation -> Nat], \A k \in Invocation \ {i} : at'[k] = at[k],
         /\ pc'[i] = next
         /\ view'[i].state = view[i].state
         /\ \A m \in Node, k \in Invocation :
               view'[i].attempt[m][k].no = view[i].attempt[m][k].no
         => PhaseOK(i)',
         \/ next \in BeforeLoop /\ pc[i] \in BeforeLoop
         \/ next \in InNode \ {"claim"} /\ pc[i] \in InNode /\ at' = at,
         next \in {"ready", "launch"} => pc[i] \in {"ready", "launch"} /\ at'[i] = at[i]
  PROVE  IInv'
  <1>1. TypeOK /\ ProcOK(i) /\ SeenAttempt(i, n, j) /\ AttemptOK(n, j)
    BY DEF IInv, NodeOK, ProcOK
  <1>2. /\ attempt' \in [Node -> [Invocation -> AttemptRecord]]
        /\ view' \in [Invocation -> View]
        /\ pc' \in [Invocation -> Phase] /\ outcome' \in [Invocation -> Outcome]
        /\ \A k \in Invocation \ {i} : pc'[k] = pc[k] /\ view'[k] = view[k]
        /\ \/ pc'[i] = next /\ AttemptPut(i, n, j, s)
           \/ pc'[i] = "close" /\ UNCHANGED <<attempt, view>>
    BY <1>1, PutAttemptMoves
  <1>3. TypeOK'
    BY <1>1, <1>2 DEF TypeOK, env
  <1>4. OthersKept(i)
    BY <1>2 DEF OthersKept, Kept
  <1>5. CASE pc'[i] = "close" /\ UNCHANGED <<attempt, view>>
    BY <1>3, <1>4, <1>5, PlainStep DEF Plain, BeforeLoop, Refreshed, env
  <1>6. ASSUME pc'[i] = next, attempt[n][j].status = "RUNNING",
               attempt[n][j].rev = view[i].attempt[n][j].rev,
               NEW a \in AttemptRecord, WroteAttempt(i, n, j, a),
               a.status = s, a.rev = attempt[n][j].rev + 1, a.no = view[i].attempt[n][j].no
        PROVE  IInv'
    <2>1. /\ attempt[n][j].no # 0 /\ attempt[n][j].rev # 0
          /\ a.no = attempt[n][j].no
      BY <1>1, <1>6 DEF AttemptOK, SeenAttempt, WellFormed
    <2>2. s # "none" /\ a.rev # 0
      BY <1>1, <1>6, RecordTypes DEF Terminal
    <2>3. WellFormed(a)
      BY <1>6, <2>1, <2>2 DEF WellFormed
    <2>4. PhaseOK(i)'
      BY <1>6 DEF WroteAttempt
    <2>5. \A m \in Node : Ahead(i, m)' => Ahead(i, m)
      BY <1>6 DEF Ahead, BeforeLoop, InNode
    <2>6. UNCHANGED <<state, resolved, job, resolver>>
      BY DEF env
    <2>7. QED
      BY <1>3, <1>4, <1>6, <2>1, <2>3, <2>4, <2>5, <2>6, AttemptStep
  <1>7. QED
    BY <1>2, <1>5, <1>6 DEF AttemptPut

\* The node a process is at.
LEMMA NodeOfPhase ==
  ASSUME IInv, NEW i \in Invocation,
         pc[i] \in InNode \cup {"orphanState", "accept", "start"}
  PROVE  /\ at[i] \in 1..Len(Order) /\ at[i] \in Nat /\ Order[at[i]] \in Node
         /\ NodePhaseOK(i, Order[at[i]])
         /\ ProcOK(i) /\ TypeOK /\ NodeOK(Order[at[i]])
  <1>1. ProcOK(i) /\ TypeOK
    BY DEF IInv
  <1>2. at[i] \in 1..Len(Order) /\ NodePhaseOK(i, Order[at[i]])
    BY <1>1 DEF ProcOK, PhaseOK, AtOK
  <1>3. Order[at[i]] \in Node
    BY <1>2, Positions
  <1>4. QED
    BY <1>1, <1>2, <1>3 DEF IInv

\* createAttempt: the number is unique, so it is the process's first for the node.
LEMMA CreateAttemptKeeps ==
  ASSUME IInv, NEW i \in Invocation, CreateAttempt(i)
  PROVE  IInv'
  <1>1. /\ pc[i] = "start"
        /\ UNCHANGED <<run, state, resolved, cancel, invRec, job, owner, scratch, resolver,
                       stopper, used>>
    BY DEF CreateAttempt
  <1>2. /\ at[i] \in 1..Len(Order) /\ Order[at[i]] \in Node /\ NodePhaseOK(i, Order[at[i]])
        /\ ProcOK(i) /\ TypeOK /\ NodeOK(Order[at[i]]) /\ at[i] \in Nat
    BY <1>1, NodeOfPhase
  <1>3. PICK n \in Node : n = Order[at[i]]
    BY <1>2
  <1>4. CASE End(i, "failed") /\ UNCHANGED <<attempt, view, heldStarts>>
    <2>1. Goto(i, "close") /\ outcome' \in [Invocation -> Outcome]
      BY <1>2, <1>4 DEF End, TypeOK, Outcome
    <2>2. RestTypes
      BY <1>1, <1>2, <1>4, <2>1 DEF RestTypes, TypeOK, scratch
    <2>3. QED
      BY <1>1, <1>4, <2>1, <2>2, LeaveStep DEF scratch
  <1> DEFINE no == view[i].state[n].latest + 1
             new == [NoAttempt EXCEPT !.status = "RUNNING", !.rev = 1, !.no = no,
                                      !.before = view[i].state[n].rev]
  <1>5. CASE /\ attempt' = [attempt EXCEPT ![n][i] = new]
             /\ view' = [view EXCEPT ![i].attempt[n][i] = new]
             /\ heldStarts' = IF Hold THEN heldStarts + 1 ELSE heldStarts
             /\ Goto(i, "claim") /\ UNCHANGED outcome
    <2>1. view[i].state[n].latest \in Nat /\ view[i].state[n].rev \in Nat
      BY <1>2, RecordTypes
    <2>2. /\ new \in AttemptRecord /\ new.status = "RUNNING" /\ new.rev = 1 /\ new.no # 0
      <3>1. no \in Nat /\ no # 0 /\ 1 \in Nat
        BY <2>1
      <3> HIDE DEF no
      <3>2. QED
        BY <2>1, <3>1, TypesOfNothing DEF AttemptRecord
    <2> HIDE DEF new
    <2>3. /\ attempt' \in [Node -> [Invocation -> AttemptRecord]]
          /\ view' \in [Invocation -> View]
          /\ \A k \in Invocation \ {i} : view'[k] = view[k]
          /\ WroteAttempt(i, n, i, new)
      BY <1>2, <1>5, <2>2, AttemptWritten
    <2>4. /\ pc'[i] = "claim"
          /\ pc' \in [Invocation -> Phase] /\ \A k \in Invocation \ {i} : pc'[k] = pc[k]
      BY <1>2, <1>5, GotoMoves DEF Phase
    <2>5. heldStarts' \in Nat
      BY <1>2, <1>5 DEF TypeOK
    <2>6. TypeOK'
      BY <1>1, <1>2, <1>5, <2>3, <2>4, <2>5 DEF TypeOK, scratch
    <2>7. OthersKept(i)
      BY <1>1, <2>3, <2>4 DEF OthersKept, Kept, scratch
    <2>8. UNCHANGED <<at, todo, decision>>
      BY <1>1 DEF scratch
    <2>9. Ahead(i, n)
      BY <1>1, <1>2, <1>3 DEF Ahead
    <2>10. attempt[n][i].no = 0 /\ job[n][i] = "none"
      BY <1>2, <2>9 DEF ProcOK, FreshOK
    <2>11. ~Ahead(i, n)'
      BY <1>2, <1>3, <2>4, <2>8, Positions DEF Ahead, BeforeLoop, InNode
    <2>12. \A m \in Node : Ahead(i, m)' => Ahead(i, m)
      BY <1>1, <1>2, <2>4, <2>8 DEF Ahead, BeforeLoop, InNode
    <2>13. PhaseOK(i)'
      <3>1. AtOK(i)'
        BY <1>2, <2>4, <2>8 DEF AtOK, InNode
      <3>2. /\ view'[i].state[n].status = "WAITING" /\ view'[i].attempt[n][i].no # 0
            /\ job'[n][i] = "none"
        BY <1>1, <1>2, <1>3, <2>2, <2>3, <2>10 DEF NodePhaseOK, WroteAttempt
      <3>3. NodePhaseOK(i, n)'
        BY <2>4, <3>2 DEF NodePhaseOK
      <3>4. NodePhaseOK(i, Order[at[i]])'
        BY <1>3, <2>8, <3>3 DEF NodePhaseOK
      <3>5. QED
        BY <2>4, <3>1, <3>4 DEF PhaseOK
    <2>14. WellFormed(new)
      BY <2>2 DEF WellFormed
    <2>15. QED
      BY <1>1, <2>2, <2>3, <2>4, <2>6, <2>7, <2>10, <2>11, <2>12, <2>13, <2>14, AttemptStep
  <1>6. QED
    BY <1>3, <1>4, <1>5 DEF CreateAttempt

\* A WAITING node becomes RUNNING; nobody else is engaged in it.
LEMMA ClaimNodeKeeps ==
  ASSUME IInv, NEW i \in Invocation, ClaimNode(i)
  PROVE  IInv'
  <1>1. /\ pc[i] = "claim"
        /\ UNCHANGED <<run, attempt, resolved, cancel, invRec, job, owner, scratch, env>>
    BY DEF ClaimNode
  <1>2. /\ at[i] \in 1..Len(Order) /\ Order[at[i]] \in Node /\ NodePhaseOK(i, Order[at[i]])
        /\ ProcOK(i) /\ TypeOK /\ NodeOK(Order[at[i]]) /\ at[i] \in Nat
    BY <1>1, NodeOfPhase DEF InNode
  <1>3. PICK n \in Node : n = Order[at[i]]
    BY <1>2
  <1>4. /\ view[i].state[n].status = "WAITING" /\ view[i].attempt[n][i].no # 0
        /\ job[n][i] = "none" /\ NodeOK(n)
    BY <1>1, <1>2, <1>3 DEF NodePhaseOK, InNode
  <1>5. PICK l \in Nat : l = view[i].attempt[n][i].no
    BY <1>2, RecordTypes
  <1> DEFINE r == FALSE
  <1>6. PutState(i, n, "RUNNING", l, i, r, "ready") /\ r \in BOOLEAN
    BY <1>3, <1>5 DEF ClaimNode
  <1> HIDE DEF r
  <1>7. "RUNNING" \in NodeStatus /\ "ready" \in Phase /\ i \in Invocation \cup {None}
    BY DEF NodeStatus, Phase
  <1>8. /\ state' \in [Node -> StateRecord] /\ view' \in [Invocation -> View]
        /\ pc' \in [Invocation -> Phase] /\ outcome' \in [Invocation -> Outcome]
        /\ \A k \in Invocation \ {i} : pc'[k] = pc[k] /\ view'[k] = view[k]
        /\ \/ /\ StateWritable(n, view[i].state[n], "RUNNING", r)
              /\ WroteState(i, n, "RUNNING", l, i) /\ pc'[i] = "ready"
           \/ /\ pc'[i] = "close" /\ UNCHANGED <<state, view>>
    BY <1>2, <1>6, <1>7, PutStateMoves
  <1>9. UNCHANGED <<mode, at, sel, todo, excl, lease, decision, seen>>
        /\ UNCHANGED <<resolver, stopper, used, heldStarts>>
    BY <1>1 DEF scratch, env
  <1>10. TypeOK'
    BY <1>1, <1>2, <1>8, <1>9 DEF TypeOK
  <1>11. OthersKept(i)
    BY <1>8, <1>9 DEF OthersKept, Kept
  <1>12. CASE pc'[i] = "close" /\ UNCHANGED <<state, view>>
    BY <1>1, <1>9, <1>10, <1>11, <1>12, PlainStep DEF Plain, BeforeLoop, Refreshed
  <1>13. CASE WroteState(i, n, "RUNNING", l, i) /\ pc'[i] = "ready"
    <2>1. view[i].state[n] = state[n] /\ state[n].rev \in Nat
      BY <1>2, <1>13, RecordTypes DEF WroteState, ProcOK, SeenState
    <2>2. /\ state'[n].status = "RUNNING" /\ state'[n].rev = state[n].rev + 1
          /\ state'[n].latest = l /\ state'[n].active = i
      BY <1>13 DEF WroteState
    <2>3. attempt[n][i].no = l /\ l # 0
      BY <1>2, <1>4, <1>5 DEF ProcOK, SeenAttempt
    <2>4. StateOK(n)' /\ NodeTruthful(n)'
      BY <1>1, <2>1, <2>2, <2>3 DEF StateOK, NodeTruthful
    <2>5. ASSUME n \in NonIdempotent PROVE OnceOK(n)'
      <3>1. \A j \in Invocation : ~Engaged(n, j)
        BY <1>4, <2>1, <2>5 DEF NodeOK, OnceOK
      <3>2. ASSUME NEW j \in Invocation, Engaged(n, j)' PROVE j = i
        BY <1>1, <1>9, <1>11, <3>1, <3>2 DEF Engaged, OthersKept, Kept
      <3>3. QED
        BY <2>2, <3>2 DEF OnceOK
    <2>6. \A j \in Invocation : AttemptOK(n, j)'
      BY <1>1, <1>4 DEF NodeOK, AttemptOK
    <2>7. NodeOK(n)'
      BY <2>4, <2>5, <2>6 DEF NodeOK
    <2>8. PhaseOK(i)'
      <3>1. AtOK(i)'
        BY <1>2, <1>9, <1>13 DEF AtOK, InNode
      <3>2. /\ view'[i].state[n].status = "RUNNING" /\ view'[i].state[n].active = i
            /\ view'[i].attempt[n][i].no # 0 /\ job'[n][i] = "none"
        BY <1>1, <1>4, <1>13, <2>2 DEF WroteState
      <3>3. NodePhaseOK(i, n)'
        BY <1>13, <3>2 DEF NodePhaseOK
      <3>4. NodePhaseOK(i, Order[at[i]])'
        BY <1>3, <1>9, <3>3 DEF NodePhaseOK
      <3>5. QED
        BY <1>13, <3>1, <3>4 DEF PhaseOK
    <2>9. \A m \in Node : Ahead(i, m)' => Ahead(i, m)
      BY <1>1, <1>9, <1>13 DEF Ahead, BeforeLoop, InNode
    <2>10. ASSUME NEW m \in Node \ {n}, NEW j \in Invocation, Engaged(m, j)' PROVE Engaged(m, j)
      BY <1>1, <1>3, <1>9, <1>11, <2>10 DEF Engaged, OthersKept, Kept
    <2>11. QED
      BY <1>1, <1>9, <1>10, <1>11, <1>13, <2>7, <2>8, <2>9, <2>10, WriteStep
  <1>14. QED
    BY <1>8, <1>12, <1>13

\* A process decides on its attempt, or is authorised to write the decision.
LEMMA DecideStep ==
  ASSUME IInv, NEW i \in Invocation, NEW p \in {"authorize", "persist"},
         pc[i] \in {"ready", "wait", "authorize"}, Goto(i, p),
         UNCHANGED <<state, attempt, resolved, job, view, at, todo, resolver>>, RestTypes,
         decision' \in [Invocation -> [Node -> Decision]],
         \A k \in Invocation \ {i} : decision'[k] = decision[k],
         /\ decision'[i][Order[at[i]]].status # "none"
         /\ decision'[i][Order[at[i]]].status = "SUCCESS" => job[Order[at[i]]][i] = "SUCCESS"
         /\ decision'[i][Order[at[i]]].code = "PREPARE_FAILED" =>
               job[Order[at[i]]][i] = "notBegun"
  PROVE  IInv'
  <1>1. /\ at[i] \in 1..Len(Order) /\ Order[at[i]] \in Node /\ NodePhaseOK(i, Order[at[i]])
        /\ ProcOK(i) /\ TypeOK
    BY NodeOfPhase DEF InNode
  <1>2. /\ pc'[i] = p
        /\ pc' \in [Invocation -> Phase] /\ \A k \in Invocation \ {i} : pc'[k] = pc[k]
    BY <1>1, GotoMoves DEF Phase
  <1>3. TypeOK'
    BY <1>1, <1>2 DEF TypeOK, RestTypes
  <1>4. PhaseOK(i)'
    <2>1. AtOK(i)'
      BY <1>1, <1>2 DEF AtOK, InNode
    <2>2. NodePhaseOK(i, Order[at[i]])'
      BY <1>1, <1>2 DEF NodePhaseOK, InNode
    <2>3. QED
      BY <1>2, <2>1, <2>2 DEF PhaseOK
  <1>5. \A n \in Node : Ahead(i, n)' => Ahead(i, n)
    BY <1>2 DEF Ahead, BeforeLoop, InNode
  <1>6. OthersKept(i) /\ Refreshed(i)
    BY <1>2 DEF OthersKept, Kept, Refreshed
  <1>7. QED
    BY <1>2, <1>3, <1>4, <1>5, <1>6, QuietStep

\* What a process decides of its attempt.
LEMMA DecideMoves ==
  ASSUME TypeOK, NEW i \in Invocation, Order[at[i]] \in Node, NEW s \in Terminal,
         NEW c \in Code, Decide(i, s, c)
  PROVE  /\ decision' \in [Invocation -> [Node -> Decision]]
         /\ \A k \in Invocation \ {i} : decision'[k] = decision[k]
         /\ decision'[i][Order[at[i]]].status = s /\ decision'[i][Order[at[i]]].code = c
  <1> DEFINE d == [status |-> s, code |-> c]
             n == Order[at[i]]
  <1>1. d \in Decision /\ d.status = s /\ d.code = c
    BY DEF Decision
  <1>2. decision' = [decision EXCEPT ![i][n] = d]
    BY DEF Decide
  <1> HIDE DEF d, n
  <1>3. n \in Node
    BY DEF n
  <1>4. /\ decision' \in [Invocation -> [Node -> Decision]]
        /\ \A k \in Invocation \ {i} : decision'[k] = decision[k]
        /\ decision'[i][n] = d
    BY <1>1, <1>2, <1>3 DEF TypeOK
  <1>5. QED
    BY <1>1, <1>4 DEF n

\* An attempt that fails before execute.
LEMMA OutputPathRejectedKeeps ==
  ASSUME IInv, NEW i \in Invocation, OutputPathRejected(i)
  PROVE  IInv'
  <1>1. /\ pc[i] = "ready" /\ Decide(i, "FAILED", "IO_PATH") /\ Goto(i, "authorize")
        /\ UNCHANGED <<records, job, owner, view, outcome, mode, at, sel, todo, excl, lease,
                       seen, env>>
    BY DEF OutputPathRejected
  <1>2. Order[at[i]] \in Node /\ TypeOK
    BY <1>1, NodeOfPhase DEF InNode
  <1>3. /\ decision' \in [Invocation -> [Node -> Decision]]
        /\ \A k \in Invocation \ {i} : decision'[k] = decision[k]
        /\ decision'[i][Order[at[i]]].status = "FAILED"
        /\ decision'[i][Order[at[i]]].code = "IO_PATH"
    BY <1>1, <1>2, DecideMoves DEF Terminal, Code
  <1>4. RestTypes
    BY <1>1, <1>2 DEF RestTypes, TypeOK, records, env
  <1>5. QED
    BY <1>1, <1>3, <1>4, DecideStep DEF records, env

\* SUCCESS is decided only for a job that ended so.
LEMMA ClassifyResultKeeps ==
  ASSUME IInv, NEW i \in Invocation, ClassifyResult(i)
  PROVE  IInv'
  <1>1. /\ pc[i] = "wait" /\ Goto(i, "authorize")
        /\ UNCHANGED <<records, job, owner, view, outcome, mode, at, sel, todo, excl, lease,
                       seen, env>>
    BY DEF ClassifyResult
  <1>2. Order[at[i]] \in Node /\ TypeOK
    BY <1>1, NodeOfPhase DEF InNode
  <1>3. PICK n \in Node : n = Order[at[i]]
    BY <1>2
  <1>4. PICK c \in Classified(job[n][i]) : Decide(i, c[1], c[2])
    BY <1>3 DEF ClassifyResult
  <1>5. \/ c[1] = "UNKNOWN" /\ c[2] = "RESULT"
        \/ c[1] \in Outcomes /\ c[1] = job[n][i] /\ c[2] = "RESULT"
        \/ /\ c[1] = "CANCELLED" /\ c[2] = "PREPARE_FAILED"
           /\ job[n][i] = "notBegun"
    BY <1>4 DEF Classified
  <1>6. PICK s \in Terminal, k \in Code : s = c[1] /\ k = c[2]
    BY <1>5 DEF Terminal, Code, Outcomes
  <1>7. Decide(i, s, k)
    BY <1>4, <1>6
  <1>8. /\ decision' \in [Invocation -> [Node -> Decision]]
        /\ \A m \in Invocation \ {i} : decision'[m] = decision[m]
        /\ decision'[i][n].status = s /\ decision'[i][n].code = k
    BY <1>2, <1>3, <1>7, DecideMoves
  <1>9. /\ s # "none" /\ (s = "SUCCESS" => job[n][i] = "SUCCESS")
        /\ k = "PREPARE_FAILED" => job[n][i] = "notBegun"
    BY <1>5, <1>6 DEF Terminal
  <1>10. RestTypes
    BY <1>1, <1>2 DEF RestTypes, TypeOK, records, env
  <1>11. QED
    BY <1>1, <1>3, <1>8, <1>9, <1>10, DecideStep DEF records, env

\* The lease is confirmed before the result is written.
LEMMA AuthorizeResultKeeps ==
  ASSUME IInv, NEW i \in Invocation, AuthorizeResult(i)
  PROVE  IInv'
  <1>1. /\ pc[i] = "authorize" /\ Goto(i, "persist")
        /\ UNCHANGED <<records, job, owner, view, outcome, mode, at, sel, todo, excl, decision,
                       seen, env>>
    BY DEF AuthorizeResult
  <1>2. NodePhaseOK(i, Order[at[i]]) /\ TypeOK
    BY <1>1, NodeOfPhase DEF InNode
  <1>3. lease' \in [Invocation -> {"HELD", "UNCERTAIN", "FINAL"}]
    BY <1>2 DEF AuthorizeResult, TypeOK
  <1>4. RestTypes
    BY <1>1, <1>2, <1>3 DEF RestTypes, TypeOK, records, env
  <1>5. decision' \in [Invocation -> [Node -> Decision]]
    BY <1>1, <1>2 DEF TypeOK
  <1>6. QED
    BY <1>1, <1>2, <1>4, <1>5, DecideStep DEF NodePhaseOK, records, env

\* A job moves on: it has not ended and its attempt is engaged.
LEMMA JobStepKeeps ==
  ASSUME IInv, NEW n \in Node, NEW i \in Invocation, JobStep(n, i)
  PROVE  IInv'
  <1>1. TypeOK /\ UNCHANGED <<records, owner, pc, outcome, view, scratch, env>>
    BY DEF IInv, JobStep
  <1>2. PICK x \in JobState : job' = [job EXCEPT ![n][i] = x]
    BY DEF JobStep, JobState
  <1>3. job[n][i] \in {"launched", "RUNNING"}
    BY DEF JobStep
  <1>4. /\ job' \in [Node -> [Invocation -> JobState]]
        /\ \A m \in Node, k \in Invocation : m # n \/ k # i => job'[m][k] = job[m][k]
    BY <1>1, <1>2 DEF TypeOK
  <1>5. TypeOK'
    BY <1>1, <1>4 DEF TypeOK, records, scratch, env
  <1>6. Evolves
    BY <1>1, <1>3, <1>4 DEF Evolves, records
  <1>7. \A m \in Node : StateOK(m) /\ \A k \in Invocation : AttemptOK(m, k)
    BY DEF IInv, NodeOK
  <1>8. \A m \in Node, k \in Invocation : AttemptOK(m, k)'
    BY <1>1, <1>6, <1>7, AttemptKept DEF records
  <1>9. ASSUME NEW m \in Node PROVE NodeOK(m)'
    <2>1. ASSUME NEW k \in Invocation, Engaged(m, k)' PROVE Engaged(m, k)
      BY <1>1, <1>3, <1>4, <2>1 DEF Engaged, scratch
    <2>2. QED
      BY <1>1, <1>5, <1>6, <1>8, <2>1, NodeKept DEF IInv, records
  <1>10. ASSUME NEW k \in Invocation PROVE ProcOK(k)'
    <2>1. Kept(k) /\ FreshKept(k)
      BY <1>1, <1>3, <1>4 DEF Kept, FreshKept, scratch, records
    <2>2. QED
      BY <1>1, <1>5, <1>6, <1>7, <1>8, <2>1, KeptOK DEF IInv
  <1>11. QED
    BY <1>1, <1>5, <1>6, <1>9, <1>10, ResolverKept DEF IInv, env

\* The job of an engaged process is started.
LEMMA LaunchKeeps ==
  ASSUME IInv, NEW i \in Invocation, Launch(i)
  PROVE  IInv'
  <1>1. pc[i] = "launch" /\ UNCHANGED <<records, owner, view, outcome, scratch, env>>
    BY DEF Launch
  <1>2. /\ at[i] \in 1..Len(Order) /\ Order[at[i]] \in Node /\ NodePhaseOK(i, Order[at[i]])
        /\ ProcOK(i) /\ TypeOK /\ at[i] \in Nat
    BY <1>1, NodeOfPhase DEF InNode
  <1>3. PICK n \in Node : n = Order[at[i]]
    BY <1>2
  <1>4. job[n][i] = "none" /\ job' = [job EXCEPT ![n][i] = "launched"]
    BY <1>1, <1>2, <1>3 DEF Launch, NodePhaseOK
  <1>5. /\ job' \in [Node -> [Invocation -> JobState]] /\ job'[n][i] = "launched"
        /\ \A m \in Node, k \in Invocation : m # n \/ k # i => job'[m][k] = job[m][k]
    BY <1>2, <1>4 DEF TypeOK, JobState
  <1>6. /\ pc'[i] = "wait"
        /\ pc' \in [Invocation -> Phase] /\ \A k \in Invocation \ {i} : pc'[k] = pc[k]
    BY <1>2, GotoMoves DEF Launch, Phase
  <1>7. TypeOK'
    BY <1>1, <1>2, <1>5, <1>6 DEF TypeOK, records, scratch, env
  <1>8. Evolves
    BY <1>1, <1>4, <1>5 DEF Evolves, records
  <1>9. \A m \in Node : StateOK(m) /\ \A k \in Invocation : AttemptOK(m, k)
    BY DEF IInv, NodeOK
  <1>10. \A m \in Node, k \in Invocation : AttemptOK(m, k)'
    BY <1>1, <1>8, <1>9, AttemptKept DEF records
  <1>11. OthersKept(i)
    BY <1>1, <1>6 DEF OthersKept, Kept, scratch
  <1>12. UNCHANGED <<state, attempt, resolved, at, todo, decision, view, resolver>>
    BY <1>1 DEF records, scratch, env
  <1>13. ASSUME NEW m \in Node PROVE NodeOK(m)'
    <2>1. ASSUME NEW k \in Invocation, Engaged(m, k)' PROVE Engaged(m, k)
      BY <1>1, <1>3, <1>5, <1>6, <1>11, <1>12, <2>1 DEF Engaged, OthersKept, Kept
    <2>2. QED
      BY <1>2, <1>7, <1>8, <1>10, <1>12, <2>1, NodeKept DEF IInv
  <1>14. ASSUME NEW k \in Invocation, k # i PROVE ProcOK(k)'
    <2>1. Kept(k) /\ FreshKept(k)
      BY <1>5, <1>11, <1>12, <1>14 DEF OthersKept, FreshKept
    <2>2. QED
      BY <1>2, <1>7, <1>8, <1>9, <1>10, <2>1, KeptOK DEF IInv
  <1>15. ProcOK(i)'
    <2>1. ASSUME NEW m \in Node PROVE SeenState(i, m)'
      BY <1>2, <1>7, <1>8, <1>9, <1>12, SeenStep DEF ProcOK
    <2>2. ASSUME NEW m \in Node, NEW k \in Invocation PROVE SeenAttempt(i, m, k)'
      BY <1>2, <1>7, <1>8, <1>9, <1>10, <1>12, SeenAttemptStep DEF ProcOK
    <2>3. ASSUME NEW m \in Node PROVE FreshOK(i, m)'
      <3>1. SUFFICES ASSUME Ahead(i, m)' PROVE attempt[m][i].no = 0 /\ job'[m][i] = "none"
        BY <1>12 DEF FreshOK
      <3>2. PICK k \in 1..Len(Order) : Order[k] = m /\ k > at[i]
        BY <1>6, <1>12, <3>1 DEF Ahead, BeforeLoop, InNode
      <3>3. m # n
        BY <1>2, <1>3, <3>2, Positions
      <3>4. Ahead(i, m)
        BY <1>1, <3>2 DEF Ahead, InNode
      <3>5. QED
        BY <1>2, <1>5, <3>3, <3>4 DEF ProcOK, FreshOK
    <2>4. PhaseOK(i)'
      <3>1. AtOK(i)'
        BY <1>2, <1>6, <1>12 DEF AtOK, InNode
      <3>2. NodePhaseOK(i, Order[at[i]])'
        BY <1>1, <1>2, <1>6, <1>12 DEF NodePhaseOK, InNode
      <3>3. QED
        BY <1>6, <3>1, <3>2 DEF PhaseOK
    <2>5. QED
      BY <2>1, <2>2, <2>3, <2>4 DEF ProcOK
  <1>16. QED
    BY <1>2, <1>7, <1>8, <1>12, <1>13, <1>14, <1>15, ResolverKept DEF IInv

\* setAttemptExecutionStarted.
LEMMA StartExecutionKeeps ==
  ASSUME IInv, NEW i \in Invocation, SetAttemptExecutionStarted(i)
  PROVE  IInv'
  <1>1. /\ pc[i] = "ready"
        /\ UNCHANGED <<run, state, resolved, cancel, invRec, job, owner, scratch, env>>
    BY DEF SetAttemptExecutionStarted
  <1>2. /\ at[i] \in 1..Len(Order) /\ Order[at[i]] \in Node /\ NodePhaseOK(i, Order[at[i]])
        /\ TypeOK
    BY <1>1, NodeOfPhase DEF InNode
  <1>3. PICK n \in Node : n = Order[at[i]]
    BY <1>2
  <1>4. PutAttempt(i, n, i, "RUNNING", "PENDING", "yes", "launch")
    BY <1>3 DEF SetAttemptExecutionStarted
  <1>5. UNCHANGED <<mode, at, sel, todo, excl, lease, decision, seen>>
    BY <1>1 DEF scratch
  <1>6. ASSUME pc'[i] = "launch", view'[i].state = view[i].state,
               \A m \in Node, k \in Invocation :
                  view'[i].attempt[m][k].no = view[i].attempt[m][k].no
        PROVE  PhaseOK(i)'
    <2>1. AtOK(i)'
      BY <1>2, <1>5, <1>6 DEF AtOK, InNode
    <2>2. NodePhaseOK(i, n)'
      BY <1>1, <1>2, <1>3, <1>5, <1>6 DEF NodePhaseOK, InNode
    <2>3. NodePhaseOK(i, Order[at[i]])'
      BY <1>3, <1>5, <2>2 DEF NodePhaseOK
    <2>4. QED
      BY <1>6, <2>1, <2>3 DEF PhaseOK
  <1>7. /\ "RUNNING" \in {"RUNNING"} \cup Terminal /\ "PENDING" \in Code /\ "launch" \in Phase
        /\ "launch" \in InNode \ {"claim"} /\ pc[i] \in InNode
    BY <1>1 DEF Code, Phase, InNode
  <1>8. at' \in [Invocation -> Nat]
    BY <1>2, <1>5 DEF TypeOK
  <1>9. QED
    BY <1>1, <1>4, <1>5, <1>6, <1>7, <1>8, PutAttemptKeeps

\* finalizeAttempt with the decided status.
LEMMA FinalizeAttemptKeeps ==
  ASSUME IInv, NEW i \in Invocation, FinalizeAttempt(i)
  PROVE  IInv'
  <1>1. /\ pc[i] = "persist"
        /\ UNCHANGED <<run, state, resolved, cancel, invRec, job, owner, scratch, env>>
    BY DEF FinalizeAttempt
  <1>2. /\ at[i] \in 1..Len(Order) /\ Order[at[i]] \in Node /\ NodePhaseOK(i, Order[at[i]])
        /\ TypeOK
    BY <1>1, NodeOfPhase DEF InNode
  <1>3. PICK n \in Node : n = Order[at[i]]
    BY <1>2
  <1>4. decision[i][n] \in Decision /\ view[i].attempt[n][i].started \in {"no", "yes"}
    BY <1>2, RecordTypes
  <1>5. PICK s \in Terminal : s = decision[i][n].status
    BY <1>1, <1>2, <1>3, <1>4 DEF NodePhaseOK, Decision
  <1>6. PICK c \in Code : c = decision[i][n].code
    BY <1>4 DEF Decision
  <1>7. PICK st \in {"no", "yes"} : st = view[i].attempt[n][i].started
    BY <1>4
  <1>7a. PutAttempt(i, n, i, s, c, st, "apply")
    BY <1>3, <1>5, <1>6, <1>7 DEF FinalizeAttempt
  <1>8. UNCHANGED <<mode, at, sel, todo, excl, lease, decision, seen>>
    BY <1>1 DEF scratch
  <1>9. ASSUME pc'[i] = "apply", view'[i].state = view[i].state,
               \A m \in Node, k \in Invocation :
                  view'[i].attempt[m][k].no = view[i].attempt[m][k].no
        PROVE  PhaseOK(i)'
    <2>1. AtOK(i)'
      BY <1>2, <1>8, <1>9 DEF AtOK, InNode
    <2>2. NodePhaseOK(i, n)'
      BY <1>1, <1>2, <1>3, <1>8, <1>9 DEF NodePhaseOK, InNode
    <2>3. NodePhaseOK(i, Order[at[i]])'
      BY <1>3, <1>8, <2>2 DEF NodePhaseOK
    <2>4. QED
      BY <1>9, <2>1, <2>3 DEF PhaseOK
  <1>10. s = "SUCCESS" => job[n][i] = "SUCCESS"
    BY <1>1, <1>2, <1>3, <1>5 DEF NodePhaseOK
  <1>11. /\ s \in {"RUNNING"} \cup Terminal /\ "apply" \in Phase
         /\ "apply" \in InNode \ {"claim"} /\ pc[i] \in InNode
         /\ "apply" \notin {"ready", "launch"}
    BY <1>1 DEF Phase, InNode
  <1>12. at' \in [Invocation -> Nat]
    BY <1>2, <1>8 DEF TypeOK
  <1>13. QED
    BY <1>8, <1>1, <1>7a, <1>9, <1>10, <1>11, <1>12, PutAttemptKeeps

\* The outcome of an attempt becomes its node's; PREPARE_FAILED started no
\* job, so the node may be claimed again.
LEMMA ApplyResultKeeps ==
  ASSUME IInv, NEW i \in Invocation, ApplyResult(i)
  PROVE  IInv'
  <1>1. /\ pc[i] = "apply"
        /\ UNCHANGED <<run, attempt, resolved, cancel, invRec, job, owner, scratch, env>>
    BY DEF ApplyResult
  <1>2. /\ at[i] \in 1..Len(Order) /\ Order[at[i]] \in Node /\ NodePhaseOK(i, Order[at[i]])
        /\ TypeOK /\ NodeOK(Order[at[i]]) /\ ProcOK(i)
    BY <1>1, NodeOfPhase DEF InNode
  <1>3. PICK n \in Node : n = Order[at[i]]
    BY <1>2
  <1>4. /\ view[i].state[n].status = "RUNNING" /\ view[i].state[n].active = i
        /\ decision[i][n].status # "none"
        /\ decision[i][n].status = "SUCCESS" => job[n][i] = "SUCCESS"
        /\ decision[i][n].code = "PREPARE_FAILED" => job[n][i] = "notBegun"
    BY <1>1, <1>2, <1>3 DEF NodePhaseOK, InNode
  <1>5. decision[i][n].status \in Terminal
    BY <1>2, <1>4, RecordTypes DEF Decision
  <1>6. PICK s \in {"WAITING"} \cup Terminal :
           s = IF decision[i][n].code = "PREPARE_FAILED" THEN "WAITING" ELSE decision[i][n].status
    BY <1>5
  <1> DEFINE r == FALSE
  <1>7. PutState(i, n, s, view[i].state[n].latest, None, r, "aggregate")
    BY <1>3, <1>6 DEF ApplyResult
  <1>8. /\ r \in BOOLEAN /\ s \in NodeStatus \ {"RUNNING"} /\ "aggregate" \in Phase
        /\ None \in {None, view[i].state[n].active}
    BY DEF NodeStatus, Terminal, Phase
  <1> HIDE DEF r
  <1>9. UNCHANGED <<mode, at, sel, todo, excl, lease, decision, seen>>
    BY <1>1 DEF scratch
  <1>10. ASSUME view[i].state[n] = state[n], s = "WAITING", n \in NonIdempotent
         PROVE  \A j \in Invocation : ~Engaged(n, j)
    <2>1. job[n][i] = "notBegun"
      BY <1>4, <1>5, <1>6, <1>10 DEF Terminal
    <2>2. ~Engaged(n, i)
      BY <1>1, <2>1 DEF Engaged
    <2>3. QED
      BY <1>2, <1>3, <1>4, <1>10, <2>2 DEF NodeOK, OnceOK
  <1>11. ASSUME view[i].state[n] = state[n], s = "SUCCESS"
         PROVE  \E j \in Invocation : /\ attempt[n][j].no = state[n].latest
                                      /\ job[n][j] = "SUCCESS" \/ "SUCCESS" \in resolved[n][j]
    <2>1. job[n][i] = "SUCCESS"
      BY <1>4, <1>6, <1>11
    <2>2. attempt[n][i].no = state[n].latest
      BY <1>2, <1>3, <1>4, <1>11, ExecutionAssumption DEF NodeOK, StateOK
    <2>3. QED
      BY <2>1, <2>2
  <1>12. ASSUME pc'[i] = "aggregate" PROVE PhaseOK(i)'
    BY <1>2, <1>9, <1>12 DEF PhaseOK, AtOK, InNode
  <1>13. excl' \in [Invocation -> SUBSET Node] /\ todo' \in [Invocation -> SUBSET Node]
    BY <1>2, <1>9 DEF TypeOK
  <1>14. QED
    BY <1>1, <1>7, <1>8, <1>9, <1>10, <1>11, <1>12, <1>13, PutStateKeeps

\* States and attempts are read again.
LEMMA RecordsRead ==
  ASSUME TypeOK, NEW i \in Invocation,
         view' = [view EXCEPT ![i].state = state, ![i].attempt = attempt]
  PROVE  /\ view' \in [Invocation -> View] /\ \A k \in Invocation \ {i} : view'[k] = view[k]
         /\ view'[i].state = state /\ view'[i].run = view[i].run
         /\ view'[i].attempt = attempt /\ view'[i].resolved = view[i].resolved
  <1>1. view[i] \in View /\ view \in [Invocation -> View]
    BY DEF TypeOK
  <1> DEFINE w == [[view[i] EXCEPT !.state = state] EXCEPT !.attempt = attempt]
  <1>2. /\ w \in View /\ w.state = state /\ w.run = view[i].run
        /\ w.attempt = attempt /\ w.resolved = view[i].resolved
    BY <1>1 DEF View, TypeOK
  <1>3. view' = [view EXCEPT ![i] = w]
    BY <1>1
  <1> HIDE DEF w
  <1>4. view'[i] = w /\ view' \in [Invocation -> View]
    BY <1>1, <1>2, <1>3
  <1>5. QED
    BY <1>1, <1>2, <1>3, <1>4

\* A candidate names the active attempt and decides on its JOB log.
LEMMA ReadOrphansKeeps ==
  ASSUME IInv, NEW i \in Invocation, ReadOrphans(i)
  PROVE  IInv'
  <1> DEFINE orphan(n) == /\ state[n].status = "RUNNING"
                          /\ state[n].active \notin {None, i}
                          /\ attempt[n][state[n].active].status = "RUNNING"
             D == [n \in Node |-> IF orphan(n) THEN OrphanDecision(job[n][state[n].active])
                                  ELSE NoDecision[n]]
             T == {n \in Node : orphan(n)}
  <1>1. /\ TypeOK /\ pc[i] = "orphanRead"
        /\ UNCHANGED <<records, job, owner, mode, at, sel, excl, lease, seen, outcome, env>>
    BY DEF IInv, ReadOrphans
  <1>2. /\ view' \in [Invocation -> View] /\ \A k \in Invocation \ {i} : view'[k] = view[k]
        /\ view'[i].state = state /\ view'[i].run = view[i].run
        /\ view'[i].attempt = attempt /\ view'[i].resolved = view[i].resolved
    BY <1>1, RecordsRead DEF ReadOrphans
  <1>3. /\ pc'[i] = "orphan"
        /\ pc' \in [Invocation -> Phase] /\ \A k \in Invocation \ {i} : pc'[k] = pc[k]
    BY <1>1, GotoMoves DEF ReadOrphans, Phase
  <1>4. D \in [Node -> Decision]
    <2>1. ASSUME NEW j PROVE OrphanDecision(j) \in Decision
      BY DEF OrphanDecision, Decision, Terminal, Outcomes, Code
    <2>2. \A n \in Node : NoDecision[n] \in Decision
      BY TypesOfNothing
    <2>3. QED
      BY <2>1, <2>2
  <1>5. decision' = [decision EXCEPT ![i] = D] /\ todo' = [todo EXCEPT ![i] = T]
    BY DEF ReadOrphans
  <1>6. ASSUME NEW n \in T
        PROVE  /\ n \in Node /\ state[n].active \in Invocation /\ D[n].status # "none"
               /\ D[n].status = "SUCCESS" => job[n][state[n].active] = "SUCCESS"
    BY <1>1, RecordTypes DEF OrphanDecision, Outcomes
  <1>7. T \subseteq Node
    OBVIOUS
  <1> HIDE DEF D, T
  <1>8. /\ decision' \in [Invocation -> [Node -> Decision]] /\ decision'[i] = D
        /\ todo' \in [Invocation -> SUBSET Node] /\ todo'[i] = T
        /\ \A k \in Invocation \ {i} : decision'[k] = decision[k] /\ todo'[k] = todo[k]
    BY <1>1, <1>4, <1>5, <1>7 DEF TypeOK
  <1>9. TypeOK'
    BY <1>1, <1>2, <1>3, <1>8 DEF TypeOK, records, env
  <1>10. OthersKept(i)
    BY <1>1, <1>2, <1>3, <1>8 DEF OthersKept, Kept
  <1>11. Refreshed(i)
    BY <1>2 DEF Refreshed
  <1>12. \A n \in T : OrphanOK(i, n)'
    BY <1>1, <1>2, <1>6, <1>8 DEF OrphanOK
  <1>13. PhaseOK(i)'
    BY <1>3, <1>8, <1>12 DEF PhaseOK, AtOK, InNode
  <1>14. \A n \in Node : Ahead(i, n)' => Ahead(i, n)
    BY <1>1 DEF Ahead, BeforeLoop
  <1>15. QED
    BY <1>1, <1>3, <1>9, <1>10, <1>11, <1>13, <1>14, QuietStep DEF records, env

\* finalizeAttempt for an attempt that a dead invocation left.
LEMMA AdjudicateOrphanKeeps ==
  ASSUME IInv, NEW i \in Invocation, AdjudicateOrphan(i)
  PROVE  IInv'
  <1>1. /\ TypeOK /\ pc[i] = "orphan" /\ ProcOK(i)
        /\ UNCHANGED <<run, state, resolved, cancel, invRec, job, owner, mode, sel, todo, excl,
                       lease, decision, seen, env>>
    BY DEF IInv, AdjudicateOrphan
  <1>2. CASE /\ todo[i] = {}
             /\ Goto(i, "abandon") /\ UNCHANGED <<attempt, view, at, outcome>>
    <2>1. RestTypes
      BY <1>1, <1>2 DEF RestTypes, TypeOK, env
    <2>2. pc[i] \in BeforeLoop
      BY <1>1 DEF BeforeLoop
    <2>3. QED
      BY <1>1, <1>2, <2>1, <2>2, PhaseStep DEF env
  <1>3. CASE \E n \in todo[i] :
                /\ PutAttempt(i, n, view[i].state[n].active, decision[i][n].status,
                              decision[i][n].code,
                              view[i].attempt[n][view[i].state[n].active].started, "orphanState")
                /\ at' = [at EXCEPT ![i] = CHOOSE k \in 1..Len(Order) : Order[k] = n]
    <2>1. PICK n \in todo[i] :
                /\ PutAttempt(i, n, view[i].state[n].active, decision[i][n].status,
                              decision[i][n].code,
                              view[i].attempt[n][view[i].state[n].active].started, "orphanState")
                /\ at' = [at EXCEPT ![i] = CHOOSE k \in 1..Len(Order) : Order[k] = n]
      BY <1>3
    <2>2. n \in Node /\ \A m \in todo[i] : m \in Node /\ OrphanOK(i, m)
      BY <1>1 DEF TypeOK, ProcOK, PhaseOK
    <2>3. PICK j \in Invocation : j = view[i].state[n].active
      BY <2>2 DEF OrphanOK
    <2>4. decision[i][n] \in Decision /\ view[i].attempt[n][j].started \in {"no", "yes"}
      BY <1>1, <2>2, RecordTypes
    <2>5. PICK s \in Terminal : s = decision[i][n].status
      BY <2>2, <2>4 DEF OrphanOK, Decision
    <2>6. PICK c \in Code : c = decision[i][n].code
      BY <2>4 DEF Decision
    <2>7. PICK st \in {"no", "yes"} : st = view[i].attempt[n][j].started
      BY <2>4
    <2>8. PutAttempt(i, n, j, s, c, st, "orphanState")
      BY <2>1, <2>3, <2>5, <2>6, <2>7
    <2>9. PICK k \in 1..Len(Order) : Order[k] = n /\ at' = [at EXCEPT ![i] = k]
      BY <2>1, <2>2, Positions
    <2>10. /\ at' \in [Invocation -> Nat] /\ at'[i] = k
           /\ \A l \in Invocation \ {i} : at'[l] = at[l]
      BY <1>1, <2>9, Positions DEF TypeOK
    <2>11. ASSUME pc'[i] = "orphanState", view'[i].state = view[i].state,
                  \A m \in Node, l \in Invocation :
                     view'[i].attempt[m][l].no = view[i].attempt[m][l].no
           PROVE  PhaseOK(i)'
      <3>1. AtOK(i)'
        BY <2>10, <2>11 DEF AtOK, InNode
      <3>2. NodePhaseOK(i, n)'
        BY <1>1, <2>11 DEF NodePhaseOK, InNode
      <3>3. NodePhaseOK(i, Order[at[i]])'
        BY <2>9, <2>10, <3>2 DEF NodePhaseOK
      <3>4. \A m \in todo[i] : OrphanOK(i, m)'
        BY <1>1, <2>2, <2>11 DEF OrphanOK
      <3>5. QED
        BY <1>1, <2>11, <3>1, <3>3, <3>4 DEF PhaseOK
    <2>12. s = "SUCCESS" => job[n][j] = "SUCCESS"
      BY <2>2, <2>3, <2>5 DEF OrphanOK
    <2>13. /\ s \in {"RUNNING"} \cup Terminal /\ "orphanState" \in Phase
           /\ "orphanState" \in BeforeLoop /\ pc[i] \in BeforeLoop
           /\ "orphanState" \notin {"ready", "launch"}
      BY <1>1 DEF Phase, BeforeLoop
    <2>14. UNCHANGED <<run, state, resolved, cancel, invRec, job, owner, mode, sel, todo, excl,
                       lease, decision, seen, env>>
      BY <1>1
    <2>15. n \in Node
      BY <2>2
    <2>16. QED
      BY <2>8, <2>10, <2>11, <2>12, <2>13, <2>14, <2>15, PutAttemptKeeps
  <1>4. QED
    BY <1>2, <1>3 DEF AdjudicateOrphan

-----------------------------------------------------------------------------
(* resolve-node, beside the processes. *)

\* No resolve-node call is in progress.
LEMMA NoResolverOK ==
  /\ NoResolver \in ResolverRecord
  /\ NoResolver.stage = "idle"
  <1>1. Order[1] \in Node
    BY NetworkAssumption, Positions
  <1>2. QED
    BY <1>1, TypesOfNothing DEF NoResolver, ResolverRecord, Outcomes

\* Only the resolver, resolutions and counters change.
LEMMA ResolverStep ==
  ASSUME IInv, TypeOK', ResolverOK',
         UNCHANGED <<state, attempt, job, pc, at, todo, view, decision>>,
         \A n \in Node, j \in Invocation : resolved[n][j] \subseteq resolved'[n][j]
  PROVE  IInv'
  <1>1. TypeOK /\ Evolves
    BY DEF IInv, Evolves
  <1>2. \A n \in Node : StateOK(n) /\ \A j \in Invocation : AttemptOK(n, j)
    BY DEF IInv, NodeOK
  <1>3. \A n \in Node, j \in Invocation : AttemptOK(n, j)'
    BY <1>1, <1>2, AttemptKept
  <1>4. ASSUME NEW n \in Node PROVE NodeOK(n)'
    <2>1. \A j \in Invocation : Engaged(n, j)' => Engaged(n, j)
      BY DEF Engaged
    <2>2. QED
      BY <1>1, <1>3, <2>1, NodeKept DEF IInv
  <1>5. ASSUME NEW k \in Invocation PROVE ProcOK(k)'
    <2>1. Kept(k) /\ FreshKept(k)
      BY DEF Kept, FreshKept
    <2>2. QED
      BY <1>1, <1>2, <1>3, <2>1, KeptOK DEF IInv
  <1>6. QED
    BY <1>4, <1>5 DEF IInv

\* resolveNode reads a state that says UNKNOWN or FAILED.
LEMMA ResolveReadKeeps ==
  ASSUME IInv, NEW n \in Node, NEW o \in Outcomes, ResolveRead(n, o)
  PROVE  IInv'
  <1>1. /\ TypeOK /\ StateOK(n)
        /\ UNCHANGED <<records, job, owner, pc, outcome, view, scratch, stopper, heldStarts>>
        /\ used' = [used EXCEPT !.calls = used.calls + 1]
        /\ state[n].status \in {"UNKNOWN", "FAILED"}
    BY DEF IInv, ResolveRead, NodeOK
  <1>2. PICK j \in Invocation :
           /\ attempt[n][j].no = state[n].latest
           /\ resolver' = [stage |-> "append", node |-> n, inv |-> j, to |-> o, old |-> state[n]]
    BY DEF ResolveRead
  <1>3. state[n] \in StateRecord /\ state[n].rev \in Nat
    BY <1>1, <1>2, RecordTypes
  <1>4. /\ resolver' \in ResolverRecord /\ resolver'.stage = "append" /\ resolver'.node = n
        /\ resolver'.inv = j /\ resolver'.old = state[n]
    BY <1>2, <1>3 DEF ResolverRecord
  <1>5. TypeOK'
    BY <1>1, <1>4, UsedType DEF TypeOK, records, scratch
  <1>6. state[n].latest # 0
    BY <1>1 DEF StateOK
  <1>7. UNCHANGED <<state, attempt, resolved, job, pc, at, todo, view, decision>>
    BY <1>1 DEF records, scratch
  <1>8. ResolverOK'
    BY <1>1, <1>2, <1>3, <1>4, <1>6, <1>7 DEF ResolverOK
  <1>9. QED
    BY <1>5, <1>7, <1>8, ResolverStep

\* appendAttemptResolution before the Node State is written.
LEMMA ResolveAppendKeeps ==
  ASSUME IInv, ResolveAppend
  PROVE  IInv'
  <1>1. /\ TypeOK /\ ResolverOK /\ resolver.stage = "append"
        /\ UNCHANGED <<run, state, attempt, cancel, invRec, job, owner, pc, outcome, view,
                       scratch, stopper, used, heldStarts>>
    BY DEF IInv, ResolveAppend
  <1>2. PICK n \in Node, j \in Invocation, o \in Outcomes :
           n = resolver.node /\ j = resolver.inv /\ o = resolver.to
    BY <1>1 DEF TypeOK, ResolverRecord, ResolverOK
  <1>3. resolved' = [resolved EXCEPT ![n][j] = @ \cup {o}]
    BY <1>2 DEF ResolveAppend
  <1>4. /\ resolved' \in [Node -> [Invocation -> SUBSET Outcomes]]
        /\ resolved'[n][j] = resolved[n][j] \cup {o}
        /\ \A m \in Node, k \in Invocation : m # n \/ k # j => resolved'[m][k] = resolved[m][k]
    BY <1>1, <1>3 DEF TypeOK
  <1>5. /\ resolver' \in ResolverRecord /\ resolver'.node = n /\ resolver'.inv = j
        /\ resolver'.old = resolver.old /\ resolver'.to = o
    BY <1>1, <1>2 DEF ResolveAppend, TypeOK, ResolverRecord
  <1>6. TypeOK'
    BY <1>1, <1>4, <1>5 DEF TypeOK, scratch
  <1>7. ResolverOK'
    BY <1>1, <1>2, <1>4, <1>5 DEF ResolverOK
  <1>8. QED
    BY <1>1, <1>4, <1>6, <1>7, ResolverStep DEF scratch

\* resolve-node writes over the version it read, which says UNKNOWN or FAILED.
LEMMA ResolveApplyKeeps ==
  ASSUME IInv, ResolveApply
  PROVE  IInv'
  <1>1. /\ TypeOK /\ ResolverOK /\ resolver.stage = "apply" /\ resolver' = NoResolver
        /\ UNCHANGED <<run, attempt, resolved, cancel, invRec, job, owner, pc, outcome, view,
                       scratch, stopper, used, heldStarts>>
    BY DEF IInv, ResolveApply
  <1>2. PICK n \in Node, j \in Invocation, s \in Outcomes :
           n = resolver.node /\ j = resolver.inv /\ s = resolver.to
    BY <1>1 DEF TypeOK, ResolverRecord, ResolverOK
  <1>3. ResolverOK' /\ resolver' \in ResolverRecord
    BY <1>1, NoResolverOK DEF ResolverOK
  <1>4. UNCHANGED <<attempt, resolved, job, pc, at, todo, view, decision>>
    BY <1>1 DEF scratch
  <1>5. CASE UNCHANGED state
    <2>1. TypeOK'
      BY <1>1, <1>3, <1>5 DEF TypeOK, scratch
    <2>2. QED
      BY <1>3, <1>4, <1>5, <2>1, ResolverStep
  <1>6. CASE /\ state[n].rev = resolver.old.rev
             /\ <<state[n].status, s>> \in AllowedTransition \cup ResolutionTransition
             /\ state' = [state EXCEPT ![n] =
                            [status |-> s, rev |-> state[n].rev + 1,
                             latest |-> state[n].latest, active |-> None]]
    <2> DEFINE w == [status |-> s, rev |-> state[n].rev + 1,
                     latest |-> state[n].latest, active |-> None]
    <2>1. state[n] \in StateRecord /\ state[n].rev \in Nat /\ state[n].latest \in Nat
      BY <1>1, RecordTypes
    <2>2. w \in StateRecord /\ w.rev = state[n].rev + 1
      BY <2>1 DEF StateRecord, NodeStatus, Outcomes
    <2> HIDE DEF w
    <2>3. /\ state' \in [Node -> StateRecord] /\ state'[n] = w
          /\ \A m \in Node \ {n} : state'[m] = state[m]
      BY <1>1, <1>6, <2>2 DEF TypeOK, w
    <2>4. TypeOK'
      BY <1>1, <1>3, <2>3 DEF TypeOK, scratch
    <2>5. Evolves
      BY <1>4, <2>1, <2>2, <2>3 DEF Evolves
    <2>6. \A m \in Node : StateOK(m) /\ \A k \in Invocation : AttemptOK(m, k)
      BY DEF IInv, NodeOK
    <2>7. \A m \in Node, k \in Invocation : AttemptOK(m, k)'
      BY <1>4, <2>5, <2>6, AttemptKept
    <2>8. \A m \in Node, k \in Invocation : Engaged(m, k)' => Engaged(m, k)
      BY <1>4 DEF Engaged
    <2>9. state[n] = resolver.old /\ attempt[n][j].no = state[n].latest /\ s \in resolved[n][j]
      BY <1>1, <1>2, <1>6 DEF ResolverOK
    <2>10. NodeOK(n)'
      <3>1. s \in NodeStatus \ {"RUNNING"} /\ s # "WAITING"
        BY DEF NodeStatus, Outcomes
      <3>2. state'[n] = [status |-> s, rev |-> state[n].rev + 1, latest |-> state[n].latest,
                         active |-> None]
        BY <2>3 DEF w
      <3>3. QED
        BY <1>1, <1>4, <1>6, <2>4, <2>8, <2>9, <3>1, <3>2, WrittenNode DEF IInv
    <2>11. ASSUME NEW m \in Node, m # n PROVE NodeOK(m)'
      BY <1>1, <2>3, <2>4, <2>5, <2>7, <2>8, <2>11, NodeKept DEF IInv
    <2>12. ASSUME NEW k \in Invocation PROVE ProcOK(k)'
      <3>1. Kept(k) /\ FreshKept(k)
        BY <1>4 DEF Kept, FreshKept
      <3>2. QED
        BY <1>1, <2>4, <2>5, <2>6, <2>7, <3>1, KeptOK DEF IInv
    <2>13. QED
      BY <1>3, <2>4, <2>10, <2>11, <2>12 DEF IInv
  <1>7. QED
    <2>1. CASE StateWritable(n, resolver.old, s, TRUE)
      <3>1. /\ state[n].rev = resolver.old.rev
            /\ <<state[n].status, s>> \in AllowedTransition \cup ResolutionTransition
        BY <2>1 DEF StateWritable
      <3>2. state' = [state EXCEPT ![n] = [status |-> s, rev |-> state[n].rev + 1,
                             latest |-> state[n].latest, active |-> None]]
        BY <1>1, <1>2, <2>1 DEF ResolveApply, NewState, TypeOK
      <3>3. QED
        BY <1>6, <3>1, <3>2
    <2>2. CASE ~StateWritable(n, resolver.old, s, TRUE)
      BY <1>2, <1>5, <2>2 DEF ResolveApply
    <2>3. QED
      BY <2>1, <2>2

\* All steps of resolve-node.
LEMMA ResolveKeeps ==
  ASSUME IInv, Resolve
  PROVE  IInv'
  <1>1. CASE ResolverDies
    <2>1. /\ TypeOK /\ resolver' = NoResolver
          /\ used' = [used EXCEPT !.faults = used.faults + 1]
          /\ UNCHANGED <<records, job, owner, pc, outcome, view, scratch, stopper, heldStarts>>
      BY <1>1 DEF IInv, ResolverDies, Fault
    <2>2. TypeOK'
      BY <2>1, NoResolverOK, UsedType DEF TypeOK, records, scratch
    <2>3. ResolverOK'
      BY <2>1, NoResolverOK DEF ResolverOK
    <2>4. QED
      BY <2>1, <2>2, <2>3, ResolverStep DEF records, scratch
  <1>2. QED
    BY <1>1, ResolveReadKeeps, ResolveAppendKeeps, ResolveApplyKeeps DEF Resolve

-----------------------------------------------------------------------------
(* The theorems that need no exclusion. *)

\* A Run that does not exist yet.
LEMMA InitIInv ==
  ASSUME Init
  PROVE  IInv
  <1>1. /\ \A n \in Node : NoView.state[n] = NoState
        /\ \A n \in Node, j \in Invocation :
              NoView.attempt[n][j] = NoAttempt /\ NoView.resolved[n][j] = {}
    BY DEF NoView
  <1>2. /\ state \in [Node -> StateRecord] /\ run \in RunRecord
        /\ attempt \in [Node -> [Invocation -> AttemptRecord]]
        /\ resolved \in [Node -> [Invocation -> SUBSET Outcomes]]
    BY TypesOfNothing DEF Init, View
  <1>3. /\ view \in [Invocation -> View] /\ decision \in [Invocation -> [Node -> Decision]]
        /\ resolver \in ResolverRecord /\ stopper \in StopperRecord
    BY TypesOfNothing, NoResolverOK DEF Init, NoStopper, StopperRecord
  <1>4. TypeOK
    BY <1>2, <1>3 DEF TypeOK, Init, JobState, Phase, Outcome
  <1>5. /\ \A n \in Node : state[n] = NoState
        /\ \A n \in Node, j \in Invocation :
              attempt[n][j] = NoAttempt /\ job[n][j] = "none"
        /\ \A i \in Invocation : pc[i] = "idle" /\ view[i] = NoView
    BY <1>1 DEF Init
  <1>6. ASSUME NEW n \in Node PROVE NodeOK(n)
    BY <1>5 DEF NodeOK, StateOK, NodeTruthful, OnceOK, AttemptOK, WellFormed, Engaged, NoState,
                NoAttempt
  <1>7. ASSUME NEW i \in Invocation PROVE ProcOK(i)
    <2>1. ASSUME NEW n \in Node PROVE SeenState(i, n) /\ FreshOK(i, n)
      BY <1>1, <1>5 DEF SeenState, FreshOK, NoState, NoAttempt
    <2>2. ASSUME NEW n \in Node, NEW j \in Invocation PROVE SeenAttempt(i, n, j)
      BY <1>1, <1>5 DEF SeenAttempt, WellFormed, NoAttempt
    <2>3. PhaseOK(i)
      BY <1>5 DEF PhaseOK, AtOK, InNode
    <2>4. QED
      BY <2>1, <2>2, <2>3 DEF ProcOK
  <1>8. ResolverOK
    BY NoResolverOK DEF Init, ResolverOK
  <1>9. QED
    BY <1>4, <1>6, <1>7, <1>8 DEF IInv

\* All steps of an invocation.
LEMMA StepKeeps ==
  ASSUME IInv, NEW i \in Invocation, Step(i)
  PROVE  IInv'
  <1>1. CASE Prepare(i)
    BY <1>1, CreateInvocationKeeps, EnsureNodeStatesKeeps, ReconcileReadKeeps,
       ApplyTerminalAttemptKeeps, ApplyResolutionKeeps, FinishReconciliationKeeps,
       RerunReadKeeps, RerunResetKeeps DEF Prepare
  <1>2. CASE Schedule(i)
    BY <1>2, RunStartedKeeps, ReadOrphansKeeps, AdjudicateOrphanKeeps, FinalizeOrphanStateKeeps,
       FinalizeAbandonedKeeps, ReadStatesKeeps, PrepareResumeStateKeeps, PrepareDoneKeeps,
       PassNodeKeeps, BlockNodeKeeps, StopCheckKeeps, AcceptStopKeeps, LeaseKeeps,
       CreateAttemptKeeps, ClaimNodeKeeps, OutputPathRejectedKeeps, UpdateAggregateKeeps
       DEF Schedule
  <1>3. CASE Execute(i)
    BY <1>3, StartExecutionKeeps, LaunchKeeps, ClassifyResultKeeps, AuthorizeResultKeeps,
       FinalizeAttemptKeeps, ApplyResultKeeps DEF Execute
  <1>4. QED
    BY <1>1, <1>2, <1>3, CloseKeeps, FaultsKeep DEF Step

\* IInv is inductive.
LEMMA NextIInv ==
  ASSUME IInv, [Next]_vars
  PROVE  IInv'
  <1>1. CASE Next
    BY <1>1, OpenKeeps, StepKeeps, FaultsKeep, ForceUnlockKeeps, JobStepKeeps, ResolveKeeps,
       StopKeeps DEF Next
  <1>2. CASE UNCHANGED vars
    <2>1. TypeOK'
      BY <1>2 DEF IInv, TypeOK, vars, records, scratch, env
    <2>2. QED
      BY <1>2, <2>1, StillStep DEF vars, records, scratch, env
  <1>3. QED
    BY <1>1, <1>2

\* The inductive invariant: what the records and the memory of every process
\* agree on after any crashes, lost leases, resumes, reruns and resolutions,
\* whether or not the Network lock excludes.
THEOREM RunInvariant == Spec => []IInv
  BY InitIInv, NextIInv, PTL DEF Spec

\* Every record and every copy in memory keeps its shape.
THEOREM RunTypes == Spec => []TypeOK
  <1>1. IInv => TypeOK
    BY DEF IInv
  <1>2. QED
    BY <1>1, RunInvariant, PTL

\* The SQL of a node with idempotent: false runs at most once in a Run, even
\* when two processes believe they own the Network lock: a claim needs a node
\* in which nobody is engaged, and only the reset of a node that never had an
\* attempt, or whose attempt started nothing, leads back to such a node.
THEOREM RunAtMostOnce == Spec => []AtMostOnce
  <1>1. IInv => AtMostOnce
    <2>1. SUFFICES ASSUME IInv, NEW n \in NonIdempotent, NEW i \in Invocation,
                          NEW j \in Invocation, Executed(n, i), Executed(n, j)
                   PROVE  i = j
      BY DEF AtMostOnce
    <2>2. n \in Node /\ OnceOK(n)
      BY <2>1, Positions DEF IInv, NodeOK
    <2>3. Engaged(n, i) /\ Engaged(n, j)
      BY <2>1 DEF Executed, Engaged, Outcomes
    <2>4. QED
      BY <2>2, <2>3 DEF OnceOK
  <1>2. QED
    BY <1>1, RunInvariant, PTL

\* A Node State says SUCCESS only if the job of its latest attempt ended in
\* SUCCESS or an operator resolved that attempt as SUCCESS, whoever wrote it:
\* the executor, the orphan adjudication, the reconciliation or resolve-node.
THEOREM RunSuccessIsTruthful == Spec => []SuccessIsTruthful
  <1>1. IInv => SuccessIsTruthful
    BY DEF IInv, NodeOK, NodeTruthful, SuccessIsTruthful
  <1>2. QED
    BY <1>1, RunInvariant, PTL

-----------------------------------------------------------------------------
(* Under the exclusion of the Network lock only its owner is live. *)

\* A step of the owner, or of the process that becomes it.
LEMMA OwnerStep ==
  ASSUME XInv, NEW i \in Invocation, Live(i) \/ owner = None,
         \A k \in Invocation \ {i} : pc'[k] = pc[k],
         OwnerOK(i)', SuccessfulRunIsFinal', StopBoundary'
  PROVE  XInv'
  <1>1. ASSUME NEW k \in Invocation, k # i PROVE OwnerOK(k)'
    <2>1. Live(k) => owner = k
      BY DEF XInv, OwnerOK
    <2>2. Live(i) => owner = i
      BY DEF XInv, OwnerOK
    <2>3. ~Live(k)
      BY <1>1, <2>1, <2>2, ExecutionAssumption
    <2>4. pc'[k] \in {"idle", "done", "crashed"}
      BY <1>1, <2>3 DEF Live
    <2>5. QED
      BY <2>4 DEF OwnerOK, Live, ExistOK, SyncedOK, DependenciesOK, Existing, Evaluating, InNode
  <1>2. QED
    BY <1>1 DEF XInv

\* Nothing that the invariant is about changes.
LEMMA SameStep ==
  ASSUME XInv, UNCHANGED <<run, state, cancel, owner, pc, at, mode, view, heldStarts>>
  PROVE  XInv'
  <1>1. \A i \in Invocation : OwnerOK(i)'
    BY DEF XInv, OwnerOK, Live, ExistOK, SyncedOK, DependenciesOK, Hold
  <1>2. SuccessfulRunIsFinal' /\ StopBoundary'
    BY DEF XInv, SuccessfulRunIsFinal, StopBoundary
  <1>3. QED
    BY <1>1, <1>2 DEF XInv

\* A process leaves the phases in which it knows anything of the records.
LEMMA BareStep ==
  ASSUME XInv, NEW i \in Invocation, Live(i) \/ owner = None,
         \A k \in Invocation \ {i} : pc'[k] = pc[k],
         pc'[i] \in {"close", "release", "done", "crashed"},
         pc'[i] \in {"close", "release"} => owner' = i,
         SuccessfulRunIsFinal', UNCHANGED heldStarts
  PROVE  XInv'
  <1>1. OwnerOK(i)'
    BY DEF OwnerOK, Live, ExistOK, SyncedOK, DependenciesOK, Existing, Evaluating, InNode
  <1>2. StopBoundary'
    BY DEF XInv, StopBoundary
  <1>3. QED
    BY <1>1, <1>2, OwnerStep

\* A process moves on among its phases on the same records.
LEMMA MoveStep ==
  ASSUME XInv, NEW i \in Invocation, \A k \in Invocation \ {i} : pc'[k] = pc[k],
         UNCHANGED <<run, state, cancel, owner, heldStarts>>,
         view'[i].state = view[i].state,
         pc[i] \in Existing, pc'[i] \in (Existing \ {"rerunRead", "rerun", "start"}) \cup {"close"},
         pc'[i] \in Evaluating => pc[i] \in Evaluating,
         pc'[i] \in {"accept", "claim", "ready", "launch"} =>
            pc[i] \in {"start", "claim", "ready", "launch"} /\ at'[i] = at[i]
  PROVE  XInv'
  <1>1. OwnerOK(i) /\ Live(i) /\ owner = i
    BY DEF XInv, OwnerOK, Live, Existing, Evaluating, InNode
  <1>2. SuccessfulRunIsFinal' /\ StopBoundary'
    BY DEF XInv, SuccessfulRunIsFinal, StopBoundary
  <1>3. ExistOK(i)'
    BY <1>1 DEF OwnerOK, ExistOK, Existing, Evaluating, InNode
  <1>4. SyncedOK(i)'
    BY <1>1 DEF OwnerOK, SyncedOK, Evaluating, InNode
  <1>5. DependenciesOK(i)'
    BY <1>1 DEF OwnerOK, DependenciesOK
  <1>6. OwnerOK(i)'
    BY <1>1, <1>3, <1>4, <1>5 DEF OwnerOK
  <1>7. QED
    BY <1>1, <1>2, <1>6, OwnerStep

\* A Node State is written over the version the owner holds.
LEMMA StateStep ==
  ASSUME IInv, XInv, NEW i \in Invocation, NEW n \in Node, NEW s \in NodeStatus, NEW l \in Nat,
         NEW a \in Invocation \cup {None}, NEW r \in BOOLEAN,
         NEW next \in {"repair", "rerun", "orphan", "prepare", "blocked", "ready", "aggregate"},
         PutState(i, n, s, l, a, r, next), UNCHANGED <<run, owner, cancel, heldStarts>>,
         pc[i] \in Existing, next \in Evaluating => pc[i] \in Evaluating,
         next = "rerun" => pc[i] = "rerun",
         next = "ready" => pc[i] = "claim" /\ n = Order[at[i]] /\ UNCHANGED at,
         s = "WAITING" /\ view[i].state[n].status = "SUCCESS" => run.status # "SUCCESS"
  PROVE  XInv'
  <1>1. OwnerOK(i) /\ Live(i) /\ owner = i
    BY DEF XInv, OwnerOK, Live, Existing, Evaluating, InNode
  <1>2. TypeOK /\ next \in Phase /\ SeenState(i, n)
    BY DEF IInv, Phase, ProcOK
  <1>3. /\ \A k \in Invocation \ {i} : pc'[k] = pc[k]
        /\ \/ /\ StateWritable(n, view[i].state[n], s, r)
              /\ WroteState(i, n, s, l, a) /\ pc'[i] = next
           \/ /\ pc'[i] = "close" /\ UNCHANGED <<state, view>>
    BY <1>2, PutStateMoves
  <1>4. CASE pc'[i] = "close" /\ UNCHANGED <<state, view>>
    <2>1. SuccessfulRunIsFinal'
      BY <1>4 DEF XInv, SuccessfulRunIsFinal
    <2>2. QED
      BY <1>1, <1>3, <1>4, <2>1, BareStep
  <1>5. CASE /\ StateWritable(n, view[i].state[n], s, r)
             /\ WroteState(i, n, s, l, a) /\ pc'[i] = next
    <2>1. view[i].state[n] = state[n] /\ <<state[n].status, s>> \in AllowedTransition \cup ResolutionTransition
      BY <1>2, <1>5 DEF StateWritable, SeenState
    <2>2. s # "none" /\ (state[n].status = "SUCCESS" => s \in {"SUCCESS", "WAITING"})
      BY <2>1, Transitions
    <2>3. /\ state'[n].status = s /\ view'[i].state[n] = state'[n]
          /\ \A m \in Node \ {n} : state'[m] = state[m] /\ view'[i].state[m] = view[i].state[m]
      BY <1>5 DEF WroteState
    <2>4. SuccessfulRunIsFinal'
      BY <2>1, <2>2, <2>3 DEF XInv, SuccessfulRunIsFinal
    <2>5. ExistOK(i)'
      <3>1. \A m \in Node : state[m].status # "none"
        BY <1>1 DEF OwnerOK, ExistOK
      <3>2. QED
        BY <2>2, <2>3, <3>1 DEF ExistOK
    <2>6. SyncedOK(i)'
      BY <1>1, <1>5, <2>2, <2>3 DEF OwnerOK, SyncedOK
    <2>7. DependenciesOK(i)'
      <3>1. SUFFICES ASSUME next = "ready" PROVE DependenciesOK(i)'
        BY <1>5 DEF DependenciesOK
      <3>2. PICK k \in 1..Len(Order) : k = at[i]
        BY <3>1, NodeOfPhase DEF InNode
      <3>3. n \notin DependsOn[n] /\ DependsOn[n] \subseteq Node
        BY <3>1, <3>2, NetworkAssumption
      <3>4. \A d \in DependsOn[n] : view'[i].state[d].status = "SUCCESS"
        BY <1>1, <2>3, <3>1, <3>3 DEF OwnerOK, DependenciesOK
      <3>5. QED
        BY <3>1, <3>4 DEF DependenciesOK
    <2>8. OwnerOK(i)'
      <3>1. run' = run /\ owner' = owner /\ pc'[i] \notin {"rerunRead", "start"}
        BY <1>5
      <3>2. pc'[i] = "rerun" => run'.status # "SUCCESS"
        BY <1>1, <1>5, <3>1 DEF OwnerOK
      <3>3. QED
        BY <1>1, <2>5, <2>6, <2>7, <3>1, <3>2 DEF OwnerOK
    <2>9. StopBoundary'
      BY DEF XInv, StopBoundary
    <2>10. QED
      BY <1>1, <1>3, <2>4, <2>8, <2>9, OwnerStep
  <1>6. QED
    BY <1>3, <1>4, <1>5

\* The owner writes the Run's aggregate.
LEMMA AggregateStep ==
  ASSUME IInv, XInv, NEW i \in Invocation, NEW s \in RunStatus, NEW started \in {"no", "yes"},
         NEW next \in {"prepareRead", "orphanRead", "loop", "close"}, NEW how \in Outcome,
         PutRun(i, s, started, next, how), UNCHANGED <<state, owner, cancel, heldStarts>>,
         pc[i] \in Existing, next = "loop" => pc[i] \in Evaluating,
         s = "SUCCESS" => \A n \in Node : state[n].status = "SUCCESS"
  PROVE  XInv'
  <1>1. OwnerOK(i) /\ Live(i) /\ owner = i
    BY DEF XInv, OwnerOK, Live, Existing, Evaluating, InNode
  <1>2. TypeOK /\ next \in Phase
    BY DEF IInv, Phase
  <1>3. /\ \A k \in Invocation \ {i} : pc'[k] = pc[k]
        /\ view'[i].state = view[i].state
        /\ \/ pc'[i] = next /\ run'.status = s
           \/ pc'[i] = "close" /\ run' = run
    BY <1>2, PutRunMoves
  <1>4. SuccessfulRunIsFinal' /\ StopBoundary'
    BY <1>3 DEF XInv, SuccessfulRunIsFinal, StopBoundary
  <1>5. pc'[i] \in {"prepareRead", "orphanRead", "loop", "close"}
    BY <1>3
  <1>6. ExistOK(i)'
    BY <1>1, <1>5 DEF OwnerOK, ExistOK, Existing, Evaluating, InNode
  <1>7. SyncedOK(i)'
    BY <1>1, <1>3, <1>5 DEF OwnerOK, SyncedOK, Evaluating, InNode
  <1>8. OwnerOK(i)'
    BY <1>1, <1>5, <1>6, <1>7 DEF OwnerOK, DependenciesOK
  <1>9. QED
    BY <1>1, <1>3, <1>4, <1>8, OwnerStep

\* acquire finds the lock free, so nobody is live.
LEMMA OpenOwns ==
  ASSUME Exclusive, IInv, XInv, NEW i \in Invocation, Open(i)
  PROVE  XInv'
  <1>1. TypeOK /\ owner = None
    BY DEF IInv, Open, OpenNew, OpenRefused, OpenExisting, LockFree
  <1>2. StopBoundary'
    BY DEF XInv, StopBoundary, Open, OpenNew, OpenRefused, OpenExisting, env
  <1>3. CASE OpenNew(i)
    <2>1. pc'[i] = "invocation" /\ \A k \in Invocation \ {i} : pc'[k] = pc[k]
      BY <1>1, <1>3, GotoMoves DEF OpenNew, Phase
    <2>2. owner' = i /\ mode'[i] = "NEW" /\ run'.status = "CREATED"
      BY <1>1, <1>3 DEF OpenNew, TypeOK
    <2>3. OwnerOK(i)'
      BY <2>1, <2>2 DEF OwnerOK, ExistOK, SyncedOK, DependenciesOK, Existing, Evaluating, InNode
    <2>4. SuccessfulRunIsFinal'
      BY <2>2 DEF SuccessfulRunIsFinal
    <2>5. QED
      BY <1>1, <1>2, <2>1, <2>3, <2>4, OwnerStep
  <1>4. CASE OpenRefused(i)
    <2>1. pc'[i] = "done" /\ \A k \in Invocation \ {i} : pc'[k] = pc[k]
      BY <1>1, <1>4, GotoMoves DEF OpenRefused, Phase
    <2>2. SuccessfulRunIsFinal'
      BY <1>4 DEF OpenRefused, XInv, SuccessfulRunIsFinal, records
    <2>3. UNCHANGED heldStarts
      BY <1>4 DEF OpenRefused, env
    <2>4. QED
      BY <1>1, <2>1, <2>2, <2>3, BareStep
  <1>5. CASE OpenExisting(i)
    <2>1. \/ Goto(i, "invocation") /\ mode' = [mode EXCEPT ![i] = "RESUME"]
          \/ Goto(i, "ensure")
      BY <1>5 DEF OpenExisting
    <2>2. "invocation" \in Phase /\ "ensure" \in Phase
      BY DEF Phase
    <2>3. /\ \/ pc'[i] = "invocation" /\ mode'[i] = "RESUME"
             \/ pc'[i] = "ensure"
          /\ \A k \in Invocation \ {i} : pc'[k] = pc[k]
      BY <1>1, <2>1, <2>2, GotoMoves DEF TypeOK
    <2>4. owner' = i /\ UNCHANGED <<run, state>>
      BY <1>5 DEF OpenExisting, records
    <2>5. OwnerOK(i)'
      BY <2>3, <2>4 DEF OwnerOK, ExistOK, SyncedOK, DependenciesOK, Existing, Evaluating, InNode
    <2>6. SuccessfulRunIsFinal'
      BY <2>4 DEF XInv, SuccessfulRunIsFinal
    <2>7. QED
      BY <1>1, <1>2, <2>3, <2>5, <2>6, OwnerStep
  <1>6. QED
    BY <1>3, <1>4, <1>5 DEF Open

\* The invocation record, the missing Node States and the first read.
LEMMA PreparationOwns ==
  ASSUME IInv, XInv, NEW i \in Invocation,
         CreateInvocation(i) \/ EnsureNodeStates(i) \/ ReconcileRead(i)
  PROVE  XInv'
  <1>1. TypeOK /\ OwnerOK(i) /\ Live(i) /\ owner = i
    BY DEF IInv, XInv, OwnerOK, Live, CreateInvocation, EnsureNodeStates, ReconcileRead
  <1>2. UNCHANGED <<run, owner, cancel, heldStarts, mode>> /\ StopBoundary'
    BY DEF CreateInvocation, EnsureNodeStates, ReconcileRead, records, env, scratch, XInv,
           StopBoundary
  <1>3. CASE CreateInvocation(i)
    <2>1. PICK p \in {"begin", "ensure"} : /\ p = "begin" => mode[i] = "RERUN_FROM"
                                           /\ Goto(i, p) /\ pc[i] = "invocation"
      BY <1>3 DEF CreateInvocation
    <2>2. pc'[i] = p /\ \A k \in Invocation \ {i} : pc'[k] = pc[k]
      BY <1>1, <2>1, GotoMoves DEF Phase
    <2>3. UNCHANGED state
      BY <1>3 DEF CreateInvocation
    <2>4. ExistOK(i)'
      BY <1>1, <2>1, <2>2, <2>3 DEF OwnerOK, ExistOK, Existing, Evaluating, InNode
    <2>5. OwnerOK(i)'
      BY <1>1, <1>2, <2>1, <2>2, <2>4 DEF OwnerOK, SyncedOK, DependenciesOK, Evaluating, InNode
    <2>6. SuccessfulRunIsFinal'
      BY <1>2, <2>3 DEF XInv, SuccessfulRunIsFinal
    <2>7. QED
      BY <1>1, <1>2, <2>2, <2>5, <2>6, OwnerStep
  <1>4. CASE EnsureNodeStates(i)
    <2>1. CASE \E n \in Node :
                  /\ state[n].status = "none"
                  /\ UNCHANGED pc
      <3>1. SuccessfulRunIsFinal'
        BY <1>2, <2>1 DEF XInv, SuccessfulRunIsFinal
      <3>2. pc'[i] = "ensure"
        BY <1>4, <2>1 DEF EnsureNodeStates
      <3>3. OwnerOK(i)'
        BY <1>1, <1>2, <3>2 DEF OwnerOK, ExistOK, SyncedOK, DependenciesOK, Existing, Evaluating,
                                InNode
      <3>4. QED
        BY <1>1, <1>2, <2>1, <3>1, <3>3, OwnerStep
    <2>2. CASE /\ \A n \in Node : state[n].status # "none"
               /\ Goto(i, "reconcile") /\ UNCHANGED state
      <3>1. pc'[i] = "reconcile" /\ \A k \in Invocation \ {i} : pc'[k] = pc[k]
        BY <1>1, <2>2, GotoMoves DEF Phase
      <3>2. SuccessfulRunIsFinal'
        BY <1>2, <2>2 DEF XInv, SuccessfulRunIsFinal
      <3>3. ExistOK(i)'
        BY <2>2 DEF ExistOK
      <3>4. OwnerOK(i)'
        BY <1>1, <1>2, <3>1, <3>3 DEF OwnerOK, SyncedOK, DependenciesOK, Evaluating, InNode
      <3>5. QED
        BY <1>1, <1>2, <3>1, <3>2, <3>4, OwnerStep
    <2>3. QED
      BY <1>4, <2>1, <2>2 DEF EnsureNodeStates
  <1>5. CASE ReconcileRead(i)
    <2>1. pc'[i] = "repair" /\ \A k \in Invocation \ {i} : pc'[k] = pc[k]
      BY <1>1, <1>5, GotoMoves DEF ReconcileRead, Phase
    <2>2. UNCHANGED state /\ view'[i].state = state /\ pc[i] = "reconcile"
      BY <1>1, <1>5 DEF ReconcileRead, records, TypeOK
    <2>3. SuccessfulRunIsFinal'
      BY <1>2, <2>2 DEF XInv, SuccessfulRunIsFinal
    <2>4. \A n \in Node : state[n].status # "none"
      BY <1>1, <2>2 DEF OwnerOK, ExistOK, Existing
    <2>5. ExistOK(i)' /\ SyncedOK(i)'
      BY <2>2, <2>4 DEF ExistOK, SyncedOK
    <2>6. OwnerOK(i)'
      BY <1>1, <1>2, <2>1, <2>5 DEF OwnerOK, DependenciesOK
    <2>7. QED
      BY <1>1, <1>2, <2>1, <2>3, <2>6, OwnerStep
  <1>6. QED
    BY <1>3, <1>4, <1>5

\* SUCCESS is computed only from states that are all SUCCESS.
LEMMA AggregateSuccess ==
  ASSUME TypeOK, NEW i \in Invocation, SyncedOK(i), pc[i] \in Evaluating,
         Aggregate(Statuses(view[i]), view[i].run.started) = "SUCCESS"
  PROVE  \A n \in Node : state[n].status = "SUCCESS"
  <1>1. \A n \in Node : Statuses(view[i])[n] = "SUCCESS"
    BY DEF Aggregate
  <1>2. \A n \in Node : view[i].state[n].status = "SUCCESS"
    BY <1>1 DEF Statuses
  <1>3. QED
    BY <1>2 DEF SyncedOK

\* The aggregate of the reconciliation is of current states.
LEMMA ReconciliationOwns ==
  ASSUME IInv, XInv, NEW i \in Invocation, FinishReconciliation(i)
  PROVE  XInv'
  <1>1. TypeOK /\ OwnerOK(i) /\ Live(i) /\ owner = i /\ pc[i] = "repair"
    BY DEF IInv, XInv, OwnerOK, Live, FinishReconciliation
  <1>2. UNCHANGED <<state, owner, cancel, heldStarts>>
    BY DEF FinishReconciliation, env
  <1>3. PICK s \in RunStatus : s = Aggregate(Statuses(view[i]), view[i].run.started)
    BY AggregateType
  <1>4. run' = run \/ run' = [run EXCEPT !.status = s, !.rev = run.rev + 1]
    BY <1>3 DEF FinishReconciliation
  <1>5. run' \in RunRecord /\ (run' = run \/ run'.status = s)
    <2>1. run.rev + 1 \in Nat /\ run.rev \in Nat /\ run \in RunRecord
      BY <1>1 DEF TypeOK, RunRecord
    <2>2. QED
      BY <1>4, <2>1 DEF RunRecord
  <1>6. s = "SUCCESS" => \A n \in Node : state[n].status = "SUCCESS"
    BY <1>1, <1>3, AggregateSuccess DEF OwnerOK, Evaluating
  <1>7. SuccessfulRunIsFinal'
    BY <1>2, <1>5, <1>6 DEF XInv, SuccessfulRunIsFinal
  <1>8. view' = [view EXCEPT ![i].run = run']
    BY DEF FinishReconciliation
  <1>9. PICK r \in RunRecord : r = run'
    BY <1>5
  <1>10. view' = [view EXCEPT ![i].run = r]
    BY <1>8, <1>9
  <1>11. view'[i].run = run'
    BY <1>1, <1>9, <1>10, RunWritten
  <1>12. CASE End(i, "failed") \/ End(i, "refused")
    <2>1. pc'[i] = "close" /\ \A k \in Invocation \ {i} : pc'[k] = pc[k]
      BY <1>1, <1>12, EndMoves DEF Outcome
    <2>2. QED
      BY <1>1, <1>2, <1>7, <2>1, BareStep
  <1>13. CASE \E p \in {"rerunRead", "begin"} : Goto(i, p)
    <2>1. PICK p \in {"rerunRead", "begin"} : Goto(i, p)
      BY <1>13
    <2>2. pc'[i] = p /\ \A k \in Invocation \ {i} : pc'[k] = pc[k]
      BY <1>1, <2>1, GotoMoves DEF Phase
    <2>3. ExistOK(i)'
      BY <1>1, <1>2 DEF OwnerOK, ExistOK, Existing, Evaluating
    <2>4. OwnerOK(i)'
      BY <1>1, <1>2, <1>11, <2>2, <2>3 DEF OwnerOK, SyncedOK, DependenciesOK, Evaluating, InNode
    <2>5. StopBoundary'
      BY <1>2 DEF XInv, StopBoundary
    <2>6. QED
      BY <1>1, <1>7, <2>2, <2>4, <2>5, OwnerStep
  <1>14. QED
    BY <1>12, <1>13 DEF FinishReconciliation

\* The writes of the reconciliation, the rerun, the orphan adjudication, the
\* resume and the loop never reset a SUCCESS node of a SUCCESS Run.
LEMMA RepairOwns ==
  ASSUME IInv, XInv, NEW i \in Invocation, ApplyTerminalAttempt(i) \/ ApplyResolution(i)
  PROVE  XInv'
  <1>1. /\ TypeOK /\ pc[i] = "repair"
        /\ UNCHANGED <<run, attempt, resolved, cancel, invRec, job, owner, scratch, env>>
    BY DEF IInv, ApplyTerminalAttempt, ApplyResolution
  <1>2. UNCHANGED <<run, owner, cancel, heldStarts>> /\ pc[i] \in Existing /\ pc[i] \in Evaluating
    BY <1>1 DEF env, Existing, Evaluating
  <1>3. CASE ApplyTerminalAttempt(i)
    <2>1. PICK n \in Node :
             /\ TerminalPending(view[i], n)
             /\ PutState(i, n, view[i].attempt[n][view[i].state[n].active].status,
                         view[i].state[n].latest, None, FALSE, "repair")
      BY <1>3 DEF ApplyTerminalAttempt
    <2>2. PICK s \in Terminal : s = view[i].attempt[n][view[i].state[n].active].status
      BY <2>1 DEF TerminalPending
    <2>3. PICK l \in Nat : l = view[i].state[n].latest
      BY <1>1, RecordTypes
    <2> DEFINE r == FALSE
    <2>4. PutState(i, n, s, l, None, r, "repair") /\ r \in BOOLEAN
      BY <2>1, <2>2, <2>3
    <2> HIDE DEF r
    <2>5. s \in NodeStatus /\ s # "WAITING"
      BY DEF Terminal, NodeStatus
    <2>6. QED
      BY <1>2, <2>4, <2>5, StateStep
  <1>4. CASE ApplyResolution(i)
    <2>1. PICK n \in Node, j \in Invocation :
             \E s \in view[i].resolved[n][j] :
                PutState(i, n, s, view[i].state[n].latest, None, TRUE, "repair")
      BY <1>4 DEF ApplyResolution
    <2>2. PICK s \in Outcomes : PutState(i, n, s, view[i].state[n].latest, None, TRUE, "repair")
      BY <1>1, <2>1, RecordTypes
    <2>3. PICK l \in Nat : l = view[i].state[n].latest
      BY <1>1, RecordTypes
    <2> DEFINE r == TRUE
    <2>4. PutState(i, n, s, l, None, r, "repair") /\ r \in BOOLEAN
      BY <2>2, <2>3
    <2> HIDE DEF r
    <2>5. s \in NodeStatus /\ s # "WAITING"
      BY DEF Outcomes, NodeStatus
    <2>6. QED
      BY <1>2, <2>4, <2>5, StateStep
  <1>5. QED
    BY <1>3, <1>4

\* RERUN_FROM_SUCCESS_RUN is checked on the current Run.
LEMMA RerunOwns ==
  ASSUME IInv, XInv, NEW i \in Invocation, RerunRead(i) \/ RerunReset(i)
  PROVE  XInv'
  <1>1. TypeOK /\ OwnerOK(i) /\ Live(i) /\ owner = i /\ pc[i] \in Existing
    BY DEF IInv, XInv, OwnerOK, Live, RerunRead, RerunReset, Existing
  <1>2. UNCHANGED <<run, owner, cancel, heldStarts, mode>> /\ StopBoundary'
    BY DEF RerunRead, RerunReset, records, env, scratch, XInv, StopBoundary
  <1>3. \A n \in Node : state[n].status # "none"
    BY <1>1 DEF OwnerOK, ExistOK
  <1>4. CASE RerunRead(i) /\ RerunRefused(i)
    <2>1. End(i, "failed") /\ UNCHANGED state
      BY <1>4 DEF RerunRead, records
    <2>2. pc'[i] = "close" /\ \A k \in Invocation \ {i} : pc'[k] = pc[k]
      BY <1>1, <2>1, EndMoves DEF Outcome
    <2>3. SuccessfulRunIsFinal'
      BY <1>2, <2>1 DEF XInv, SuccessfulRunIsFinal
    <2>4. QED
      BY <1>1, <1>2, <2>2, <2>3, BareStep
  <1>5. CASE RerunRead(i) /\ ~RerunRefused(i)
    <2>1. Goto(i, "rerun") /\ UNCHANGED state /\ pc[i] = "rerunRead"
      BY <1>5 DEF RerunRead, records
    <2>2. pc'[i] = "rerun" /\ \A k \in Invocation \ {i} : pc'[k] = pc[k]
      BY <1>1, <2>1, GotoMoves DEF Phase
    <2>3. SuccessfulRunIsFinal'
      BY <1>2, <2>1 DEF XInv, SuccessfulRunIsFinal
    <2>4. run'.status # "SUCCESS"
      BY <1>1, <1>2, <1>5, <2>1 DEF OwnerOK, RerunRefused
    <2>5. OwnerOK(i)'
      BY <1>1, <1>2, <1>3, <2>1, <2>2, <2>4 DEF OwnerOK, ExistOK, SyncedOK, DependenciesOK,
                                                 Evaluating, InNode
    <2>6. QED
      BY <1>1, <1>2, <2>2, <2>3, <2>5, OwnerStep
  <1>6. CASE RerunReset(i) /\ todo[i] = {} /\ Goto(i, "invocation") /\ UNCHANGED state
    <2>1. pc'[i] = "invocation" /\ \A k \in Invocation \ {i} : pc'[k] = pc[k]
      BY <1>1, <1>6, GotoMoves DEF Phase
    <2>2. SuccessfulRunIsFinal'
      BY <1>2, <1>6 DEF XInv, SuccessfulRunIsFinal
    <2>3. OwnerOK(i)'
      BY <1>1, <1>2, <1>3, <1>6, <2>1 DEF OwnerOK, ExistOK, SyncedOK, DependenciesOK,
                                          Evaluating, InNode
    <2>4. QED
      BY <1>1, <1>2, <2>1, <2>2, <2>3, OwnerStep
  <1>7. CASE /\ RerunReset(i)
             /\ \E n \in todo[i] :
                   PutState(i, n, "WAITING", view[i].state[n].latest, None, FALSE, "rerun")
    <2>1. PICK n \in Node :
             PutState(i, n, "WAITING", view[i].state[n].latest, None, FALSE, "rerun")
      BY <1>1, <1>7 DEF TypeOK
    <2>2. PICK l \in Nat : l = view[i].state[n].latest
      BY <1>1, RecordTypes
    <2> DEFINE r == FALSE
    <2>3. PutState(i, n, "WAITING", l, None, r, "rerun") /\ r \in BOOLEAN
      BY <2>1, <2>2
    <2> HIDE DEF r
    <2>4. /\ "WAITING" \in NodeStatus /\ "rerun" \notin Evaluating /\ pc[i] = "rerun"
          /\ run.status # "SUCCESS"
      BY <1>1, <1>7 DEF RerunReset, NodeStatus, Evaluating, InNode, OwnerOK
    <2>5. QED
      BY <1>1, <1>2, <2>3, <2>4, StateStep
  <1>8. QED
    BY <1>4, <1>5, <1>6, <1>7 DEF RerunRead, RerunReset

\* The aggregate at the start and at the end of the scheduler.
LEMMA RunStartedOwns ==
  ASSUME IInv, XInv, NEW i \in Invocation, EnsureRunStarted(i) \/ FinishLoop(i)
  PROVE  XInv'
  <1>1. /\ TypeOK /\ OwnerOK(i) /\ Live(i) /\ owner = i /\ pc[i] \in Existing
        /\ UNCHANGED <<state, owner, cancel, heldStarts>>
    BY DEF IInv, XInv, OwnerOK, Live, EnsureRunStarted, FinishLoop, Existing, Evaluating, env
  <1>2. CASE EnsureRunStarted(i)
    <2>1. PICK p \in {"prepareRead", "orphanRead"} :
             \/ PutRun(i, "RUNNING", "yes", p, "none")
             \/ Goto(i, p) /\ UNCHANGED <<run, view>>
      BY <1>2 DEF EnsureRunStarted
    <2>2. CASE PutRun(i, "RUNNING", "yes", p, "none")
      <3>1. "RUNNING" \in RunStatus /\ "none" \in Outcome
        BY DEF RunStatus, Outcome
      <3>2. QED
        BY <1>1, <2>2, <3>1, AggregateStep
    <2>3. CASE Goto(i, p) /\ UNCHANGED <<run, view>>
      <3>1. pc'[i] = p /\ \A k \in Invocation \ {i} : pc'[k] = pc[k]
        BY <1>1, <2>3, GotoMoves DEF Phase
      <3>2. /\ p \in (Existing \ {"rerunRead", "rerun", "start"}) \cup {"close"}
            /\ p \notin Evaluating
        BY DEF Existing, Evaluating, InNode
      <3>3. QED
        BY <1>1, <2>3, <3>1, <3>2, MoveStep
    <2>4. QED
      BY <2>1, <2>2, <2>3
  <1>3. CASE FinishLoop(i)
    <2>1. PICK s \in RunStatus : s = Aggregate(Statuses(view[i]), view[i].run.started)
      BY AggregateType
    <2>2. PICK st \in {"no", "yes"} : st = view[i].run.started
      BY <1>1 DEF TypeOK, View, RunRecord
    <2>3. PutRun(i, s, st, "close", "finished") /\ pc[i] = "finish"
      BY <1>3, <2>1, <2>2 DEF FinishLoop
    <2>4. s = "SUCCESS" => \A n \in Node : state[n].status = "SUCCESS"
      BY <1>1, <2>1, <2>3, AggregateSuccess DEF OwnerOK, Evaluating
    <2>5. "finished" \in Outcome
      BY DEF Outcome
    <2>6. QED
      BY <1>1, <2>3, <2>4, <2>5, AggregateStep
  <1>4. QED
    BY <1>2, <1>3

\* A process goes to another phase, or writes an attempt on the way.
LEMMA PhaseMove ==
  ASSUME IInv, XInv, NEW i \in Invocation, NEW p \in Phase, Goto(i, p),
         UNCHANGED <<run, state, cancel, owner, view, heldStarts>>,
         pc[i] \in Existing, p \in (Existing \ {"rerunRead", "rerun", "start"}) \cup {"close"},
         p \in Evaluating => pc[i] \in Evaluating,
         p \in {"accept", "claim", "ready", "launch"} =>
            pc[i] \in {"start", "claim", "ready", "launch"} /\ at'[i] = at[i]
  PROVE  XInv'
  <1>1. pc'[i] = p /\ \A k \in Invocation \ {i} : pc'[k] = pc[k]
    BY GotoMoves DEF IInv
  <1>2. view'[i].state = view[i].state
    OBVIOUS
  <1>3. QED
    BY <1>1, <1>2, MoveStep

\* The same when an attempt is written on the way.
LEMMA AttemptMove ==
  ASSUME IInv, XInv, NEW i \in Invocation, NEW n \in Node, NEW j \in Invocation,
         NEW s \in {"RUNNING"} \cup Terminal, NEW code \in Code, NEW started \in {"no", "yes"},
         NEW p \in {"orphanState", "launch", "apply"}, PutAttempt(i, n, j, s, code, started, p),
         UNCHANGED <<run, state, cancel, owner, heldStarts>>,
         pc[i] \in Existing, p \in Evaluating => pc[i] \in Evaluating,
         p = "launch" => pc[i] = "ready" /\ UNCHANGED at
  PROVE  XInv'
  <1>1. TypeOK /\ p \in Phase
    BY DEF IInv, Phase
  <1>2. /\ \A k \in Invocation \ {i} : pc'[k] = pc[k] /\ view'[k] = view[k]
        /\ \/ pc'[i] = p /\ AttemptPut(i, n, j, s)
           \/ pc'[i] = "close" /\ UNCHANGED <<attempt, view>>
    BY <1>1, PutAttemptMoves
  <1>3. view'[i].state = view[i].state
    BY <1>2 DEF AttemptPut, WroteAttempt
  <1>4. /\ pc'[i] \in (Existing \ {"rerunRead", "rerun", "start"}) \cup {"close"}
        /\ pc'[i] \in {p, "close"} /\ "close" \notin Evaluating
    BY <1>2 DEF Existing, Evaluating, InNode
  <1>5. QED
    BY <1>2, <1>3, <1>4, MoveStep

\* The orphan adjudication writes what it decided, never WAITING.
LEMMA OrphansOwn ==
  ASSUME IInv, XInv, NEW i \in Invocation,
         ReadOrphans(i) \/ AdjudicateOrphan(i) \/ FinalizeOrphanState(i)
  PROVE  XInv'
  <1>1. TypeOK /\ pc[i] \in Existing /\ UNCHANGED <<run, cancel, owner, heldStarts>>
    BY DEF IInv, ReadOrphans, AdjudicateOrphan, FinalizeOrphanState, Existing, records, env
  <1>2. CASE ReadOrphans(i)
    <2>1. pc'[i] = "orphan" /\ \A k \in Invocation \ {i} : pc'[k] = pc[k]
      BY <1>1, <1>2, GotoMoves DEF ReadOrphans, Phase
    <2>2. OwnerOK(i) /\ Live(i) /\ owner = i /\ UNCHANGED state
      BY <1>2 DEF XInv, OwnerOK, Live, ReadOrphans, records
    <2>3. SuccessfulRunIsFinal' /\ StopBoundary'
      BY <1>1, <2>2 DEF XInv, SuccessfulRunIsFinal, StopBoundary
    <2>4. OwnerOK(i)'
      BY <1>1, <2>1, <2>2 DEF OwnerOK, ExistOK, SyncedOK, DependenciesOK, Evaluating, InNode
    <2>5. QED
      BY <2>1, <2>2, <2>3, <2>4, OwnerStep
  <1>3. CASE AdjudicateOrphan(i)
    <2>1. pc[i] = "orphan" /\ ProcOK(i) /\ UNCHANGED state
      BY <1>3 DEF AdjudicateOrphan, IInv
    <2>2. CASE Goto(i, "abandon") /\ UNCHANGED view
      <3>1. /\ "abandon" \in Phase /\ "abandon" \notin Evaluating
            /\ "abandon" \in (Existing \ {"rerunRead", "rerun", "start"}) \cup {"close"}
        BY DEF Phase, Existing, Evaluating, InNode
      <3>2. QED
        BY <1>1, <2>1, <2>2, <3>1, PhaseMove
    <2>3. CASE \E n \in todo[i] :
                  PutAttempt(i, n, view[i].state[n].active, decision[i][n].status,
                             decision[i][n].code,
                             view[i].attempt[n][view[i].state[n].active].started, "orphanState")
      <3>1. PICK n \in todo[i] :
                  PutAttempt(i, n, view[i].state[n].active, decision[i][n].status,
                             decision[i][n].code,
                             view[i].attempt[n][view[i].state[n].active].started, "orphanState")
        BY <2>3
      <3>2. n \in Node /\ OrphanOK(i, n)
        BY <1>1, <2>1 DEF TypeOK, ProcOK, PhaseOK
      <3>3. PICK j \in Invocation : j = view[i].state[n].active
        BY <3>2 DEF OrphanOK
      <3>4. decision[i][n] \in Decision /\ view[i].attempt[n][j].started \in {"no", "yes"}
        BY <1>1, <3>2, RecordTypes
      <3>5. PICK s \in {"RUNNING"} \cup Terminal : s = decision[i][n].status
        BY <3>2, <3>4 DEF OrphanOK, Decision
      <3>6. PICK c \in Code : c = decision[i][n].code
        BY <3>4 DEF Decision
      <3>7. PICK st \in {"no", "yes"} : st = view[i].attempt[n][j].started
        BY <3>4
      <3>8. PutAttempt(i, n, j, s, c, st, "orphanState") /\ n \in Node
        BY <3>1, <3>2, <3>3, <3>5, <3>6, <3>7
      <3>9. "orphanState" \notin Evaluating
        BY DEF Evaluating, InNode
      <3>10. QED
        BY <1>1, <2>1, <3>8, <3>9, AttemptMove
    <2>4. QED
      BY <1>3, <2>2, <2>3 DEF AdjudicateOrphan
  <1>4. CASE FinalizeOrphanState(i)
    <2>1. pc[i] = "orphanState" /\ ProcOK(i)
      BY <1>4 DEF FinalizeOrphanState, IInv
    <2>2. PICK n \in Node : n = Order[at[i]] /\ n \in todo[i]
      BY <2>1, NodeOfPhase DEF NodePhaseOK
    <2>3. PICK s \in Terminal : s = decision[i][n].status
      BY <1>1, <2>1, <2>2, RecordTypes DEF ProcOK, PhaseOK, OrphanOK, Decision
    <2>4. PICK l \in Nat : l = view[i].state[n].latest
      BY <1>1, RecordTypes
    <2> DEFINE r == FALSE
    <2>5. PutState(i, n, s, l, None, r, "orphan") /\ r \in BOOLEAN
      BY <1>4, <2>2, <2>3, <2>4 DEF FinalizeOrphanState
    <2> HIDE DEF r
    <2>6. s \in NodeStatus /\ s # "WAITING" /\ "orphan" \notin Evaluating
      BY DEF Terminal, NodeStatus, Evaluating, InNode
    <2>7. QED
      BY <1>1, <2>5, <2>6, StateStep
  <1>5. QED
    BY <1>2, <1>3, <1>4

\* A resume resets BLOCKED, FAILED and CANCELLED nodes only.
LEMMA ResumeOwns ==
  ASSUME IInv, XInv, NEW i \in Invocation,
         FinalizeAbandoned(i) \/ ReadStates(i) \/ PrepareResumeState(i) \/ PrepareDone(i)
  PROVE  XInv'
  <1>1. TypeOK /\ pc[i] \in Existing /\ UNCHANGED <<run, cancel, owner, heldStarts, mode>>
    BY DEF IInv, FinalizeAbandoned, ReadStates, PrepareResumeState, PrepareDone, Existing,
           Evaluating, records, env, scratch
  <1>2. OwnerOK(i) /\ Live(i) /\ owner = i
    BY DEF XInv, OwnerOK, Live, FinalizeAbandoned, ReadStates, PrepareResumeState, PrepareDone
  <1>3. CASE FinalizeAbandoned(i)
    <2>1. UNCHANGED <<state, view, at>> /\ (UNCHANGED pc \/ Goto(i, "prepareRead"))
      BY <1>3 DEF FinalizeAbandoned, scratch
    <2>2. CASE UNCHANGED pc
      BY <1>1, <2>1, <2>2, SameStep
    <2>3. CASE Goto(i, "prepareRead")
      <3>1. /\ "prepareRead" \in Phase /\ "prepareRead" \notin Evaluating
            /\ "prepareRead" \in (Existing \ {"rerunRead", "rerun", "start"}) \cup {"close"}
        BY DEF Phase, Existing, Evaluating, InNode
      <3>2. QED
        BY <1>1, <2>1, <2>3, <3>1, PhaseMove
    <2>4. QED
      BY <2>1, <2>2, <2>3
  <1>4. CASE ReadStates(i)
    <2>1. pc'[i] = "prepare" /\ \A k \in Invocation \ {i} : pc'[k] = pc[k]
      BY <1>1, <1>4, GotoMoves DEF ReadStates, Phase
    <2>2. UNCHANGED state /\ view'[i].state = state
      BY <1>1, <1>4, StatesRead DEF ReadStates, records
    <2>3. SuccessfulRunIsFinal' /\ StopBoundary'
      BY <1>1, <2>2 DEF XInv, SuccessfulRunIsFinal, StopBoundary
    <2>4. \A n \in Node : state[n].status # "none"
      BY <1>1, <1>2 DEF OwnerOK, ExistOK
    <2>5. OwnerOK(i)'
      BY <1>1, <1>2, <2>1, <2>2, <2>4 DEF OwnerOK, ExistOK, SyncedOK, DependenciesOK
    <2>6. QED
      BY <1>2, <2>1, <2>3, <2>5, OwnerStep
  <1>5. CASE PrepareResumeState(i)
    <2>1. pc[i] = "prepare" /\ pc[i] \in Evaluating
      BY <1>5 DEF PrepareResumeState, Evaluating
    <2>2. PICK n \in Node :
             \/ PutState(i, n, view[i].state[n].status, view[i].state[n].latest,
                         view[i].state[n].active, FALSE, "prepare")
             \/ /\ view[i].state[n].status = "BLOCKED" \/ Retryable(view[i], n)
                /\ PutState(i, n, "WAITING", view[i].state[n].latest, None, FALSE, "prepare")
             \/ UNCHANGED <<state, view, pc>>
      BY <1>1, <1>5 DEF PrepareResumeState, TypeOK
    <2>3. PICK l \in Nat, s \in NodeStatus, a \in Invocation \cup {None} :
             l = view[i].state[n].latest /\ s = view[i].state[n].status
             /\ a = view[i].state[n].active
      BY <1>1, RecordTypes
    <2> DEFINE r == FALSE
    <2>4. \/ PutState(i, n, s, l, a, r, "prepare")
          \/ s \in {"BLOCKED", "FAILED", "CANCELLED"} /\ PutState(i, n, "WAITING", l, None, r, "prepare")
          \/ UNCHANGED <<state, view, pc>>
      BY <2>2, <2>3 DEF Retryable
    <2>5. r \in BOOLEAN /\ "WAITING" \in NodeStatus
      BY DEF NodeStatus
    <2> HIDE DEF r
    <2>6. CASE PutState(i, n, s, l, a, r, "prepare")
      BY <1>1, <2>1, <2>3, <2>5, <2>6, StateStep
    <2>7. CASE /\ s \in {"BLOCKED", "FAILED", "CANCELLED"}
               /\ PutState(i, n, "WAITING", l, None, r, "prepare")
      BY <1>1, <2>1, <2>3, <2>5, <2>7, StateStep
    <2>8. CASE UNCHANGED <<state, view, pc>>
      <3>1. UNCHANGED at
        BY <1>5 DEF PrepareResumeState
      <3>2. QED
        BY <1>1, <2>8, <3>1, SameStep
    <2>9. QED
      BY <2>4, <2>6, <2>7, <2>8
  <1>6. CASE PrepareDone(i)
    <2>1. Goto(i, "loop") /\ UNCHANGED <<state, view>> /\ pc[i] \in Evaluating
      BY <1>6 DEF PrepareDone, records, Evaluating
    <2>2. /\ "loop" \in Phase
          /\ "loop" \in (Existing \ {"rerunRead", "rerun", "start"}) \cup {"close"}
      BY DEF Phase, Existing, Evaluating
    <2>3. QED
      BY <1>1, <2>1, <2>2, PhaseMove
  <1>7. QED
    BY <1>3, <1>4, <1>5, <1>6

\* The loop: pass, block, claim, apply a result, update the aggregate.
LEMMA LoopOwns ==
  ASSUME IInv, XInv, NEW i \in Invocation,
         PassNode(i) \/ BlockNode(i) \/ UpdateAggregate(i) \/ ClaimNode(i) \/ ApplyResult(i)
  PROVE  XInv'
  <1>1. /\ TypeOK /\ pc[i] \in Existing /\ pc[i] \in Evaluating /\ OwnerOK(i)
        /\ UNCHANGED <<cancel, owner, heldStarts, mode>>
    BY DEF IInv, XInv, PassNode, BlockNode, UpdateAggregate, ClaimNode, ApplyResult, InLoop,
           Existing, Evaluating, InNode, records, env, scratch
  <1>2. CASE PassNode(i)
    <2>1. UNCHANGED <<run, state, view>> /\ pc[i] = "loop" /\ (UNCHANGED pc \/ Goto(i, "finish"))
      BY <1>2 DEF PassNode, records
    <2>2. /\ pc'[i] \in {"loop", "finish"} /\ \A k \in Invocation \ {i} : pc'[k] = pc[k]
          /\ view'[i].state = view[i].state
      BY <1>1, <2>1, GotoMoves DEF Phase
    <2>3. pc'[i] \in (Existing \ {"rerunRead", "rerun", "start"}) \cup {"close"}
      BY <2>2 DEF Existing, Evaluating
    <2>4. QED
      BY <1>1, <2>1, <2>2, <2>3, MoveStep
  <1>3. CASE BlockNode(i)
    <2>1. pc[i] = "loop" /\ at[i] <= Len(Order) /\ UNCHANGED run
      BY <1>3 DEF BlockNode, InLoop
    <2>2. PICK n \in Node : n = Order[at[i]]
      <3>1. at[i] \in 1..Len(Order) + 1 /\ Len(Order) \in Nat
        BY <2>1, Positions DEF IInv, ProcOK, PhaseOK, AtOK
      <3>2. at[i] \in 1..Len(Order)
        BY <2>1, <3>1
      <3>3. QED
        BY <3>2, Positions
    <2>3. PICK l \in Nat, a \in Invocation \cup {None} :
             l = view[i].state[n].latest /\ a = view[i].state[n].active
      BY <1>1, RecordTypes
    <2> DEFINE r == FALSE
    <2>4. PutState(i, n, "BLOCKED", l, a, r, "blocked") /\ r \in BOOLEAN
      BY <1>3, <2>2, <2>3 DEF BlockNode
    <2> HIDE DEF r
    <2>5. "BLOCKED" \in NodeStatus
      BY DEF NodeStatus
    <2>6. QED
      BY <1>1, <2>1, <2>4, <2>5, StateStep
  <1>4. CASE UpdateAggregate(i)
    <2>1. PICK s \in RunStatus : s = Aggregate(Statuses(view[i]), view[i].run.started)
      BY AggregateType
    <2>2. PICK st \in {"no", "yes"} : st = view[i].run.started
      BY <1>1 DEF TypeOK, View, RunRecord
    <2>3. PICK p \in {"loop", "close"}, how \in {"drained", "none"} : PutRun(i, s, st, p, how)
      BY <1>4, <2>1, <2>2 DEF UpdateAggregate
    <2>4. s = "SUCCESS" => \A n \in Node : state[n].status = "SUCCESS"
      BY <1>1, <2>1, AggregateSuccess DEF OwnerOK
    <2>5. how \in Outcome /\ UNCHANGED state
      BY <1>4 DEF Outcome, UpdateAggregate
    <2>6. QED
      BY <1>1, <2>3, <2>4, <2>5, AggregateStep
  <1>5. CASE ClaimNode(i)
    <2>1. pc[i] = "claim" /\ UNCHANGED <<run, at>>
      BY <1>5 DEF ClaimNode, scratch
    <2>2. PICK n \in Node : n = Order[at[i]]
      BY <2>1, NodeOfPhase DEF InNode
    <2>3. PICK l \in Nat : l = view[i].attempt[n][i].no
      BY <1>1, RecordTypes
    <2> DEFINE r == FALSE
    <2>4. PutState(i, n, "RUNNING", l, i, r, "ready") /\ r \in BOOLEAN
      BY <1>5, <2>2, <2>3 DEF ClaimNode
    <2> HIDE DEF r
    <2>5. "RUNNING" \in NodeStatus
      BY DEF NodeStatus
    <2>6. QED
      BY <1>1, <2>1, <2>2, <2>4, <2>5, StateStep
  <1>6. CASE ApplyResult(i)
    <2>1. pc[i] = "apply" /\ UNCHANGED run
      BY <1>6 DEF ApplyResult
    <2>2. PICK n \in Node : n = Order[at[i]] /\ NodePhaseOK(i, n)
      BY <2>1, NodeOfPhase DEF InNode
    <2>3. view[i].state[n].status = "RUNNING" /\ decision[i][n].status \in Terminal
      BY <1>1, <2>1, <2>2, RecordTypes DEF NodePhaseOK, InNode, Decision
    <2>4. PICK s \in NodeStatus :
             s = IF decision[i][n].code = "PREPARE_FAILED" THEN "WAITING" ELSE decision[i][n].status
      BY <2>3 DEF Terminal, NodeStatus
    <2>5. PICK l \in Nat : l = view[i].state[n].latest
      BY <1>1, RecordTypes
    <2> DEFINE r == FALSE
    <2>6. PutState(i, n, s, l, None, r, "aggregate") /\ r \in BOOLEAN
      BY <1>6, <2>2, <2>4, <2>5 DEF ApplyResult
    <2> HIDE DEF r
    <2>7. QED
      BY <1>1, <2>1, <2>3, <2>6, StateStep
  <1>7. QED
    BY <1>2, <1>3, <1>4, <1>5, <1>6

\* A process starts a node: no hold is on record and all dependencies are
\* SUCCESS.
LEMMA StartStep ==
  ASSUME IInv, XInv, NEW i \in Invocation, NEW p \in {"accept", "start"}, Goto(i, p),
         pc[i] \in Evaluating, UNCHANGED <<run, state, cancel, owner, view, at, heldStarts>>,
         p = "start" => ~Hold,
         \A d \in DependsOn[Order[at[i]]] : view[i].state[d].status = "SUCCESS"
  PROVE  XInv'
  <1>1. OwnerOK(i) /\ Live(i) /\ owner = i
    BY DEF XInv, OwnerOK, Live, Evaluating, InNode
  <1>2. pc'[i] = p /\ \A k \in Invocation \ {i} : pc'[k] = pc[k]
    BY GotoMoves DEF IInv, Phase
  <1>3. SuccessfulRunIsFinal' /\ StopBoundary'
    BY DEF XInv, SuccessfulRunIsFinal, StopBoundary
  <1>4. ExistOK(i)' /\ SyncedOK(i)' /\ DependenciesOK(i)'
    BY <1>1 DEF OwnerOK, ExistOK, SyncedOK, DependenciesOK, Existing
  <1>5. OwnerOK(i)'
    BY <1>1, <1>2, <1>4 DEF OwnerOK, Hold
  <1>6. QED
    BY <1>1, <1>2, <1>3, <1>5, OwnerStep

\* A node that is neither passed nor blocked has SUCCESS dependencies.
LEMMA BoundaryOwns ==
  ASSUME IInv, XInv, NEW i \in Invocation, StopCheck(i) \/ AcceptStop(i)
  PROVE  XInv'
  <1>1. /\ TypeOK /\ pc[i] \in Evaluating /\ OwnerOK(i) /\ Live(i) /\ owner = i
        /\ UNCHANGED <<run, state, owner, view, at, heldStarts>>
    BY DEF IInv, XInv, OwnerOK, Live, StopCheck, AcceptStop, InLoop, Evaluating, records, env,
           scratch
  <1>2. SuccessfulRunIsFinal' /\ StopBoundary'
    BY <1>1 DEF XInv, SuccessfulRunIsFinal, StopBoundary
  <1>3. CASE End(i, "stopped")
    <2>1. pc'[i] = "close" /\ \A k \in Invocation \ {i} : pc'[k] = pc[k]
      BY <1>1, <1>3, EndMoves DEF Outcome
    <2>2. QED
      BY <1>1, <1>2, <2>1, BareStep
  <1>4. CASE StopCheck(i) /\ ~End(i, "stopped")
    <2>1. PICK p \in {"accept", "start"} : Goto(i, p) /\ UNCHANGED cancel /\ (p = "start" => ~Hold)
      BY <1>4 DEF StopCheck, records
    <2>2. PICK n \in Node : n = Order[at[i]]
      <3>1. /\ at[i] \in 1..Len(Order) + 1 /\ Len(Order) \in Nat /\ at[i] <= Len(Order)
        BY <1>4, Positions DEF IInv, ProcOK, PhaseOK, AtOK, StopCheck, InLoop
      <3>2. at[i] \in 1..Len(Order)
        BY <3>1
      <3>3. QED
        BY <3>2, Positions
    <2>3. ~Passed(i, n) /\ ~MustBlock(i, n)
      BY <1>4, <2>2 DEF StopCheck
    <2>4. ASSUME NEW d \in DependsOn[n] PROVE view[i].state[d].status = "SUCCESS"
      <3>1. d \in Node
        BY NetworkAssumption
      <3>2. view[i].state[d].status # "none" /\ view[i].state[d].status \in NodeStatus
        BY <1>1, <3>1, RecordTypes DEF OwnerOK, SyncedOK
      <3>3. QED
        BY <2>3, <3>2 DEF Passed, MustBlock, NodeStatus
    <2>5. QED
      BY <1>1, <2>1, <2>2, <2>4, StartStep
  <1>5. CASE AcceptStop(i) /\ ~End(i, "stopped")
    <2>1. Goto(i, "start") /\ UNCHANGED cancel /\ ~Hold /\ pc[i] = "accept"
      BY <1>5 DEF AcceptStop
    <2>2. \A d \in DependsOn[Order[at[i]]] : view[i].state[d].status = "SUCCESS"
      BY <1>1, <2>1 DEF OwnerOK, DependenciesOK
    <2>3. QED
      BY <1>1, <2>1, <2>2, StartStep
  <1>6. QED
    BY <1>3, <1>4, <1>5

\* Refused starts and writes.
LEMMA LeaseOwns ==
  ASSUME IInv, XInv, NEW i \in Invocation,
         StartRefused(i) \/ ConfirmForDrain(i) \/ LeaseInterrupted(i)
  PROVE  XInv'
  <1>1. /\ TypeOK
        /\ UNCHANGED <<run, state, cancel, owner, view, at, mode, heldStarts>>
    BY DEF IInv, StartRefused, ConfirmForDrain, LeaseInterrupted, records, env, scratch
  <1>2. CASE StartRefused(i)
    <2>1. pc[i] = "start" /\ Goto(i, "finish")
      BY <1>2 DEF StartRefused
    <2>2. /\ "finish" \in Phase /\ pc[i] \in Existing /\ pc[i] \in Evaluating
          /\ "finish" \in (Existing \ {"rerunRead", "rerun", "start"}) \cup {"close"}
      BY <2>1 DEF Phase, Existing, Evaluating
    <2>3. QED
      BY <1>1, <2>1, <2>2, PhaseMove
  <1>3. CASE ConfirmForDrain(i)
    BY <1>1, <1>3, SameStep DEF ConfirmForDrain
  <1>4. CASE LeaseInterrupted(i)
    <2>1. pc'[i] = "close" /\ \A k \in Invocation \ {i} : pc'[k] = pc[k]
      BY <1>1, <1>4, EndMoves DEF LeaseInterrupted, Outcome
    <2>2. Live(i) /\ owner = i
      BY <1>4 DEF LeaseInterrupted, OrdinaryWriteNext, Drained, InLoop, Live, XInv, OwnerOK
    <2>3. SuccessfulRunIsFinal'
      BY <1>1 DEF XInv, SuccessfulRunIsFinal
    <2>4. QED
      BY <1>1, <2>1, <2>2, <2>3, BareStep
  <1>5. QED
    BY <1>2, <1>3, <1>4

\* The first attempt created under a hold is the one whose check was earlier.
LEMMA CreateAttemptOwns ==
  ASSUME IInv, XInv, NEW i \in Invocation, CreateAttempt(i)
  PROVE  XInv'
  <1>1. /\ TypeOK /\ pc[i] = "start" /\ OwnerOK(i) /\ Live(i) /\ owner = i
        /\ UNCHANGED <<run, state, cancel, owner, at>>
    BY DEF IInv, XInv, OwnerOK, Live, CreateAttempt, scratch
  <1>2. SuccessfulRunIsFinal'
    BY <1>1 DEF XInv, SuccessfulRunIsFinal
  <1>3. CASE End(i, "failed") /\ UNCHANGED heldStarts
    <2>1. pc'[i] = "close" /\ \A k \in Invocation \ {i} : pc'[k] = pc[k]
      BY <1>1, <1>3, EndMoves DEF Outcome
    <2>2. QED
      BY <1>1, <1>2, <1>3, <2>1, BareStep
  <1>4. CASE ~(End(i, "failed") /\ UNCHANGED heldStarts)
    <2>1. PICK n \in Node : n = Order[at[i]]
      BY <1>1, NodeOfPhase
    <2> DEFINE no == view[i].state[n].latest + 1
               new == [NoAttempt EXCEPT !.status = "RUNNING", !.rev = 1, !.no = no,
                                        !.before = view[i].state[n].rev]
    <2>2. /\ attempt' = [attempt EXCEPT ![n][i] = new]
          /\ view' = [view EXCEPT ![i].attempt[n][i] = new]
          /\ heldStarts' = IF Hold THEN heldStarts + 1 ELSE heldStarts
          /\ Goto(i, "claim")
      BY <1>4, <2>1 DEF CreateAttempt
    <2>3. new \in AttemptRecord
      <3>1. no \in Nat /\ 1 \in Nat /\ view[i].state[n].rev \in Nat
        BY <1>1, RecordTypes
      <3> HIDE DEF no
      <3>2. QED
        BY <3>1, TypesOfNothing DEF AttemptRecord
    <2> HIDE DEF new
    <2>4. view'[i].state = view[i].state
      BY <1>1, <2>2, <2>3, AttemptWritten DEF WroteAttempt
    <2>5. pc'[i] = "claim" /\ \A k \in Invocation \ {i} : pc'[k] = pc[k]
      BY <1>1, <2>2, GotoMoves DEF Phase
    <2>6. StopBoundary'
      BY <1>1, <2>2 DEF XInv, OwnerOK, StopBoundary
    <2>7. ExistOK(i)' /\ SyncedOK(i)' /\ DependenciesOK(i)'
      BY <1>1, <2>4 DEF OwnerOK, ExistOK, SyncedOK, DependenciesOK, Existing, Evaluating
    <2>8. OwnerOK(i)'
      BY <1>1, <2>5, <2>7 DEF OwnerOK
    <2>9. QED
      BY <1>1, <1>2, <2>5, <2>6, <2>8, OwnerStep
  <1>5. QED
    BY <1>3, <1>4

\* The steps of the attempt executor.
LEMMA ExecuteOwns ==
  ASSUME IInv, XInv, NEW i \in Invocation,
         \/ OutputPathRejected(i) \/ SetAttemptExecutionStarted(i) \/ Launch(i)
         \/ ClassifyResult(i) \/ AuthorizeResult(i) \/ FinalizeAttempt(i)
  PROVE  XInv'
  <1>1. /\ TypeOK /\ pc[i] \in Existing /\ pc[i] \in Evaluating
        /\ pc[i] \in InNode
        /\ UNCHANGED <<run, state, cancel, owner, at, heldStarts>>
    BY DEF IInv, OutputPathRejected, SetAttemptExecutionStarted, Launch, ClassifyResult,
           AuthorizeResult, FinalizeAttempt, Existing, Evaluating, InNode, records, env, scratch
  <1>2. CASE SetAttemptExecutionStarted(i)
    <2>1. PICK n \in Node : n = Order[at[i]]
      BY <1>1, NodeOfPhase
    <2>2. PutAttempt(i, n, i, "RUNNING", "PENDING", "yes", "launch") /\ pc[i] = "ready"
      BY <1>2, <2>1 DEF SetAttemptExecutionStarted
    <2>3. "PENDING" \in Code /\ "RUNNING" \in {"RUNNING"} \cup Terminal
      BY DEF Code
    <2>4. QED
      BY <1>1, <2>2, <2>3, AttemptMove
  <1>3. CASE FinalizeAttempt(i)
    <2>1. PICK n \in Node : n = Order[at[i]] /\ NodePhaseOK(i, n)
      BY <1>1, NodeOfPhase
    <2>2. pc[i] = "persist"
      BY <1>3 DEF FinalizeAttempt
    <2>3. PICK s \in {"RUNNING"} \cup Terminal, c \in Code, st \in {"no", "yes"} :
             /\ s = decision[i][n].status /\ c = decision[i][n].code
             /\ st = view[i].attempt[n][i].started
      BY <1>1, <2>1, <2>2, RecordTypes DEF NodePhaseOK, Decision
    <2>4. PutAttempt(i, n, i, s, c, st, "apply")
      BY <1>3, <2>1, <2>3 DEF FinalizeAttempt
    <2>5. QED
      BY <1>1, <2>4, AttemptMove
  <1>4. CASE \E p \in {"authorize", "wait", "persist"} : Goto(i, p) /\ UNCHANGED view
    <2>1. PICK p \in {"authorize", "wait", "persist"} : Goto(i, p) /\ UNCHANGED view
      BY <1>4
    <2>2. p \in Phase /\ p \in (Existing \ {"rerunRead", "rerun", "start"}) \cup {"close"}
      BY DEF Phase, Existing, Evaluating, InNode
    <2>3. QED
      BY <1>1, <2>1, <2>2, PhaseMove
  <1>5. QED
    BY <1>2, <1>3, <1>4 DEF OutputPathRejected, Launch, ClassifyResult, AuthorizeResult

\* close, release, crashes and errors.
LEMMA EndOwns ==
  ASSUME IInv, XInv, NEW i \in Invocation, Close(i) \/ Release(i) \/ Faults(i)
  PROVE  XInv'
  <1>1. TypeOK /\ UNCHANGED <<run, state, cancel, heldStarts>>
    BY DEF IInv, Close, Release, Faults, LoseLease, Fail, Crash, records, env
  <1>2. SuccessfulRunIsFinal'
    BY <1>1 DEF XInv, SuccessfulRunIsFinal
  <1>3. Live(i) /\ owner = i
    BY DEF Close, Release, Faults, LoseLease, Fail, Crash, Live, XInv, OwnerOK, Phase
  <1>4. CASE LoseLease(i)
    BY <1>1, <1>4, SameStep DEF LoseLease
  <1>5. CASE Close(i) \/ Fail(i)
    <2>1. UNCHANGED owner /\ \/ \E p \in {"release", "done"} : Goto(i, p)
                             \/ End(i, "failed")
      BY <1>5 DEF Close, Fail
    <2>2. /\ pc'[i] \in {"close", "release", "done"}
          /\ \A k \in Invocation \ {i} : pc'[k] = pc[k]
      BY <1>1, <2>1, GotoMoves, EndMoves DEF Phase, Outcome
    <2>3. QED
      BY <1>1, <1>2, <1>3, <2>1, <2>2, BareStep
  <1>6. CASE Release(i) \/ Crash(i)
    <2>1. \E p \in {"done", "crashed"} : Goto(i, p)
      BY <1>6 DEF Release, Crash
    <2>2. pc'[i] \in {"done", "crashed"} /\ \A k \in Invocation \ {i} : pc'[k] = pc[k]
      BY <1>1, <2>1, GotoMoves DEF Phase
    <2>3. QED
      BY <1>1, <1>2, <1>3, <2>2, BareStep
  <1>7. QED
    BY <1>4, <1>5, <1>6 DEF Faults

\* force-unlock-network frees the lock of a process that is gone.
LEMMA ForceUnlockOwns ==
  ASSUME IInv, XInv, ForceUnlock
  PROVE  XInv'
  <1>1. UNCHANGED <<run, state, cancel, pc, heldStarts>> /\ TypeOK
    BY DEF ForceUnlock, records, env, IInv
  <1>2. SuccessfulRunIsFinal' /\ StopBoundary'
    BY <1>1 DEF XInv, SuccessfulRunIsFinal, StopBoundary
  <1>3. ASSUME NEW k \in Invocation PROVE OwnerOK(k)'
    <2>1. ~Live(k)
      BY DEF ForceUnlock, XInv, OwnerOK, Live
    <2>2. pc'[k] \in {"idle", "done", "crashed"}
      BY <1>1, <2>1 DEF Live
    <2>3. QED
      BY <2>2 DEF OwnerOK, Live, ExistOK, SyncedOK, DependenciesOK, Existing, Evaluating, InNode
  <1>4. QED
    BY <1>2, <1>3 DEF XInv

\* resolve-node overtakes UNKNOWN and FAILED states only; cancel-run starts a new hold.
LEMMA OperatorsOwn ==
  ASSUME IInv, XInv, Resolve \/ Stop
  PROVE  XInv'
  <1>1. UNCHANGED <<run, owner, pc, at, mode, view>> /\ TypeOK /\ ResolverOK
    BY DEF IInv, Resolve, ResolveRead, ResolveAppend, ResolveApply, ResolverDies, Stop, StopRead,
           StopWrite, records, scratch
  <1>2. CASE UNCHANGED <<state, cancel, heldStarts>>
    BY <1>1, <1>2, SameStep
  <1>3. CASE StopWrite
    <2>1. UNCHANGED state
      BY <1>3 DEF StopWrite
    <2>2. heldStarts' = 0 \/ UNCHANGED <<cancel, heldStarts>>
      BY <1>3 DEF StopWrite
    <2>3. SuccessfulRunIsFinal' /\ StopBoundary'
      BY <1>1, <2>1, <2>2 DEF XInv, SuccessfulRunIsFinal, StopBoundary
    <2>4. \A k \in Invocation : OwnerOK(k)'
      BY <1>1, <2>1, <2>2 DEF XInv, OwnerOK, Live, ExistOK, SyncedOK, DependenciesOK, Hold
    <2>5. QED
      BY <2>3, <2>4 DEF XInv
  <1>4. CASE ResolveApply
    <2>1. PICK n \in Node, s \in Outcomes : n = resolver.node /\ s = resolver.to
      BY <1>1 DEF TypeOK, ResolverRecord
    <2>2. UNCHANGED <<cancel, heldStarts>> /\ resolver.stage = "apply"
      BY <1>4 DEF ResolveApply
    <2>3. CASE UNCHANGED state
      BY <1>2, <2>2, <2>3
    <2>4. CASE /\ state[n].rev = resolver.old.rev
               /\ state' = [state EXCEPT ![n] = [status |-> s, rev |-> state[n].rev + 1,
                                                 latest |-> state[n].latest, active |-> None]]
      <3>1. state[n].status \in {"UNKNOWN", "FAILED"}
        BY <1>1, <2>1, <2>2, <2>4 DEF ResolverOK
      <3>2. /\ state'[n].status = s /\ s # "none"
            /\ \A m \in Node \ {n} : state'[m] = state[m]
        BY <1>1, <2>4 DEF TypeOK, Outcomes
      <3>3. SuccessfulRunIsFinal' /\ StopBoundary'
        BY <1>1, <2>2, <3>1, <3>2 DEF XInv, SuccessfulRunIsFinal, StopBoundary
      <3>4. ASSUME NEW k \in Invocation PROVE OwnerOK(k)'
        <4>1. OwnerOK(k)
          BY DEF XInv
        <4>2. ExistOK(k)'
          BY <1>1, <3>2, <4>1 DEF OwnerOK, ExistOK
        <4>3. SyncedOK(k)'
          BY <1>1, <3>1, <3>2, <4>1 DEF OwnerOK, SyncedOK
        <4>4. QED
          BY <1>1, <2>2, <4>1, <4>2, <4>3 DEF OwnerOK, Live, DependenciesOK, Hold
      <3>5. QED
        BY <3>3, <3>4 DEF XInv
    <2>5. CASE StateWritable(n, resolver.old, s, TRUE)
      <3>1. state[n].rev = resolver.old.rev
        BY <2>5 DEF StateWritable
      <3>2. state' = [state EXCEPT ![n] = [status |-> s, rev |-> state[n].rev + 1,
                                           latest |-> state[n].latest, active |-> None]]
        BY <1>1, <1>4, <2>1, <2>5 DEF ResolveApply, NewState, TypeOK
      <3>3. QED
        BY <2>4, <3>1, <3>2
    <2>6. CASE ~StateWritable(n, resolver.old, s, TRUE)
      BY <1>4, <2>1, <2>3, <2>6 DEF ResolveApply
    <2>7. QED
      BY <2>5, <2>6
  <1>5. QED
    BY <1>2, <1>3, <1>4 DEF Resolve, ResolveRead, ResolveAppend, ResolverDies, Stop, StopRead,
                            records

\* A Run that does not exist yet, and no process.
LEMMA InitXInv ==
  ASSUME Init
  PROVE  XInv
  <1>1. /\ \A i \in Invocation : pc[i] = "idle"
        /\ run.status = "none" /\ heldStarts = 0
    BY DEF Init, NoRun
  <1>2. \A i \in Invocation : OwnerOK(i)
    BY <1>1 DEF OwnerOK, Live, ExistOK, SyncedOK, DependenciesOK, Existing, Evaluating, InNode
  <1>3. QED
    BY <1>1, <1>2 DEF XInv, SuccessfulRunIsFinal, StopBoundary

\* All steps of the owner.
LEMMA StepOwns ==
  ASSUME IInv, XInv, NEW i \in Invocation, Step(i)
  PROVE  XInv'
  <1>1. CASE Prepare(i)
    BY <1>1, PreparationOwns, RepairOwns, ReconciliationOwns, RerunOwns DEF Prepare
  <1>2. CASE Schedule(i)
    BY <1>2, RunStartedOwns, OrphansOwn, ResumeOwns, LoopOwns, BoundaryOwns, LeaseOwns,
       CreateAttemptOwns, ExecuteOwns DEF Schedule
  <1>3. CASE Execute(i)
    BY <1>3, ExecuteOwns, LoopOwns DEF Execute
  <1>4. QED
    BY <1>1, <1>2, <1>3, EndOwns DEF Step

\* XInv is inductive given IInv.
LEMMA NextXInv ==
  ASSUME Exclusive, IInv, XInv, [Next]_vars
  PROVE  XInv'
  <1>1. CASE \E n \in Node, i \in Invocation : JobStep(n, i)
    <2>1. UNCHANGED <<run, state, cancel, owner, pc, at, mode, view, heldStarts>>
      BY <1>1 DEF JobStep, records, scratch, env
    <2>2. QED
      BY <2>1, SameStep
  <1>2. CASE UNCHANGED vars
    <2>1. UNCHANGED <<run, state, cancel, owner, pc, at, mode, view, heldStarts>>
      BY <1>2 DEF vars, records, scratch, env
    <2>2. QED
      BY <2>1, SameStep
  <1>3. QED
    BY <1>1, <1>2, OpenOwns, StepOwns, EndOwns, ForceUnlockOwns, OperatorsOwn DEF Next

\* What the exclusion of the Network lock adds to RunInvariant: only the owner
\* is live, and its copies of the Node States are stale at most where an
\* operator resolved an UNKNOWN or FAILED node.
THEOREM OwnerInvariant ==
  ASSUME Exclusive
  PROVE  Spec => []XInv
  <1>1. Init => XInv
    BY InitXInv
  <1>2. IInv /\ XInv /\ [Next]_vars => XInv'
    BY NextXInv
  <1>3. QED
    BY <1>1, <1>2, RunInvariant, PTL DEF Spec

\* A Run recorded as SUCCESS has only SUCCESS nodes and is never reopened,
\* when the Network lock excludes: the aggregate is computed from current
\* states, no resume resets a SUCCESS node and RERUN_FROM refuses the Run.
THEOREM RunSuccessIsFinal ==
  ASSUME Exclusive
  PROVE  Spec => []SuccessfulRunIsFinal
  <1>1. XInv => SuccessfulRunIsFinal
    BY DEF XInv
  <1>2. QED
    BY <1>1, OwnerInvariant, PTL

\* While a stop request is on record at most one more attempt is created: by
\* the process whose boundary check read the record before the request.
THEOREM RunStopBoundary ==
  ASSUME Exclusive
  PROVE  Spec => []StopBoundary
  <1>1. XInv => StopBoundary
    BY DEF XInv
  <1>2. QED
    BY <1>1, OwnerInvariant, PTL

\* Only Launch starts a job.
LEMMA OthersLaunchNothing ==
  ASSUME [Next]_vars, NEW n \in Node, NEW i \in Invocation, job[n][i] = "none", TypeOK,
         job'[n][i] = "launched"
  PROVE  \E k \in Invocation : Launch(k)
  <1>1. SUFFICES ASSUME \A k \in Invocation : ~Launch(k)
                 PROVE  UNCHANGED job \/ \E m \in Node, k \in Invocation : JobStep(m, k)
    <2>1. ASSUME NEW m \in Node, NEW k \in Invocation, JobStep(m, k) PROVE FALSE
      <3>1. PICK x : job' = [job EXCEPT ![m][k] = x] /\ job[m][k] # "none"
        BY <2>1 DEF JobStep
      <3>2. m # n \/ k # i
        BY <3>1
      <3>3. job'[n][i] = job[n][i]
        BY <3>1, <3>2 DEF TypeOK
      <3>4. QED
        BY <3>3
    <2>2. QED
      BY <2>1
  <1>2. ASSUME NEW k \in Invocation, Open(k) \/ Faults(k) \/ Close(k) \/ Release(k)
        PROVE  UNCHANGED job
    BY <1>2 DEF Open, OpenNew, OpenRefused, OpenExisting, Faults, LoseLease, Fail, Crash, Close,
                Release
  <1>3. ASSUME NEW k \in Invocation, Prepare(k) PROVE UNCHANGED job
    BY <1>3 DEF Prepare, CreateInvocation, EnsureNodeStates, ReconcileRead, ApplyTerminalAttempt,
                ApplyResolution, FinishReconciliation, RerunRead, RerunReset
  <1>4. ASSUME NEW k \in Invocation, Schedule(k) PROVE UNCHANGED job
    BY <1>4 DEF Schedule, EnsureRunStarted, ReadOrphans, AdjudicateOrphan, FinalizeOrphanState,
                FinalizeAbandoned, ReadStates, PrepareResumeState, PrepareDone, PassNode,
                BlockNode, StopCheck, AcceptStop, StartRefused, CreateAttempt, ClaimNode,
                OutputPathRejected, UpdateAggregate, FinishLoop, ConfirmForDrain,
                LeaseInterrupted
  <1>5. ASSUME NEW k \in Invocation, Execute(k) PROVE UNCHANGED job
    BY <1>1, <1>5 DEF Execute, SetAttemptExecutionStarted, ClassifyResult, AuthorizeResult,
                      FinalizeAttempt, ApplyResult
  <1>6. ASSUME ForceUnlock \/ Resolve \/ Stop PROVE UNCHANGED job
    BY <1>6 DEF ForceUnlock, Resolve, ResolveRead, ResolveAppend, ResolveApply, ResolverDies,
                Stop, StopRead, StopWrite
  <1>7. QED
    BY <1>2, <1>3, <1>4, <1>5, <1>6 DEF Next, Step, vars

\* A job is launched only when the recorded states of all dependencies of its
\* node are SUCCESS, when the Network lock excludes.
THEOREM RunStartsAfterDependencies ==
  ASSUME Exclusive
  PROVE  Spec => StartsAfterDependencies
  <1>1. ASSUME IInv, XInv, [Next]_vars
        PROVE  [\A n \in Node, i \in Invocation :
                   job[n][i] = "none" /\ job'[n][i] = "launched" =>
                       \A d \in DependsOn[n] : state[d].status = "SUCCESS"]_vars
    <2>1. SUFFICES ASSUME NEW n \in Node, NEW i \in Invocation,
                          job[n][i] = "none", job'[n][i] = "launched", NEW d \in DependsOn[n]
                   PROVE  state[d].status = "SUCCESS"
      OBVIOUS
    <2>2. PICK k \in Invocation : Launch(k)
      BY <1>1, <2>1, OthersLaunchNothing DEF IInv
    <2>3. pc[k] = "launch" /\ job' = [job EXCEPT ![Order[at[k]]][k] = "launched"]
      BY <2>2 DEF Launch
    <2>4. PICK m \in Node : m = Order[at[k]]
      BY <1>1, <2>3, NodeOfPhase DEF InNode
    <2>5. m = n
      BY <1>1, <2>1, <2>3, <2>4 DEF IInv, TypeOK
    <2>6. OwnerOK(k) /\ d \in Node
      BY <1>1, NetworkAssumption DEF XInv
    <2>7. view[k].state[d].status = "SUCCESS"
      BY <2>3, <2>4, <2>5, <2>6 DEF OwnerOK, DependenciesOK
    <2>8. view[k].state[d] = state[d]
      BY <2>3, <2>6, <2>7 DEF OwnerOK, SyncedOK, Evaluating, InNode
    <2>9. QED
      BY <2>7, <2>8
  <1>2. QED
    BY <1>1, RunInvariant, OwnerInvariant, PTL DEF Spec, StartsAfterDependencies

-----------------------------------------------------------------------------
(* The retry brake.  It counts the failed attempts on record that follow    *)
(* one another, those that never began (PREPARE_FAILED) left out.  BrakeInv *)
(* says that, while no operator uses --rerun-from, a node that may be       *)
(* started is never braked: a resume counts all the attempts of the Run,    *)
(* an orphan's result is on record before it counts, an attempt under way   *)
(* is the newest and releases the brake, and a node whose attempt failed    *)
(* is neither WAITING nor BLOCKED until the next resume.                    *)

\* No process was opened with --rerun-from.
NoRerun == \A j \in Invocation : mode[j] # "RERUN_FROM"

\* The attempts as they would be without that of invocation j for node n.
Without(n, j) == [attempt EXCEPT ![n][j] = NoAttempt]

\* A node that may be started is not braked; one that runs was not when it
\* was started, so that it may return to WAITING when its job never began.
\* No attempt is numbered beyond the next one.
BrakeNodeOK(n) ==
    /\ state[n].status \in {"none", "WAITING", "BLOCKED"} => ~Braked(attempt, n)
    /\ state[n].status = "RUNNING" /\ state[n].active # None =>
          ~Braked(Without(n, state[n].active), n)
    /\ \A j \in Invocation : attempt[n][j].no <= state[n].latest + 1

\* A process about to claim n created the next attempt of a node not braked.
ClaimOK(i, n) ==
    /\ ~Braked(Without(n, i), n)
    /\ attempt[n][i].no = view[i].state[n].latest + 1

\* What sends a node back to WAITING is not counted by the brake.
ResultOK(i, n) ==
    decision[i][n].code = "PREPARE_FAILED" =>
        /\ decision[i][n].status = "CANCELLED"
        /\ pc[i] = "apply" =>
              attempt[n][i].status = "CANCELLED" /\ attempt[n][i].code = "PREPARE_FAILED"

\* The phases in which a process works on the attempts on record: the orphans
\* it adjudicates, and the ones a resume counts.
AttemptsKnown(i) ==
    \/ pc[i] \in {"orphan", "orphanState", "abandon"}
    \/ pc[i] \in {"prepareRead", "prepare"} /\ mode[i] = "RESUME"

\* What the brake asks of one process in its phase.
BrakeProcOK(i) ==
    /\ pc[i] \notin {"rerunRead", "rerun"}
    /\ pc[i] = "claim" => ClaimOK(i, Order[at[i]])
    /\ pc[i] \in {"authorize", "persist", "apply"} => ResultOK(i, Order[at[i]])
    /\ pc[i] \in {"orphan", "orphanState"} =>
          \A n \in todo[i] : view[i].state[n] = state[n] /\ state[n].status = "RUNNING"
    /\ AttemptsKnown(i) => view[i].attempt = attempt
    /\ pc[i] = "prepare" /\ mode[i] # "RESUME" => todo[i] = {}

NodesUnbraked == \A n \in Node : BrakeNodeOK(n)

\* A process takes its mode when it opens the Run and keeps it, so that a
\* --rerun-from once used is still seen.
BrakeInv ==
    /\ \A i \in Invocation : pc[i] = "idle" => mode[i] = "NEW"
    /\ NoRerun => NodesUnbraked /\ \A i \in Invocation : BrakeProcOK(i)

-----------------------------------------------------------------------------
\* The attempts that the brake does not look at.
Uncounted(a) == a.status = "none" \/ (a.status = "CANCELLED" /\ a.code = "PREPARE_FAILED")

\* The brake depends on the status, the code and the number of the attempts it
\* counts.
LEMMA BrakeDepends ==
  ASSUME NEW a, NEW b, NEW n,
         \A j \in Invocation :
            \/ Uncounted(a[n][j]) /\ Uncounted(b[n][j])
            \/ /\ a[n][j].status = b[n][j].status /\ a[n][j].code = b[n][j].code
               /\ a[n][j].no = b[n][j].no
  PROVE  Braked(a, n) <=> Braked(b, n)
  <1> DEFINE H(f) == {j \in Invocation : ~Uncounted(f[n][j])}
             tail(f) == {j \in H(f) : \A k \in H(f) : f[n][k].no >= f[n][j].no =>
                            f[n][k].status = "FAILED" /\ f[n][k].code = f[n][j].code}
  <1>1. ASSUME NEW f PROVE Braked(f, n) <=> (Cardinality(tail(f)) >= BrakeLimit)
    <2>1. H(f) = {j \in Invocation : /\ f[n][j].status # "none"
                                     /\ ~(/\ f[n][j].status = "CANCELLED"
                                          /\ f[n][j].code = "PREPARE_FAILED")}
      BY DEF Uncounted
    <2>2. QED
      BY <2>1 DEF Braked
  <1>2. H(a) = H(b)
    BY DEF Uncounted
  <1>3. \A j \in H(a) : /\ a[n][j].status = b[n][j].status /\ a[n][j].code = b[n][j].code
                        /\ a[n][j].no = b[n][j].no
    BY <1>2
  <1>4. tail(a) = tail(b)
    <2> HIDE DEF H
    <2>1. QED
      BY <1>2, <1>3
  <1>5. QED
    BY <1>1, <1>4

\* A newest attempt that is counted and did not fail releases the brake.
LEMMA BrakeReleased ==
  ASSUME NEW a, NEW n, NEW i \in Invocation, a[n][i].status = "RUNNING",
         \A j \in Invocation : a[n][i].no >= a[n][j].no
  PROVE  ~Braked(a, n)
  <1> DEFINE H == {j \in Invocation : /\ a[n][j].status # "none"
                                      /\ ~(/\ a[n][j].status = "CANCELLED"
                                           /\ a[n][j].code = "PREPARE_FAILED")}
             tail == {j \in H : \A k \in H : a[n][k].no >= a[n][j].no =>
                         a[n][k].status = "FAILED" /\ a[n][k].code = a[n][j].code}
  <1>1. Braked(a, n) <=> (Cardinality(tail) >= BrakeLimit)
    BY DEF Braked
  <1>2. i \in H
    OBVIOUS
  <1>3. tail = {}
    <2> HIDE DEF H
    <2>1. H \subseteq Invocation
      BY DEF H
    <2>2. QED
      BY <1>2, <2>1
  <1>4. Cardinality(tail) = 0
    BY <1>3, FS_EmptySet
  <1>5. BrakeLimit \in Nat /\ BrakeLimit # 0
    BY ExecutionAssumption
  <1> HIDE DEF tail
  <1>6. QED
    BY <1>1, <1>4, <1>5

\* The attempts without one of them, one by one.
LEMMA WithoutFields ==
  ASSUME TypeOK, NEW n \in Node, NEW j \in Invocation
  PROVE  /\ Without(n, j)[n][j] = NoAttempt
         /\ \A k \in Invocation : k # j => Without(n, j)[n][k] = attempt[n][k]
  <1>1. attempt \in [Node -> [Invocation -> AttemptRecord]]
    BY DEF TypeOK
  <1>2. QED
    BY <1>1 DEF Without

\* Leaving out an attempt that is not counted changes nothing.
LEMMA BrakeWithout ==
  ASSUME TypeOK, NEW n \in Node, NEW j \in Invocation, Uncounted(attempt[n][j])
  PROVE  Braked(Without(n, j), n) <=> Braked(attempt, n)
  <1>1. \A k \in Invocation : \/ Uncounted(Without(n, j)[n][k]) /\ Uncounted(attempt[n][k])
                              \/ Without(n, j)[n][k] = attempt[n][k]
    BY WithoutFields DEF Uncounted, NoAttempt
  <1>2. QED
    BY <1>1, BrakeDepends

\* What is left out may change.
LEMMA BrakeWithoutStep ==
  ASSUME TypeOK, attempt' \in [Node -> [Invocation -> AttemptRecord]],
         NEW n \in Node, NEW j \in Invocation,
         \A k \in Invocation : k # j => attempt'[n][k] = attempt[n][k]
  PROVE  Braked(Without(n, j)', n) <=> Braked(Without(n, j), n)
  <1>1. /\ Without(n, j)'[n][j] = NoAttempt
        /\ \A k \in Invocation : k # j => Without(n, j)'[n][k] = attempt'[n][k]
    BY DEF Without
  <1>2. \A k \in Invocation : Without(n, j)'[n][k] = Without(n, j)[n][k]
    BY <1>1, WithoutFields
  <1>3. QED
    BY <1>2, BrakeDepends

\* What a step of process i may assume, and what it keeps.
BrakeKnown(i) == IInv /\ XInv /\ NoRerun /\ NodesUnbraked /\ BrakeProcOK(i)

BrakeKept(i) ==
    /\ NodesUnbraked' /\ BrakeProcOK(i)'
    /\ pc'[i] # "idle" /\ \A k \in Invocation \ {i} : pc'[k] = pc[k]

\* The phases in which the brake says nothing about the process.
Unbound == {"invocation", "ensure", "reconcile", "repair", "begin", "orphanRead", "loop",
            "blocked", "accept", "start", "ready", "launch", "wait", "aggregate", "finish",
            "close", "release", "done", "crashed"}

\* The brake says nothing of other state than nodes and attempts.
LEMMA NodesStay ==
  ASSUME NodesUnbraked, UNCHANGED <<state, attempt>>
  PROVE  NodesUnbraked'
  BY DEF NodesUnbraked, BrakeNodeOK, Without

\* A process that goes where the brake binds nothing keeps the rest.
LEMMA UnboundStep ==
  ASSUME NEW i \in Invocation, NodesUnbraked', pc'[i] \in Unbound,
         \A k \in Invocation \ {i} : pc'[k] = pc[k]
  PROVE  BrakeKept(i)
  <1>1. BrakeProcOK(i)'
    BY DEF Unbound, BrakeProcOK, AttemptsKnown
  <1>2. pc'[i] # "idle"
    BY DEF Unbound
  <1>3. QED
    BY <1>1, <1>2 DEF BrakeKept

\* The same for a move that writes no node and no attempt ...
LEMMA BrakeGoto ==
  ASSUME NEW i \in Invocation, BrakeKnown(i), NEW p \in Unbound, Goto(i, p),
         UNCHANGED <<state, attempt>>
  PROVE  BrakeKept(i)
  <1>1. p \in Phase /\ TypeOK /\ NodesUnbraked
    BY DEF Unbound, Phase, BrakeKnown, IInv
  <1>2. pc'[i] = p /\ \A k \in Invocation \ {i} : pc'[k] = pc[k]
    BY <1>1, GotoMoves
  <1>3. QED
    BY <1>1, <1>2, NodesStay, UnboundStep

\* ... for the end of an evaluation ...
LEMMA BrakeEnd ==
  ASSUME NEW i \in Invocation, BrakeKnown(i), NEW how \in Outcome, End(i, how),
         UNCHANGED <<state, attempt>>
  PROVE  BrakeKept(i)
  <1>1. Goto(i, "close") /\ "close" \in Unbound
    BY DEF End, Unbound
  <1>2. QED
    BY <1>1, BrakeGoto

\* ... and for a write of the Run record.
LEMMA BrakePutRun ==
  ASSUME NEW i \in Invocation, BrakeKnown(i), NEW s \in RunStatus, NEW started \in {"no", "yes"},
         NEW next \in Unbound, NEW how \in Outcome, PutRun(i, s, started, next, how),
         UNCHANGED <<state, attempt>>
  PROVE  BrakeKept(i)
  <1>1. Goto(i, next) \/ End(i, "failed")
    BY DEF PutRun
  <1>2. "failed" \in Outcome
    BY DEF Outcome
  <1>3. QED
    BY <1>1, <1>2, BrakeGoto, BrakeEnd

\* A Node State that may be written over what is in memory obeys the brake.
WriteOK(i, n, s, l, a, r) ==
    view[i].state[n] = state[n] /\ StateWritable(n, view[i].state[n], s, r) =>
        /\ s \in {"none", "WAITING", "BLOCKED"} => ~Braked(attempt, n)
        /\ s = "RUNNING" /\ a # None => ~Braked(Without(n, a), n)
        /\ \A j \in Invocation : attempt[n][j].no <= l + 1

\* A Node State is written over the version in memory.
LEMMA BrakeStateStep ==
  ASSUME NEW i \in Invocation, BrakeKnown(i), NEW n \in Node, NEW s \in NodeStatus, NEW l \in Nat,
         NEW a \in Invocation \cup {None}, NEW r \in BOOLEAN, NEW next \in Phase,
         PutState(i, n, s, l, a, r, next), UNCHANGED attempt,
         WriteOK(i, n, s, l, a, r)
  PROVE  /\ NodesUnbraked' /\ \A k \in Invocation \ {i} : pc'[k] = pc[k]
         /\ \/ WroteState(i, n, s, l, a) /\ pc'[i] = next
            \/ pc'[i] = "close"
  <1>1. TypeOK /\ SeenState(i, n) /\ NodesUnbraked
    BY DEF BrakeKnown, IInv, ProcOK
  <1>2. /\ \A k \in Invocation \ {i} : pc'[k] = pc[k]
        /\ \/ /\ StateWritable(n, view[i].state[n], s, r)
              /\ WroteState(i, n, s, l, a) /\ pc'[i] = next
           \/ pc'[i] = "close" /\ UNCHANGED <<state, view>>
    BY <1>1, PutStateMoves
  <1>3. CASE pc'[i] = "close" /\ UNCHANGED <<state, view>>
    BY <1>1, <1>2, <1>3, NodesStay
  <1>4. CASE /\ StateWritable(n, view[i].state[n], s, r)
             /\ WroteState(i, n, s, l, a) /\ pc'[i] = next
    <2>1. view[i].state[n] = state[n]
      BY <1>1, <1>4 DEF WroteState, SeenState
    <2>2. /\ state'[n].status = s /\ state'[n].latest = l /\ state'[n].active = a
          /\ \A m \in Node \ {n} : state'[m] = state[m]
      BY <1>4 DEF WroteState
    <2>3. BrakeNodeOK(n)'
      BY <1>4, <2>1, <2>2 DEF BrakeNodeOK, Without, WriteOK
    <2>4. ASSUME NEW m \in Node, m # n PROVE BrakeNodeOK(m)'
      BY <1>1, <2>2, <2>4 DEF NodesUnbraked, BrakeNodeOK, Without
    <2>5. NodesUnbraked'
      BY <2>3, <2>4 DEF NodesUnbraked
    <2>6. QED
      BY <1>2, <1>4, <2>5
  <1>5. QED
    BY <1>2, <1>3, <1>4

\* A node whose state and attempts stay keeps the brake's terms.
LEMMA BrakeNodeStays ==
  ASSUME TypeOK, attempt' \in [Node -> [Invocation -> AttemptRecord]], NEW n \in Node,
         \A k \in Invocation : attempt'[n][k] = attempt[n][k], state'[n] = state[n],
         BrakeNodeOK(n)
  PROVE  BrakeNodeOK(n)'
  <1>1. Braked(attempt', n) <=> Braked(attempt, n)
    BY BrakeDepends
  <1>2. ASSUME state[n].active # None
        PROVE  Braked(Without(n, state[n].active)', n) <=> Braked(Without(n, state[n].active), n)
    <2>1. PICK j \in Invocation : j = state[n].active
      BY <1>2 DEF TypeOK, StateRecord
    <2>2. Braked(Without(n, j)', n) <=> Braked(Without(n, j), n)
      BY BrakeWithoutStep
    <2>3. Without(n, state[n].active)' = [attempt' EXCEPT ![n][j] = NoAttempt]
      BY <2>1 DEF Without
    <2>4. Without(n, j)' = [attempt' EXCEPT ![n][j] = NoAttempt]
      BY DEF Without
    <2>5. QED
      BY <2>1, <2>2, <2>3, <2>4
  <1>3. QED
    BY <1>1, <1>2 DEF BrakeNodeOK

\* An attempt is written over the version in memory: its values, and what the
\* process knows of the attempts after it.
LEMMA AttemptValues ==
  ASSUME TypeOK, NEW i \in Invocation, NEW n \in Node, NEW j \in Invocation,
         NEW s \in {"RUNNING"} \cup Terminal, NEW code \in Code, NEW started \in {"no", "yes"},
         NEW next \in Phase, PutAttempt(i, n, j, s, code, started, next), pc'[i] # "close"
  PROVE  /\ attempt'[n][j].status = s /\ attempt'[n][j].code = code
         /\ view[i].attempt = attempt => view'[i].attempt = attempt'
  <1> DEFINE old == view[i].attempt[n][j]
             new == [old EXCEPT !.status = s, !.code = code, !.started = started,
                                !.rev = old.rev + 1]
  <1>1. old \in AttemptRecord
    BY DEF TypeOK, View
  <1>2. new.status = s /\ new.code = code
    <2>1. ASSUME NEW o \in AttemptRecord, NEW r
          PROVE  LET a == [o EXCEPT !.status = s, !.code = code, !.started = started, !.rev = r]
                 IN  a.status = s /\ a.code = code
      BY DEF AttemptRecord
    <2>2. QED
      BY <1>1, <2>1
  <1>3. ~End(i, "failed")
    BY EndMoves DEF Outcome
  <1>4. /\ attempt' = [attempt EXCEPT ![n][j] = new]
        /\ view' = [view EXCEPT ![i].attempt[n][j] = new]
    BY <1>3 DEF PutAttempt
  <1> HIDE DEF new
  <1>5. attempt'[n][j] = new
    BY <1>4 DEF TypeOK
  <1>6. view'[i].attempt = [view[i].attempt EXCEPT ![n][j] = new]
    BY <1>4 DEF TypeOK, View
  <1>7. QED
    BY <1>2, <1>4, <1>5, <1>6

\* The active attempt of a RUNNING node may be written: that attempt is left
\* out of what the invariant says of its node.
LEMMA BrakeAttemptStep ==
  ASSUME NEW i \in Invocation, BrakeKnown(i), NEW n \in Node, NEW j \in Invocation,
         NEW s \in {"RUNNING"} \cup Terminal, NEW code \in Code, NEW started \in {"no", "yes"},
         NEW next \in Phase, PutAttempt(i, n, j, s, code, started, next), UNCHANGED state,
         state[n].status = "RUNNING", state[n].active = j
  PROVE  /\ NodesUnbraked' /\ \A k \in Invocation \ {i} : pc'[k] = pc[k]
         /\ \/ pc'[i] = "close"
            \/ pc'[i] = next /\ view'[i].state = view[i].state
  <1>1. /\ TypeOK /\ NodesUnbraked /\ SeenAttempt(i, n, j) /\ WellFormed(attempt[n][j])
        /\ BrakeNodeOK(n)
    BY DEF BrakeKnown, IInv, ProcOK, NodeOK, AttemptOK, NodesUnbraked
  <1>2. /\ attempt' \in [Node -> [Invocation -> AttemptRecord]]
        /\ \A k \in Invocation \ {i} : pc'[k] = pc[k]
        /\ \/ pc'[i] = next /\ AttemptPut(i, n, j, s)
           \/ pc'[i] = "close" /\ UNCHANGED <<attempt, view>>
    BY <1>1, PutAttemptMoves
  <1>3. CASE pc'[i] = "close" /\ UNCHANGED <<attempt, view>>
    BY <1>1, <1>2, <1>3, NodesStay
  <1>4. CASE pc'[i] = next /\ AttemptPut(i, n, j, s)
    <2>1. /\ attempt[n][j].status = "RUNNING" /\ attempt[n][j].rev = view[i].attempt[n][j].rev
          /\ attempt'[n][j].no = view[i].attempt[n][j].no
          /\ \A m \in Node, k \in Invocation : m # n \/ k # j => attempt'[m][k] = attempt[m][k]
          /\ view'[i].state = view[i].state
      BY <1>4 DEF AttemptPut, WroteAttempt
    <2>2. attempt'[n][j].no = attempt[n][j].no
      BY <1>1, <2>1 DEF SeenAttempt, WellFormed
    <2>3. BrakeNodeOK(n)'
      <3>1. \A k \in Invocation : attempt'[n][k].no <= state'[n].latest + 1
        BY <1>1, <2>1, <2>2 DEF BrakeNodeOK
      <3>2. ~Braked(Without(n, j), n) /\ j # None
        BY <1>1, ExecutionAssumption DEF BrakeNodeOK
      <3>3. Braked(Without(n, j)', n) <=> Braked(Without(n, j), n)
        BY <1>1, <1>2, <2>1, BrakeWithoutStep
      <3>4. Without(n, state[n].active)' = Without(n, j)'
        BY DEF Without
      <3>5. QED
        BY <3>1, <3>2, <3>3, <3>4 DEF BrakeNodeOK
    <2>4. ASSUME NEW m \in Node, m # n PROVE BrakeNodeOK(m)'
      <3>1. BrakeNodeOK(m) /\ \A k \in Invocation : attempt'[m][k] = attempt[m][k]
        BY <1>1, <2>1, <2>4 DEF NodesUnbraked
      <3>2. QED
        BY <1>1, <1>2, <3>1, BrakeNodeStays
    <2>5. NodesUnbraked'
      BY <2>3, <2>4 DEF NodesUnbraked
    <2>6. QED
      BY <1>2, <1>4, <2>1, <2>5
  <1>5. QED
    BY <1>2, <1>3, <1>4

\* Nothing is started before the scheduler: a created Node State has no
\* attempts, a repaired one gets a terminal status.
LEMMA BrakePreparation ==
  ASSUME NEW i \in Invocation, BrakeKnown(i), Prepare(i)
  PROVE  BrakeKept(i)
  <1>1. TypeOK /\ NodesUnbraked /\ BrakeProcOK(i) /\ mode[i] # "RERUN_FROM"
    BY DEF BrakeKnown, IInv, NoRerun
  <1>2. CASE CreateInvocation(i)
    <2>1. PICK p \in Unbound : Goto(i, p)
      BY <1>2 DEF CreateInvocation, Unbound
    <2>2. QED
      BY <1>2, <2>1, BrakeGoto DEF CreateInvocation
  <1>3. CASE EnsureNodeStates(i)
    <2>1. CASE Goto(i, "reconcile") /\ UNCHANGED state
      BY <1>3, <2>1, BrakeGoto DEF EnsureNodeStates, Unbound
    <2>2. CASE \E n \in Node :
                  /\ state[n].status = "none"
                  /\ state' = [state EXCEPT ![n] =
                                  [status |-> "WAITING", rev |-> 1, latest |-> 0, active |-> None]]
                  /\ UNCHANGED pc
      <3>1. PICK n \in Node :
                  /\ state[n].status = "none"
                  /\ state' = [state EXCEPT ![n] =
                                  [status |-> "WAITING", rev |-> 1, latest |-> 0, active |-> None]]
                  /\ UNCHANGED pc
        BY <2>2
      <3>2. state[n].latest = 0 /\ BrakeNodeOK(n)
        BY <1>1, <3>1 DEF BrakeKnown, IInv, NodeOK, StateOK, NoState, NodesUnbraked
      <3>3. /\ state'[n].status = "WAITING" /\ state'[n].latest = 0 /\ UNCHANGED attempt
            /\ \A m \in Node \ {n} : state'[m] = state[m]
        BY <1>1, <1>3, <3>1 DEF TypeOK, EnsureNodeStates
      <3>4. BrakeNodeOK(n)'
        BY <3>1, <3>2, <3>3 DEF BrakeNodeOK
      <3>5. ASSUME NEW m \in Node, m # n PROVE BrakeNodeOK(m)'
        BY <1>1, <3>3, <3>5 DEF NodesUnbraked, BrakeNodeOK, Without
      <3>6. NodesUnbraked' /\ pc'[i] \in Unbound
        BY <1>3, <3>1, <3>4, <3>5 DEF NodesUnbraked, EnsureNodeStates, Unbound
      <3>7. QED
        BY <3>1, <3>6, UnboundStep
    <2>3. QED
      BY <1>3, <2>1, <2>2 DEF EnsureNodeStates
  <1>4. CASE ReconcileRead(i)
    BY <1>4, BrakeGoto DEF ReconcileRead, Unbound, records
  <1>5. CASE ApplyTerminalAttempt(i)
    <2>1. PICK n \in Node :
             /\ TerminalPending(view[i], n)
             /\ PutState(i, n, view[i].attempt[n][view[i].state[n].active].status,
                         view[i].state[n].latest, None, FALSE, "repair")
      BY <1>5 DEF ApplyTerminalAttempt
    <2>2. PICK s \in Terminal : s = view[i].attempt[n][view[i].state[n].active].status
      BY <2>1 DEF TerminalPending
    <2>3. PICK l \in Nat : l = view[i].state[n].latest
      BY <1>1, RecordTypes
    <2> DEFINE r == FALSE
    <2>4. PutState(i, n, s, l, None, r, "repair") /\ r \in BOOLEAN
      BY <2>1, <2>2, <2>3
    <2> HIDE DEF r
    <2>5. s \in NodeStatus /\ s \notin {"none", "WAITING", "BLOCKED", "RUNNING"} /\ "repair" \in Phase
      BY DEF Terminal, NodeStatus, Phase
    <2>6. WriteOK(i, n, s, l, None, r)
      BY <1>1, <2>3, <2>5 DEF NodesUnbraked, BrakeNodeOK, WriteOK
    <2>7. UNCHANGED attempt
      BY <1>5 DEF ApplyTerminalAttempt
    <2>8. /\ NodesUnbraked' /\ \A k \in Invocation \ {i} : pc'[k] = pc[k]
          /\ pc'[i] \in {"repair", "close"}
      BY <2>4, <2>5, <2>6, <2>7, BrakeStateStep
    <2>9. QED
      BY <2>8, UnboundStep DEF Unbound
  <1>6. CASE ApplyResolution(i)
    <2>1. PICK n \in Node, j \in Invocation :
             \E s \in view[i].resolved[n][j] :
                PutState(i, n, s, view[i].state[n].latest, None, TRUE, "repair")
      BY <1>6 DEF ApplyResolution
    <2>2. PICK s \in Outcomes : PutState(i, n, s, view[i].state[n].latest, None, TRUE, "repair")
      BY <1>1, <2>1, RecordTypes
    <2>3. PICK l \in Nat : l = view[i].state[n].latest
      BY <1>1, RecordTypes
    <2> DEFINE r == TRUE
    <2>4. PutState(i, n, s, l, None, r, "repair") /\ r \in BOOLEAN
      BY <2>2, <2>3
    <2> HIDE DEF r
    <2>5. s \in NodeStatus /\ s \notin {"none", "WAITING", "BLOCKED", "RUNNING"} /\ "repair" \in Phase
      BY DEF Outcomes, NodeStatus, Phase
    <2>6. WriteOK(i, n, s, l, None, r)
      BY <1>1, <2>3, <2>5 DEF NodesUnbraked, BrakeNodeOK, WriteOK
    <2>7. UNCHANGED attempt
      BY <1>6 DEF ApplyResolution
    <2>8. /\ NodesUnbraked' /\ \A k \in Invocation \ {i} : pc'[k] = pc[k]
          /\ pc'[i] \in {"repair", "close"}
      BY <2>4, <2>5, <2>6, <2>7, BrakeStateStep
    <2>9. QED
      BY <2>8, UnboundStep DEF Unbound
  <1>7. CASE FinishReconciliation(i)
    <2>1. UNCHANGED <<state, attempt>>
      BY <1>7 DEF FinishReconciliation
    <2>2. \/ \E how \in Outcome : End(i, how)
          \/ Goto(i, "begin")
      BY <1>1, <1>7 DEF FinishReconciliation, Outcome
    <2>3. "begin" \in Unbound
      BY DEF Unbound
    <2>4. QED
      BY <2>1, <2>2, <2>3, BrakeEnd, BrakeGoto
  <1>8. ~RerunRead(i) /\ ~RerunReset(i)
    BY <1>1 DEF BrakeProcOK, RerunRead, RerunReset
  <1>9. QED
    BY <1>2, <1>3, <1>4, <1>5, <1>6, <1>7, <1>8 DEF Prepare

\* The scheduler before the loop: a RESUME counts the attempts it has read
\* after it adjudicated the orphans.
LEMMA BrakeOrphans ==
  ASSUME NEW i \in Invocation, BrakeKnown(i),
         ReadOrphans(i) \/ AdjudicateOrphan(i) \/ FinalizeOrphanState(i) \/ FinalizeAbandoned(i)
  PROVE  BrakeKept(i)
  <1>1. TypeOK /\ NodesUnbraked /\ BrakeProcOK(i) /\ ProcOK(i)
    BY DEF BrakeKnown, IInv
  <1>2. CASE ReadOrphans(i)
    <2>1. pc'[i] = "orphan" /\ \A k \in Invocation \ {i} : pc'[k] = pc[k]
      BY <1>1, <1>2, GotoMoves DEF ReadOrphans, Phase
    <2>2. /\ UNCHANGED <<state, attempt>>
          /\ view' = [view EXCEPT ![i].state = state, ![i].attempt = attempt]
          /\ \A n \in todo'[i] : n \in Node /\ state[n].status = "RUNNING"
      BY <1>1, <1>2 DEF ReadOrphans, records, TypeOK
    <2>3. view'[i].state = state /\ view'[i].attempt = attempt
      BY <1>1, <2>2, RecordsRead
    <2>4. NodesUnbraked'
      BY <1>1, <2>2, NodesStay
    <2>5. BrakeProcOK(i)'
      BY <2>1, <2>2, <2>3 DEF BrakeProcOK
    <2>6. QED
      BY <2>1, <2>4, <2>5 DEF BrakeKept
  <1>3. CASE AdjudicateOrphan(i)
    <2>1. /\ pc[i] = "orphan" /\ UNCHANGED <<state, todo, mode>>
          /\ view[i].attempt = attempt
          /\ \A n \in todo[i] : view[i].state[n] = state[n] /\ state[n].status = "RUNNING"
      BY <1>1, <1>3 DEF AdjudicateOrphan, BrakeProcOK, AttemptsKnown
    <2>2. CASE Goto(i, "abandon") /\ UNCHANGED <<attempt, view>>
      <3>1. pc'[i] = "abandon" /\ \A k \in Invocation \ {i} : pc'[k] = pc[k]
        BY <1>1, <2>2, GotoMoves DEF Phase
      <3>2. NodesUnbraked' /\ BrakeProcOK(i)'
        BY <1>1, <2>1, <2>2, <3>1, NodesStay DEF BrakeProcOK
      <3>3. QED
        BY <3>1, <3>2 DEF BrakeKept
    <2>3. CASE \E n \in todo[i] :
                  PutAttempt(i, n, view[i].state[n].active, decision[i][n].status,
                             decision[i][n].code,
                             view[i].attempt[n][view[i].state[n].active].started, "orphanState")
      <3>1. PICK n \in todo[i] :
                  PutAttempt(i, n, view[i].state[n].active, decision[i][n].status,
                             decision[i][n].code,
                             view[i].attempt[n][view[i].state[n].active].started, "orphanState")
        BY <2>3
      <3>2. n \in Node /\ OrphanOK(i, n)
        BY <1>1, <2>1 DEF TypeOK, ProcOK, PhaseOK
      <3>3. PICK j \in Invocation : j = view[i].state[n].active
        BY <3>2 DEF OrphanOK
      <3>4. decision[i][n] \in Decision /\ view[i].attempt[n][j].started \in {"no", "yes"}
        BY <1>1, <3>2, RecordTypes
      <3>5. PICK s \in {"RUNNING"} \cup Terminal : s = decision[i][n].status
        BY <3>2, <3>4 DEF OrphanOK, Decision
      <3>6. PICK c \in Code : c = decision[i][n].code
        BY <3>4 DEF Decision
      <3>7. PICK st \in {"no", "yes"} : st = view[i].attempt[n][j].started
        BY <3>4
      <3>8. PutAttempt(i, n, j, s, c, st, "orphanState") /\ n \in Node
        BY <3>1, <3>2, <3>3, <3>5, <3>6, <3>7
      <3>9. state[n].status = "RUNNING" /\ state[n].active = j /\ "orphanState" \in Phase
        BY <2>1, <3>1, <3>3 DEF Phase
      <3>10. /\ NodesUnbraked' /\ \A k \in Invocation \ {i} : pc'[k] = pc[k]
             /\ \/ pc'[i] = "close"
                \/ pc'[i] = "orphanState" /\ view'[i].state = view[i].state
        BY <2>1, <3>8, <3>9, BrakeAttemptStep
      <3>11. CASE pc'[i] = "close"
        BY <3>10, <3>11, UnboundStep DEF Unbound
      <3>12. CASE pc'[i] = "orphanState" /\ view'[i].state = view[i].state
        <4>1. view'[i].attempt = attempt'
          BY <1>1, <2>1, <3>8, <3>9, <3>12, AttemptValues
        <4>2. BrakeProcOK(i)'
          BY <2>1, <3>12, <4>1 DEF BrakeProcOK
        <4>3. QED
          BY <3>10, <3>12, <4>2 DEF BrakeKept
      <3>13. QED
        BY <3>10, <3>11, <3>12
    <2>4. QED
      BY <1>3, <2>2, <2>3 DEF AdjudicateOrphan
  <1>4. CASE FinalizeOrphanState(i)
    <2>1. /\ pc[i] = "orphanState" /\ UNCHANGED <<attempt, mode>>
          /\ view[i].attempt = attempt
          /\ \A n \in todo[i] : view[i].state[n] = state[n] /\ state[n].status = "RUNNING"
      BY <1>1, <1>4 DEF FinalizeOrphanState, BrakeProcOK, AttemptsKnown
    <2>2. PICK n \in Node : n = Order[at[i]] /\ n \in todo[i]
      BY <1>1, <2>1, NodeOfPhase DEF NodePhaseOK, BrakeKnown
    <2>3. PICK s \in Terminal : s = decision[i][n].status
      BY <1>1, <2>1, <2>2, RecordTypes DEF ProcOK, PhaseOK, OrphanOK, Decision
    <2>4. PICK l \in Nat : l = view[i].state[n].latest
      BY <1>1, RecordTypes
    <2> DEFINE r == FALSE
    <2>5. /\ PutState(i, n, s, l, None, r, "orphan") /\ r \in BOOLEAN
          /\ todo' = [todo EXCEPT ![i] = @ \ {n}]
      BY <1>4, <2>2, <2>3, <2>4 DEF FinalizeOrphanState
    <2> HIDE DEF r
    <2>6. s \in NodeStatus /\ s \notin {"none", "WAITING", "BLOCKED", "RUNNING"} /\ "orphan" \in Phase
      BY DEF Terminal, NodeStatus, Phase
    <2>7. WriteOK(i, n, s, l, None, r)
      BY <1>1, <2>1, <2>2, <2>4, <2>6 DEF NodesUnbraked, BrakeNodeOK, WriteOK
    <2>8. /\ NodesUnbraked' /\ \A k \in Invocation \ {i} : pc'[k] = pc[k]
          /\ \/ WroteState(i, n, s, l, None) /\ pc'[i] = "orphan"
             \/ pc'[i] = "close"
      BY <2>1, <2>5, <2>6, <2>7, BrakeStateStep
    <2>9. CASE pc'[i] = "close"
      BY <2>8, <2>9, UnboundStep DEF Unbound
    <2>10. CASE WroteState(i, n, s, l, None) /\ pc'[i] = "orphan"
      <3>1. /\ view'[i].attempt = attempt'
            /\ \A m \in Node \ {n} : state'[m] = state[m] /\ view'[i].state[m] = view[i].state[m]
        BY <2>1, <2>10 DEF WroteState
      <3>2. \A m \in todo'[i] : m \in todo[i] /\ m \in Node /\ m # n
        BY <1>1, <2>5 DEF TypeOK
      <3>3. BrakeProcOK(i)'
        BY <2>1, <2>10, <3>1, <3>2 DEF BrakeProcOK
      <3>4. QED
        BY <2>8, <2>10, <3>3 DEF BrakeKept
    <2>11. QED
      BY <2>8, <2>9, <2>10
  <1>5. CASE FinalizeAbandoned(i)
    <2>1. /\ pc[i] = "abandon" /\ UNCHANGED <<state, attempt, view, mode>>
          /\ view[i].attempt = attempt
          /\ UNCHANGED pc \/ Goto(i, "prepareRead")
      BY <1>1, <1>5 DEF FinalizeAbandoned, scratch, BrakeProcOK, AttemptsKnown
    <2>2. pc'[i] \in {"abandon", "prepareRead"} /\ \A k \in Invocation \ {i} : pc'[k] = pc[k]
      BY <1>1, <2>1, GotoMoves DEF Phase
    <2>3. NodesUnbraked' /\ BrakeProcOK(i)'
      BY <1>1, <2>1, <2>2, NodesStay DEF BrakeProcOK
    <2>4. QED
      BY <2>2, <2>3 DEF BrakeKept
  <1>6. QED
    BY <1>2, <1>3, <1>4, <1>5

\* The aggregate and the moves of the loop leave nodes and attempts alone.
LEMMA BrakeMoves ==
  ASSUME NEW i \in Invocation, BrakeKnown(i),
         \/ EnsureRunStarted(i) \/ PrepareDone(i) \/ PassNode(i) \/ StopCheck(i) \/ AcceptStop(i)
         \/ StartRefused(i) \/ UpdateAggregate(i) \/ FinishLoop(i) \/ LeaseInterrupted(i)
         \/ Launch(i)
  PROVE  BrakeKept(i)
  <1>1. /\ TypeOK /\ NodesUnbraked /\ BrakeProcOK(i) /\ UNCHANGED <<state, attempt, mode>>
        /\ mode[i] # "RERUN_FROM"
    BY DEF BrakeKnown, IInv, NoRerun, EnsureRunStarted, PrepareDone, PassNode, StopCheck,
           AcceptStop, StartRefused, UpdateAggregate, FinishLoop, LeaseInterrupted, Launch,
           records, scratch
  <1>2. CASE EnsureRunStarted(i)
    <2>1. PICK p \in {"prepareRead", "orphanRead"} :
             /\ p = "prepareRead" => mode[i] = "NEW"
             /\ \/ PutRun(i, "RUNNING", "yes", p, "none")
                \/ Goto(i, p)
      BY <1>2 DEF EnsureRunStarted
    <2>2. "RUNNING" \in RunStatus /\ "none" \in Outcome /\ p \in Phase
      BY DEF RunStatus, Outcome, Phase
    <2>3. pc'[i] \in {p, "close"} /\ \A k \in Invocation \ {i} : pc'[k] = pc[k]
      BY <1>1, <2>1, <2>2, PutRunMoves, GotoMoves
    <2>4. NodesUnbraked'
      BY <1>1, NodesStay
    <2>5. BrakeProcOK(i)'
      BY <1>1, <2>1, <2>3 DEF BrakeProcOK, AttemptsKnown
    <2>6. QED
      BY <2>3, <2>4, <2>5 DEF BrakeKept
  <1>3. CASE UpdateAggregate(i) \/ FinishLoop(i)
    <2>1. PICK s \in RunStatus : s = Aggregate(Statuses(view[i]), view[i].run.started)
      BY AggregateType
    <2>2. PICK st \in {"no", "yes"} : st = view[i].run.started
      BY <1>1 DEF TypeOK, View, RunRecord
    <2>3. PICK p \in {"loop", "close"}, how \in {"drained", "none", "finished"} :
             PutRun(i, s, st, p, how)
      BY <1>3, <2>1, <2>2 DEF UpdateAggregate, FinishLoop
    <2>4. how \in Outcome /\ p \in Unbound
      BY DEF Outcome, Unbound
    <2>5. QED
      BY <1>1, <2>3, <2>4, BrakePutRun
  <1>4. CASE \E how \in {"stopped", "interrupted"} : End(i, how)
    BY <1>1, <1>4, BrakeEnd DEF Outcome
  <1>5. CASE \E p \in {"loop", "finish", "accept", "start", "wait"} : Goto(i, p)
    <2>1. PICK p \in {"loop", "finish", "accept", "start", "wait"} : Goto(i, p)
      BY <1>5
    <2>2. p \in Unbound
      BY DEF Unbound
    <2>3. QED
      BY <1>1, <2>1, <2>2, BrakeGoto
  <1>6. CASE PassNode(i) /\ UNCHANGED pc
    <2>1. pc'[i] = "loop" /\ "loop" \in Unbound
      BY <1>6 DEF PassNode, Unbound
    <2>2. QED
      BY <1>1, <1>6, <2>1, NodesStay, UnboundStep
  <1>7. QED
    BY <1>2, <1>3, <1>4, <1>5, <1>6 DEF PrepareDone, PassNode, StopCheck, AcceptStop,
       StartRefused, LeaseInterrupted, Launch

\* A RESUME resets a BLOCKED node, or a failed one that is not braked by the
\* attempts on record.
LEMMA BrakeResume ==
  ASSUME NEW i \in Invocation, BrakeKnown(i), ReadStates(i) \/ PrepareResumeState(i)
  PROVE  BrakeKept(i)
  <1>1. TypeOK /\ NodesUnbraked /\ BrakeProcOK(i) /\ UNCHANGED <<attempt, mode>>
    BY DEF BrakeKnown, IInv, ReadStates, PrepareResumeState, records
  <1>2. CASE ReadStates(i)
    <2>1. pc'[i] = "prepare" /\ \A k \in Invocation \ {i} : pc'[k] = pc[k]
      BY <1>1, <1>2, GotoMoves DEF ReadStates, Phase
    <2>2. UNCHANGED state /\ view'[i].attempt = view[i].attempt
      BY <1>1, <1>2, StatesRead DEF ReadStates, records
    <2>3. NodesUnbraked'
      BY <1>1, <2>2, NodesStay
    <2>4. BrakeProcOK(i)'
      BY <1>1, <1>2, <2>1, <2>2 DEF BrakeProcOK, AttemptsKnown, ReadStates, TypeOK
    <2>5. QED
      BY <2>1, <2>3, <2>4 DEF BrakeKept
  <1>3. CASE PrepareResumeState(i)
    <2>1. PICK n \in todo[i] :
             \/ PutState(i, n, view[i].state[n].status, view[i].state[n].latest,
                         view[i].state[n].active, FALSE, "prepare")
                /\ HeldByBrake(view[i], n)
             \/ /\ view[i].state[n].status = "BLOCKED" \/ Retryable(view[i], n)
                /\ ~HeldByBrake(view[i], n)
                /\ PutState(i, n, "WAITING", view[i].state[n].latest, None, FALSE, "prepare")
             \/ UNCHANGED <<state, view, pc>>
      BY <1>3 DEF PrepareResumeState
    <2>2. n \in Node /\ pc[i] = "prepare"
      BY <1>1, <1>3 DEF TypeOK, PrepareResumeState
    <2>3. mode[i] = "RESUME"
      BY <1>1, <2>2 DEF BrakeProcOK
    <2>4. CASE UNCHANGED <<state, view, pc>>
      <3>1. BrakeProcOK(i)'
        BY <1>1, <2>2, <2>4, <2>3 DEF BrakeProcOK, AttemptsKnown
      <3>2. QED
        BY <1>1, <2>2, <2>4, <3>1, NodesStay DEF BrakeKept
    <2>5. ASSUME NEW s \in NodeStatus, NEW l \in Nat, NEW a \in Invocation \cup {None},
                 NEW r \in BOOLEAN, PutState(i, n, s, l, a, r, "prepare"),
                 WriteOK(i, n, s, l, a, r)
          PROVE  BrakeKept(i)
      <3>1. "prepare" \in Phase
        BY DEF Phase
      <3>2. /\ NodesUnbraked' /\ \A k \in Invocation \ {i} : pc'[k] = pc[k]
            /\ \/ WroteState(i, n, s, l, a) /\ pc'[i] = "prepare"
               \/ pc'[i] = "close"
        BY <1>1, <2>2, <2>5, <3>1, BrakeStateStep
      <3>3. CASE pc'[i] = "close"
        BY <3>2, <3>3, UnboundStep DEF Unbound
      <3>4. CASE WroteState(i, n, s, l, a) /\ pc'[i] = "prepare"
        <4>1. BrakeProcOK(i)'
          BY <1>1, <2>2, <2>3, <3>4 DEF BrakeProcOK, AttemptsKnown, WroteState
        <4>2. QED
          BY <3>2, <3>4, <4>1 DEF BrakeKept
      <3>5. QED
        BY <3>2, <3>3, <3>4
    <2>6. PICK l \in Nat, s \in NodeStatus, a \in Invocation \cup {None} :
             l = view[i].state[n].latest /\ s = view[i].state[n].status
             /\ a = view[i].state[n].active
      BY <1>1, <2>2, RecordTypes
    <2> DEFINE r == FALSE
    <2>7. r \in BOOLEAN /\ "WAITING" \in NodeStatus
      BY DEF NodeStatus
    <2>8. view[i].state[n] = state[n] => \A j \in Invocation : attempt[n][j].no <= l + 1
      BY <1>1, <2>2, <2>6 DEF NodesUnbraked, BrakeNodeOK
    <2>9. CASE /\ PutState(i, n, view[i].state[n].status, view[i].state[n].latest,
                           view[i].state[n].active, FALSE, "prepare")
               /\ HeldByBrake(view[i], n)
      <3>1. PutState(i, n, s, l, a, r, "prepare") /\ s \in {"FAILED", "CANCELLED"}
        BY <2>6, <2>9 DEF HeldByBrake, Retryable
      <3> HIDE DEF r
      <3>2. WriteOK(i, n, s, l, a, r)
        BY <2>8, <3>1 DEF WriteOK
      <3>3. QED
        BY <2>5, <2>7, <3>1, <3>2
    <2>10. CASE /\ view[i].state[n].status = "BLOCKED" \/ Retryable(view[i], n)
               /\ ~HeldByBrake(view[i], n)
               /\ PutState(i, n, "WAITING", view[i].state[n].latest, None, FALSE, "prepare")
      <3>1. PutState(i, n, "WAITING", l, None, r, "prepare")
        BY <2>6, <2>10
      <3> HIDE DEF r
      <3>3. view[i].attempt = attempt
        BY <1>1, <2>2, <2>3 DEF BrakeProcOK, AttemptsKnown
      <3>4. view[i].state[n] = state[n] => ~Braked(attempt, n)
        BY <1>1, <2>2, <2>10, <3>3 DEF HeldByBrake, NodesUnbraked, BrakeNodeOK
      <3>5. WriteOK(i, n, "WAITING", l, None, r)
        BY <2>8, <3>4 DEF WriteOK
      <3>6. QED
        BY <2>5, <2>7, <3>1, <3>5
    <2>11. QED
      BY <2>1, <2>4, <2>9, <2>10
  <1>4. QED
    BY <1>2, <1>3

\* A WAITING or BLOCKED node is blocked; a new attempt is the newest one and
\* has not failed; the claimed node is RUNNING.
LEMMA BrakeStart ==
  ASSUME NEW i \in Invocation, BrakeKnown(i), BlockNode(i) \/ CreateAttempt(i) \/ ClaimNode(i)
  PROVE  BrakeKept(i)
  <1>1. TypeOK /\ NodesUnbraked /\ BrakeProcOK(i) /\ OwnerOK(i) /\ IInv /\ UNCHANGED <<at, mode>>
    BY DEF BrakeKnown, IInv, XInv, BlockNode, CreateAttempt, ClaimNode, scratch
  <1>2. CASE BlockNode(i)
    <2>1. pc[i] = "loop" /\ at[i] <= Len(Order) /\ UNCHANGED attempt
      BY <1>2 DEF BlockNode, InLoop
    <2>2. PICK n \in Node : n = Order[at[i]]
      <3>1. at[i] \in 1..Len(Order) + 1 /\ Len(Order) \in Nat
        BY <1>1, <2>1, Positions DEF IInv, ProcOK, PhaseOK, AtOK
      <3>2. at[i] \in 1..Len(Order)
        BY <2>1, <3>1
      <3>3. QED
        BY <3>2, Positions
    <2>3. PICK l \in Nat, a \in Invocation \cup {None} :
             l = view[i].state[n].latest /\ a = view[i].state[n].active
      BY <1>1, RecordTypes
    <2> DEFINE r == FALSE
    <2>4. PutState(i, n, "BLOCKED", l, a, r, "blocked") /\ r \in BOOLEAN /\ r = FALSE
      BY <1>2, <2>2, <2>3 DEF BlockNode
    <2> HIDE DEF r
    <2>5. "BLOCKED" \in NodeStatus /\ "blocked" \in Phase
      BY DEF NodeStatus, Phase
    <2>6. StateWritable(n, view[i].state[n], "BLOCKED", r) => state[n].status \in {"WAITING", "BLOCKED"}
      BY <2>4 DEF StateWritable, AllowedTransition, Terminal
    <2>7. WriteOK(i, n, "BLOCKED", l, a, r)
      BY <1>1, <2>3, <2>6 DEF WriteOK, NodesUnbraked, BrakeNodeOK
    <2>8. /\ NodesUnbraked' /\ \A k \in Invocation \ {i} : pc'[k] = pc[k]
          /\ pc'[i] \in {"blocked", "close"}
      BY <2>1, <2>4, <2>5, <2>7, BrakeStateStep
    <2>9. QED
      BY <2>8, UnboundStep DEF Unbound
  <1>3. CASE CreateAttempt(i) /\ End(i, "failed") /\ UNCHANGED attempt
    BY <1>3, BrakeEnd DEF CreateAttempt, Outcome
  <1>4. CASE CreateAttempt(i) /\ ~(End(i, "failed") /\ UNCHANGED attempt)
    <2>1. pc[i] = "start" /\ UNCHANGED state
      BY <1>4 DEF CreateAttempt
    <2>2. PICK n \in Node : n = Order[at[i]] /\ NodePhaseOK(i, n) /\ ProcOK(i) /\ NodeOK(n)
      BY <1>1, <2>1, NodeOfPhase
    <2> DEFINE no == view[i].state[n].latest + 1
               new == [NoAttempt EXCEPT !.status = "RUNNING", !.rev = 1, !.no = no,
                                        !.before = view[i].state[n].rev]
    <2>3. /\ attempt' = [attempt EXCEPT ![n][i] = new]
          /\ view' = [view EXCEPT ![i].attempt[n][i] = new]
          /\ ~\E j \in Invocation : attempt[n][j].no = no
          /\ Goto(i, "claim")
      BY <1>4, <2>2 DEF CreateAttempt
    <2>4. view[i].state[n] = state[n] /\ state[n].status = "WAITING"
      BY <1>1, <2>1, <2>2 DEF NodePhaseOK, OwnerOK, SyncedOK, Evaluating
    <2>5. new \in AttemptRecord /\ new.status = "RUNNING" /\ new.no = no /\ no \in Nat
      <3>1. no \in Nat /\ 1 \in Nat /\ view[i].state[n].rev \in Nat
        BY <1>1, RecordTypes
      <3> HIDE DEF no
      <3>2. QED
        BY <3>1, TypesOfNothing DEF AttemptRecord, NoAttempt
    <2> HIDE DEF new
    <2>6. /\ attempt' \in [Node -> [Invocation -> AttemptRecord]]
          /\ WroteAttempt(i, n, i, new)
      BY <1>1, <2>3, <2>5, AttemptWritten
    <2>7. /\ attempt'[n][i] = new /\ view'[i].state = view[i].state
          /\ \A m \in Node, k \in Invocation : m # n \/ k # i => attempt'[m][k] = attempt[m][k]
      BY <2>6 DEF WroteAttempt
    <2>8. BrakeNodeOK(n) /\ \A j \in Invocation : attempt[n][j].no <= state[n].latest + 1
      BY <1>1 DEF NodesUnbraked, BrakeNodeOK
    <2>9. \A j \in Invocation : attempt'[n][j].no \in Nat /\ attempt'[n][j].no <= no
      BY <2>4, <2>5, <2>6, <2>7, <2>8 DEF AttemptRecord
    <2>10. ~Braked(attempt', n)
      BY <2>5, <2>7, <2>9, BrakeReleased
    <2>11. BrakeNodeOK(n)'
      BY <2>1, <2>4, <2>9, <2>10 DEF BrakeNodeOK
    <2>12. ASSUME NEW m \in Node, m # n PROVE BrakeNodeOK(m)'
      <3>1. BrakeNodeOK(m) /\ state'[m] = state[m]
        BY <1>1, <2>1 DEF NodesUnbraked
      <3>2. QED
        BY <1>1, <2>6, <2>7, <2>12, <3>1, BrakeNodeStays
    <2>13. pc'[i] = "claim" /\ \A k \in Invocation \ {i} : pc'[k] = pc[k]
      BY <1>1, <2>3, GotoMoves DEF Phase
    <2>14. ~Braked(Without(n, i)', n)
      <3>1. attempt[n][i].no = 0
        <4>1. Ahead(i, n)
          BY <1>1, <2>1, <2>2, NodeOfPhase DEF Ahead
        <4>2. QED
          BY <2>2, <4>1 DEF ProcOK, FreshOK
      <3>2. Uncounted(attempt[n][i])
        BY <2>2, <3>1 DEF NodeOK, AttemptOK, WellFormed, Uncounted
      <3>3. ~Braked(attempt, n)
        BY <2>4, <2>8 DEF BrakeNodeOK
      <3>4. ~Braked(Without(n, i), n)
        BY <1>1, <3>2, <3>3, BrakeWithout
      <3>5. QED
        BY <1>1, <2>6, <2>7, <3>4, BrakeWithoutStep
    <2>15. BrakeProcOK(i)'
      <3>1. at'[i] = at[i] /\ attempt'[n][i].no = view'[i].state[n].latest + 1
        BY <1>1, <2>5, <2>7
      <3>2. ClaimOK(i, n)'
        BY <2>14, <3>1 DEF ClaimOK
      <3>3. QED
        BY <2>2, <2>13, <3>1, <3>2 DEF BrakeProcOK, AttemptsKnown
    <2>16. QED
      BY <2>11, <2>12, <2>13, <2>15 DEF BrakeKept, NodesUnbraked
  <1>5. CASE ClaimNode(i)
    <2>1. pc[i] = "claim" /\ UNCHANGED attempt
      BY <1>5 DEF ClaimNode
    <2>2. PICK n \in Node : n = Order[at[i]] /\ NodePhaseOK(i, n) /\ ProcOK(i)
      BY <1>1, <2>1, NodeOfPhase DEF InNode
    <2>3. PICK l \in Nat : l = view[i].attempt[n][i].no
      BY <1>1, RecordTypes
    <2> DEFINE r == FALSE
    <2>4. PutState(i, n, "RUNNING", l, i, r, "ready") /\ r \in BOOLEAN
      BY <1>5, <2>2, <2>3 DEF ClaimNode
    <2> HIDE DEF r
    <2>5. "RUNNING" \in NodeStatus /\ "ready" \in Phase
      BY DEF NodeStatus, Phase
    <2>6. l = attempt[n][i].no
      BY <2>1, <2>2, <2>3 DEF NodePhaseOK, ProcOK, SeenAttempt, InNode
    <2>7. ClaimOK(i, n)
      BY <1>1, <2>1, <2>2 DEF BrakeProcOK
    <2>8. \A j \in Invocation : attempt[n][j].no \in Nat
      BY <1>1, RecordTypes
    <2>9. WriteOK(i, n, "RUNNING", l, i, r)
      BY <1>1, <2>6, <2>7, <2>8 DEF WriteOK, ClaimOK, NodesUnbraked, BrakeNodeOK
    <2>10. /\ NodesUnbraked' /\ \A k \in Invocation \ {i} : pc'[k] = pc[k]
           /\ pc'[i] \in {"ready", "close"}
      BY <2>1, <2>4, <2>5, <2>9, BrakeStateStep
    <2>11. QED
      BY <2>10, UnboundStep DEF Unbound
  <1>6. QED
    BY <1>2, <1>3, <1>4, <1>5

\* What is decided PREPARE_FAILED is CANCELLED, and is not counted when its
\* node returns to WAITING.
LEMMA BrakeDecide ==
  ASSUME NEW i \in Invocation, BrakeKnown(i),
         OutputPathRejected(i) \/ ClassifyResult(i) \/ AuthorizeResult(i)
  PROVE  BrakeKept(i)
  <1>1. /\ TypeOK /\ NodesUnbraked /\ BrakeProcOK(i) /\ IInv
        /\ UNCHANGED <<state, attempt, view, at, mode, todo>>
        /\ pc[i] \in {"ready", "wait", "authorize"}
    BY DEF BrakeKnown, IInv, OutputPathRejected, ClassifyResult, AuthorizeResult, records
  <1>2. PICK p \in {"authorize", "persist"} : Goto(i, p)
    BY DEF OutputPathRejected, ClassifyResult, AuthorizeResult
  <1>3. pc'[i] = p /\ \A k \in Invocation \ {i} : pc'[k] = pc[k]
    BY <1>1, <1>2, GotoMoves DEF Phase
  <1>4. PICK n \in Node : n = Order[at[i]]
    BY <1>1, NodeOfPhase DEF InNode
  <1>5. decision'[i][n].code = "PREPARE_FAILED" => decision'[i][n].status = "CANCELLED"
    <2>1. CASE OutputPathRejected(i)
      <3>1. Decide(i, "FAILED", "IO_PATH") /\ "FAILED" \in Terminal /\ "IO_PATH" \in Code
        BY <2>1 DEF OutputPathRejected, Terminal, Code
      <3>2. decision'[i][n].code = "IO_PATH"
        BY <1>1, <1>4, <3>1, DecideMoves
      <3>3. QED
        BY <3>2
    <2>2. CASE ClassifyResult(i)
      <3>1. PICK c \in Classified(job[n][i]) : Decide(i, c[1], c[2])
        BY <1>4, <2>2 DEF ClassifyResult
      <3>2. /\ c[1] \in Terminal /\ c[2] \in Code
            /\ c[2] = "PREPARE_FAILED" => c[1] = "CANCELLED"
        BY <3>1 DEF Classified, Terminal, Code, Outcomes
      <3>3. PICK s \in Terminal, k \in Code : s = c[1] /\ k = c[2]
        BY <3>2
      <3>4. decision'[i][n].status = s /\ decision'[i][n].code = k
        BY <1>1, <1>4, <3>1, <3>3, DecideMoves
      <3>5. QED
        BY <3>2, <3>3, <3>4
    <2>3. CASE AuthorizeResult(i)
      BY <1>1, <1>4, <2>3 DEF AuthorizeResult, BrakeProcOK, ResultOK
    <2>4. QED
      BY <2>1, <2>2, <2>3
  <1>6. BrakeProcOK(i)'
    <2>1. ResultOK(i, n)'
      BY <1>3, <1>5 DEF ResultOK
    <2>2. QED
      BY <1>1, <1>3, <1>4, <2>1 DEF BrakeProcOK, AttemptsKnown
  <1>7. QED
    BY <1>1, <1>3, <1>6, NodesStay DEF BrakeKept

\* From the start of the job to its result: only an attempt that never began
\* sends its node back to WAITING.
LEMMA BrakeResult ==
  ASSUME NEW i \in Invocation, BrakeKnown(i),
         SetAttemptExecutionStarted(i) \/ FinalizeAttempt(i) \/ ApplyResult(i)
  PROVE  BrakeKept(i)
  <1>1. /\ TypeOK /\ NodesUnbraked /\ BrakeProcOK(i) /\ IInv /\ OwnerOK(i)
        /\ pc[i] \in InNode \ {"claim"} /\ UNCHANGED <<at, mode, decision>>
    BY DEF BrakeKnown, IInv, XInv, SetAttemptExecutionStarted, FinalizeAttempt, ApplyResult,
           InNode, scratch
  <1>2. PICK n \in Node : n = Order[at[i]] /\ NodePhaseOK(i, n)
    BY <1>1, NodeOfPhase
  <1>3. view[i].state[n] = state[n] /\ state[n].status = "RUNNING" /\ state[n].active = i
    BY <1>1, <1>2 DEF NodePhaseOK, OwnerOK, SyncedOK, Evaluating
  <1>4. CASE SetAttemptExecutionStarted(i)
    <2>1. PutAttempt(i, n, i, "RUNNING", "PENDING", "yes", "launch") /\ UNCHANGED state
      BY <1>2, <1>4 DEF SetAttemptExecutionStarted
    <2>2. "PENDING" \in Code /\ "RUNNING" \in {"RUNNING"} \cup Terminal /\ "launch" \in Phase
      BY DEF Code, Phase
    <2>3. /\ NodesUnbraked' /\ \A k \in Invocation \ {i} : pc'[k] = pc[k]
          /\ pc'[i] \in {"launch", "close"}
      BY <1>3, <2>1, <2>2, BrakeAttemptStep
    <2>4. QED
      BY <2>3, UnboundStep DEF Unbound
  <1>5. CASE FinalizeAttempt(i)
    <2>1. pc[i] = "persist" /\ UNCHANGED state
      BY <1>5 DEF FinalizeAttempt
    <2>2. PICK s \in {"RUNNING"} \cup Terminal, c \in Code, st \in {"no", "yes"} :
             /\ s = decision[i][n].status /\ c = decision[i][n].code
             /\ st = view[i].attempt[n][i].started
      BY <1>1, <1>2, <2>1, RecordTypes DEF NodePhaseOK, Decision
    <2>3. PutAttempt(i, n, i, s, c, st, "apply") /\ "apply" \in Phase
      BY <1>2, <1>5, <2>2 DEF FinalizeAttempt, Phase
    <2>4. /\ NodesUnbraked' /\ \A k \in Invocation \ {i} : pc'[k] = pc[k]
          /\ pc'[i] \in {"apply", "close"}
      BY <1>3, <2>1, <2>3, BrakeAttemptStep
    <2>5. CASE pc'[i] = "close"
      BY <2>4, <2>5, UnboundStep DEF Unbound
    <2>6. CASE pc'[i] = "apply"
      <3>1. attempt'[n][i].status = s /\ attempt'[n][i].code = c
        BY <1>1, <2>3, <2>6, AttemptValues
      <3>2. ResultOK(i, n)
        BY <1>1, <1>2, <2>1 DEF BrakeProcOK
      <3>3. ResultOK(i, n)'
        BY <1>1, <2>2, <3>1, <3>2 DEF ResultOK
      <3>4. BrakeProcOK(i)'
        BY <1>1, <1>2, <2>6, <3>3 DEF BrakeProcOK, AttemptsKnown
      <3>5. QED
        BY <2>4, <2>6, <3>4 DEF BrakeKept
    <2>7. QED
      BY <2>4, <2>5, <2>6
  <1>6. CASE ApplyResult(i)
    <2>1. pc[i] = "apply" /\ UNCHANGED attempt
      BY <1>6 DEF ApplyResult
    <2>2. decision[i][n].status \in Terminal
      BY <1>1, <1>2, <2>1, RecordTypes DEF NodePhaseOK, Decision
    <2>3. PICK s \in NodeStatus :
             s = IF decision[i][n].code = "PREPARE_FAILED" THEN "WAITING" ELSE decision[i][n].status
      BY <2>2 DEF Terminal, NodeStatus
    <2>4. PICK l \in Nat : l = view[i].state[n].latest
      BY <1>1, RecordTypes
    <2> DEFINE r == FALSE
    <2>5. PutState(i, n, s, l, None, r, "aggregate") /\ r \in BOOLEAN /\ "aggregate" \in Phase
      BY <1>2, <1>6, <2>3, <2>4 DEF ApplyResult, Phase
    <2> HIDE DEF r
    <2>6. s = "WAITING" => ~Braked(attempt, n)
      <3>1. SUFFICES ASSUME s = "WAITING" PROVE ~Braked(attempt, n)
        OBVIOUS
      <3>2. decision[i][n].code = "PREPARE_FAILED"
        BY <2>2, <2>3, <3>1 DEF Terminal
      <3>3. ResultOK(i, n)
        BY <1>1, <1>2, <2>1 DEF BrakeProcOK
      <3>4. Uncounted(attempt[n][i])
        BY <2>1, <3>2, <3>3 DEF ResultOK, Uncounted
      <3>5. ~Braked(Without(n, i), n)
        BY <1>1, <1>3, ExecutionAssumption DEF NodesUnbraked, BrakeNodeOK
      <3>6. QED
        BY <1>1, <3>4, <3>5, BrakeWithout
    <2>7. WriteOK(i, n, s, l, None, r)
      BY <1>1, <2>2, <2>3, <2>4, <2>6 DEF WriteOK, NodesUnbraked, BrakeNodeOK, Terminal
    <2>8. /\ NodesUnbraked' /\ \A k \in Invocation \ {i} : pc'[k] = pc[k]
          /\ pc'[i] \in {"aggregate", "close"}
      BY <2>1, <2>5, <2>7, BrakeStateStep
    <2>9. QED
      BY <2>8, UnboundStep DEF Unbound
  <1>7. QED
    BY <1>4, <1>5, <1>6

\* Leases, crashes and the end of a process.
LEMMA BrakeEnds ==
  ASSUME NEW i \in Invocation, BrakeKnown(i),
         ConfirmForDrain(i) \/ Close(i) \/ Release(i) \/ Faults(i)
  PROVE  BrakeKept(i)
  <1>1. /\ TypeOK /\ NodesUnbraked /\ BrakeProcOK(i) /\ UNCHANGED <<state, attempt>>
    BY DEF BrakeKnown, IInv, ConfirmForDrain, Close, Release, Faults, LoseLease, Fail, Crash,
           records
  <1>2. CASE LoseLease(i) \/ ConfirmForDrain(i)
    <2>1. /\ UNCHANGED <<pc, view, at, todo, mode, decision>> /\ pc[i] # "idle"
      BY <1>2 DEF LoseLease, ConfirmForDrain, Drained
    <2>2. BrakeProcOK(i)'
      BY <1>1, <2>1 DEF BrakeProcOK, ClaimOK, Without, ResultOK, AttemptsKnown
    <2>3. QED
      BY <1>1, <2>1, <2>2, NodesStay DEF BrakeKept
  <1>3. CASE \E p \in {"release", "done", "crashed"} : Goto(i, p)
    BY <1>1, <1>3, BrakeGoto DEF Unbound
  <1>4. CASE End(i, "failed")
    BY <1>1, <1>4, BrakeEnd DEF Outcome
  <1>5. QED
    BY <1>2, <1>3, <1>4 DEF Close, Release, Faults, Fail, Crash

\* Every step of a process that has the Run open, faults included.
LEMMA BrakeAtStep ==
  ASSUME NEW i \in Invocation, BrakeKnown(i), Step(i) \/ Faults(i)
  PROVE  BrakeKept(i)
  <1>1. CASE Schedule(i)
    BY <1>1, BrakeMoves, BrakeOrphans, BrakeResume, BrakeStart, BrakeDecide, BrakeEnds
       DEF Schedule
  <1>2. CASE Execute(i)
    BY <1>2, BrakeMoves, BrakeDecide, BrakeResult DEF Execute
  <1>3. QED
    BY <1>1, <1>2, BrakePreparation, BrakeEnds DEF Step

\* Opening the Run writes no node and no attempt.
LEMMA BrakeAtOpen ==
  ASSUME NEW i \in Invocation, BrakeKnown(i), Open(i)
  PROVE  BrakeKept(i)
  <1>1. UNCHANGED <<state, attempt>>
    BY DEF Open, OpenNew, OpenRefused, OpenExisting, records
  <1>2. \E p \in {"invocation", "ensure", "done"} : Goto(i, p)
    BY DEF Open, OpenNew, OpenRefused, OpenExisting
  <1>3. QED
    BY <1>1, <1>2, BrakeGoto DEF Unbound

\* resolve-node and cancel-run: no node becomes one that may be started.
LEMMA BrakeBeside ==
  ASSUME IInv, NodesUnbraked, \A i \in Invocation : BrakeProcOK(i),
         \/ ForceUnlock \/ Resolve \/ Stop \/ UNCHANGED vars
         \/ \E n \in Node, i \in Invocation : JobStep(n, i)
  PROVE  NodesUnbraked' /\ \A i \in Invocation : BrakeProcOK(i)'
  <1>1. UNCHANGED <<attempt, pc, view, at, todo, mode, decision>>
    BY DEF ForceUnlock, Resolve, ResolveRead, ResolveAppend, ResolveApply, ResolverDies, Stop,
           StopRead, StopWrite, vars, JobStep, records, scratch
  <1>2. CASE UNCHANGED state
    <2>1. ASSUME NEW i \in Invocation PROVE BrakeProcOK(i)'
      <3>1. BrakeProcOK(i)
        OBVIOUS
      <3>2. QED
        BY <1>1, <1>2, <3>1 DEF BrakeProcOK, ClaimOK, Without, ResultOK, AttemptsKnown
    <2>2. QED
      BY <1>1, <1>2, <2>1, NodesStay
  <1>3. CASE ResolveApply
    <2>1. TypeOK /\ ResolverOK /\ resolver.stage = "apply"
      BY <1>3 DEF IInv, ResolveApply
    <2>2. PICK n \in Node, s \in Outcomes : n = resolver.node /\ s = resolver.to
      BY <2>1 DEF TypeOK, ResolverRecord
    <2>3. CASE StateWritable(n, resolver.old, s, TRUE)
      <3>1. state[n].rev = resolver.old.rev
        BY <2>3 DEF StateWritable
      <3>2. state' = [state EXCEPT ![n] = [status |-> s, rev |-> state[n].rev + 1,
                                           latest |-> state[n].latest, active |-> None]]
        BY <1>3, <2>1, <2>2, <2>3 DEF ResolveApply, NewState, TypeOK
      <3>3. /\ state'[n].status = s /\ s \in {"SUCCESS", "FAILED", "CANCELLED"}
            /\ state'[n].latest = state[n].latest
            /\ \A m \in Node \ {n} : state'[m] = state[m]
        BY <2>1, <3>2 DEF TypeOK, Outcomes
      <3>4. state[n].status \in {"UNKNOWN", "FAILED"}
        BY <2>1, <2>2, <3>1 DEF ResolverOK
      <3>5. NodesUnbraked'
        BY <1>1, <3>3 DEF NodesUnbraked, BrakeNodeOK, Without
      <3>6. ASSUME NEW i \in Invocation PROVE BrakeProcOK(i)'
        <4>1. BrakeProcOK(i)
          OBVIOUS
        <4>2. pc[i] = "claim" => ClaimOK(i, Order[at[i]])'
          BY <1>1, <4>1 DEF BrakeProcOK, ClaimOK, Without
        <4>3. pc[i] \in {"authorize", "persist", "apply"} => ResultOK(i, Order[at[i]])'
          BY <1>1, <4>1 DEF BrakeProcOK, ResultOK
        <4>4. pc[i] \in {"orphan", "orphanState"} =>
                \A m \in todo[i] : view[i].state[m] = state'[m] /\ state'[m].status = "RUNNING"
          <5>1. todo[i] \subseteq Node
            BY <2>1 DEF TypeOK
          <5>2. QED
            BY <3>3, <3>4, <4>1, <5>1 DEF BrakeProcOK
        <4>5. QED
          BY <1>1, <4>1, <4>2, <4>3, <4>4 DEF BrakeProcOK, AttemptsKnown
      <3>7. QED
        BY <3>5, <3>6
    <2>4. CASE ~StateWritable(n, resolver.old, s, TRUE)
      BY <1>2, <1>3, <2>2, <2>4 DEF ResolveApply
    <2>5. QED
      BY <2>3, <2>4
  <1>4. QED
    BY <1>2, <1>3 DEF ForceUnlock, Resolve, ResolveRead, ResolveAppend, ResolverDies, Stop,
       StopRead, StopWrite, vars, JobStep, records

\* The mode of a process is chosen when it opens the Run.
LEMMA ModeStays ==
  ASSUME NEW i \in Invocation, Step(i) \/ Faults(i)
  PROVE  UNCHANGED mode
  <1>1. CASE Prepare(i)
    BY <1>1 DEF Prepare, CreateInvocation, EnsureNodeStates, ReconcileRead,
       ApplyTerminalAttempt, ApplyResolution, FinishReconciliation, RerunRead, RerunReset,
       scratch
  <1>2. CASE Schedule(i)
    BY <1>2 DEF Schedule, EnsureRunStarted, ReadOrphans, AdjudicateOrphan, FinalizeOrphanState,
       FinalizeAbandoned, ReadStates, PrepareResumeState, PrepareDone, PassNode, BlockNode,
       StopCheck, AcceptStop, StartRefused, CreateAttempt, ClaimNode, OutputPathRejected,
       UpdateAggregate, FinishLoop, ConfirmForDrain, LeaseInterrupted, scratch
  <1>3. CASE Execute(i)
    BY <1>3 DEF Execute, SetAttemptExecutionStarted, Launch, ClassifyResult, AuthorizeResult,
       FinalizeAttempt, ApplyResult, scratch
  <1>4. CASE Close(i) \/ Release(i) \/ Faults(i)
    BY <1>4 DEF Close, Release, Faults, LoseLease, Fail, Crash, Forget, scratch
  <1>5. QED
    BY <1>1, <1>2, <1>3, <1>4 DEF Step

\* A process that takes a step is alive.
LEMMA StepsAlive ==
  ASSUME NEW i \in Invocation, Step(i) \/ Faults(i)
  PROVE  Live(i)
  <1>1. CASE Prepare(i)
    BY <1>1 DEF Prepare, CreateInvocation, EnsureNodeStates, ReconcileRead,
       ApplyTerminalAttempt, ApplyResolution, FinishReconciliation, RerunRead, RerunReset, Live
  <1>2. CASE Schedule(i)
    BY <1>2 DEF Schedule, EnsureRunStarted, ReadOrphans, AdjudicateOrphan, FinalizeOrphanState,
       FinalizeAbandoned, ReadStates, PrepareResumeState, PrepareDone, PassNode, BlockNode,
       StopCheck, AcceptStop, StartRefused, CreateAttempt, ClaimNode, OutputPathRejected,
       UpdateAggregate, FinishLoop, ConfirmForDrain, LeaseInterrupted, InLoop, Drained,
       OrdinaryWriteNext, Live
  <1>3. CASE Execute(i)
    BY <1>3 DEF Execute, SetAttemptExecutionStarted, Launch, ClassifyResult, AuthorizeResult,
       FinalizeAttempt, ApplyResult, Live
  <1>4. CASE Close(i) \/ Release(i) \/ Faults(i)
    BY <1>4 DEF Close, Release, Faults, LoseLease, Fail, Crash, Phase, Live
  <1>5. QED
    BY <1>1, <1>2, <1>3, <1>4 DEF Step

\* A process moves on from where it is, and is never idle again.
LEMMA NeverIdleAgain ==
  ASSUME TypeOK, NEW i \in Invocation, Step(i) \/ Faults(i), NEW k \in Invocation,
         pc'[k] = "idle"
  PROVE  pc[k] = "idle" /\ UNCHANGED mode
  <1>1. UNCHANGED mode
    BY ModeStays
  <1>2. SUFFICES pc[k] = "idle"
    BY <1>1
  <1>3. ASSUME NEW p, Goto(i, p) PROVE pc'[i] = p /\ (k # i => pc'[k] = pc[k])
    BY <1>3 DEF Goto, TypeOK
  <1>4. ASSUME NEW how, End(i, how) PROVE pc'[i] = "close" /\ (k # i => pc'[k] = pc[k])
    BY <1>3, <1>4 DEF End
  <1>5. ASSUME NEW n, NEW s, NEW l, NEW a, NEW r, NEW p, PutState(i, n, s, l, a, r, p)
        PROVE  pc'[i] \in {p, "close"} /\ (k # i => pc'[k] = pc[k])
    BY <1>3, <1>4, <1>5 DEF PutState
  <1>6. ASSUME NEW s, NEW st, NEW p, NEW how, PutRun(i, s, st, p, how)
        PROVE  pc'[i] \in {p, "close"} /\ (k # i => pc'[k] = pc[k])
    BY <1>3, <1>4, <1>6 DEF PutRun
  <1>7. ASSUME NEW n, NEW j, NEW s, NEW c, NEW st, NEW p, PutAttempt(i, n, j, s, c, st, p)
        PROVE  pc'[i] \in {p, "close"} /\ (k # i => pc'[k] = pc[k])
    BY <1>3, <1>4, <1>7 DEF PutAttempt
  <1>8. CASE Prepare(i)
    <2>1. CASE CreateInvocation(i)
      BY <1>3, <1>4, <2>1 DEF CreateInvocation
    <2>2. CASE EnsureNodeStates(i)
      BY <1>3, <2>2 DEF EnsureNodeStates
    <2>3. CASE ReconcileRead(i)
      BY <1>3, <1>4, <2>3 DEF ReconcileRead
    <2>4. CASE ApplyTerminalAttempt(i)
      BY <1>5, <2>4 DEF ApplyTerminalAttempt
    <2>5. CASE ApplyResolution(i)
      BY <1>5, <2>5 DEF ApplyResolution
    <2>6. CASE FinishReconciliation(i)
      BY <1>3, <1>4, <2>6 DEF FinishReconciliation
    <2>7. CASE RerunRead(i)
      BY <1>3, <1>4, <2>7 DEF RerunRead
    <2>8. CASE RerunReset(i)
      <3>1. Goto(i, "rerun") \/ Goto(i, "invocation") \/ End(i, "failed")
        BY <2>8 DEF RerunReset, PutState
      <3>2. QED
        BY <1>3, <1>4, <3>1
    <2>9. QED
      BY <1>8, <2>1, <2>2, <2>3, <2>4, <2>5, <2>6, <2>7, <2>8 DEF Prepare
  <1>9. CASE Schedule(i)
    <2>1. CASE EnsureRunStarted(i)
      BY <1>3, <1>6, <2>1 DEF EnsureRunStarted
    <2>2. CASE ReadOrphans(i)
      BY <1>3, <1>4, <2>2 DEF ReadOrphans
    <2>3. CASE AdjudicateOrphan(i)
      BY <1>3, <1>7, <2>3 DEF AdjudicateOrphan
    <2>4. CASE FinalizeOrphanState(i)
      <3>1. Goto(i, "orphan") \/ End(i, "failed")
        BY <2>4 DEF FinalizeOrphanState, PutState
      <3>2. QED
        BY <1>3, <1>4, <3>1
    <2>5. CASE FinalizeAbandoned(i)
      BY <1>3, <1>4, <2>5 DEF FinalizeAbandoned
    <2>6. CASE ReadStates(i)
      BY <1>3, <1>4, <2>6 DEF ReadStates
    <2>7. CASE PrepareResumeState(i)
      <3>1. Goto(i, "prepare") \/ UNCHANGED pc \/ End(i, "failed")
        BY <2>7 DEF PrepareResumeState, PutState
      <3>2. QED
        BY <1>3, <1>4, <3>1
    <2>8. CASE PrepareDone(i)
      BY <1>3, <1>4, <2>8 DEF PrepareDone
    <2>9. CASE PassNode(i)
      BY <1>3, <2>9 DEF PassNode
    <2>10. CASE BlockNode(i)
      <3>1. Goto(i, "blocked") \/ End(i, "failed")
        BY <2>10 DEF BlockNode, PutState
      <3>2. QED
        BY <1>3, <1>4, <3>1
    <2>11. CASE StopCheck(i)
      BY <1>3, <1>4, <2>11 DEF StopCheck
    <2>12. CASE AcceptStop(i)
      BY <1>3, <1>4, <2>12 DEF AcceptStop
    <2>13. CASE StartRefused(i)
      BY <1>3, <1>4, <2>13 DEF StartRefused
    <2>14. CASE CreateAttempt(i)
      BY <1>3, <1>4, <2>14 DEF CreateAttempt
    <2>15. CASE ClaimNode(i)
      <3>1. Goto(i, "ready") \/ End(i, "failed")
        BY <2>15 DEF ClaimNode, PutState
      <3>2. QED
        BY <1>3, <1>4, <3>1
    <2>16. CASE OutputPathRejected(i)
      BY <1>3, <1>4, <2>16 DEF OutputPathRejected
    <2>17. CASE UpdateAggregate(i)
      BY <1>6, <2>17 DEF UpdateAggregate
    <2>18. CASE FinishLoop(i)
      BY <1>6, <2>18 DEF FinishLoop
    <2>19. CASE ConfirmForDrain(i)
      BY <1>3, <1>4, <2>19 DEF ConfirmForDrain
    <2>20. CASE LeaseInterrupted(i)
      BY <1>3, <1>4, <2>20 DEF LeaseInterrupted
    <2>21. QED
      BY <1>9, <2>1, <2>2, <2>3, <2>4, <2>5, <2>6, <2>7, <2>8, <2>9, <2>10, <2>11, <2>12,
         <2>13, <2>14, <2>15, <2>16, <2>17, <2>18, <2>19, <2>20
         DEF Schedule
  <1>10. CASE Execute(i)
    <2>1. CASE SetAttemptExecutionStarted(i)
      BY <1>7, <2>1 DEF SetAttemptExecutionStarted
    <2>2. CASE Launch(i)
      BY <1>3, <1>4, <2>2 DEF Launch
    <2>3. CASE ClassifyResult(i)
      BY <1>3, <1>4, <2>3 DEF ClassifyResult
    <2>4. CASE AuthorizeResult(i)
      BY <1>3, <1>4, <2>4 DEF AuthorizeResult
    <2>5. CASE FinalizeAttempt(i)
      BY <1>7, <2>5 DEF FinalizeAttempt
    <2>6. CASE ApplyResult(i)
      <3>1. Goto(i, "aggregate") \/ End(i, "failed")
        BY <2>6 DEF ApplyResult, PutState
      <3>2. QED
        BY <1>3, <1>4, <3>1
    <2>7. QED
      BY <1>10, <2>1, <2>2, <2>3, <2>4, <2>5, <2>6 DEF Execute
  <1>11. CASE Close(i) \/ Release(i) \/ Faults(i)
    BY <1>3, <1>4, <1>11 DEF Close, Release, Faults, LoseLease, Fail, Crash
  <1>12. QED
    BY <1>1, <1>8, <1>9, <1>10, <1>11 DEF Step

\* Under the lock's exclusion one process at a time is in a phase that matters.
LEMMA BrakeOwnerStep ==
  ASSUME IInv, XInv, NoRerun, NodesUnbraked, NEW i \in Invocation, Live(i) \/ owner = None,
         BrakeKept(i)
  PROVE  NodesUnbraked' /\ \A k \in Invocation : BrakeProcOK(k)'
  <1>1. ASSUME NEW k \in Invocation, k # i PROVE BrakeProcOK(k)'
    <2>1. Live(k) => owner = k
      BY DEF XInv, OwnerOK
    <2>2. Live(i) => owner = i
      BY DEF XInv, OwnerOK
    <2>3. ~Live(k)
      BY <1>1, <2>1, <2>2, ExecutionAssumption
    <2>4. pc'[k] \in {"idle", "done", "crashed"}
      BY <1>1, <2>3 DEF Live, BrakeKept
    <2>5. QED
      BY <2>4 DEF BrakeProcOK, AttemptsKnown
  <1>2. QED
    BY <1>1 DEF BrakeKept

\* Without attempts no node is braked.
LEMMA InitBrakeInv ==
  ASSUME Init
  PROVE  BrakeInv
  <1>1. /\ \A i \in Invocation : pc[i] = "idle" /\ mode[i] = "NEW"
        /\ \A n \in Node : state[n] = NoState
        /\ \A n \in Node, j \in Invocation : attempt[n][j] = NoAttempt
    BY DEF Init, NoView
  <1>2. \A i \in Invocation : BrakeProcOK(i)
    BY <1>1 DEF BrakeProcOK, AttemptsKnown
  <1>3. ASSUME NEW n \in Node PROVE ~Braked(attempt, n)
    <2> DEFINE H == {j \in Invocation : /\ attempt[n][j].status # "none"
                                        /\ ~(/\ attempt[n][j].status = "CANCELLED"
                                             /\ attempt[n][j].code = "PREPARE_FAILED")}
               tail == {j \in H : \A k \in H : attempt[n][k].no >= attempt[n][j].no =>
                           attempt[n][k].status = "FAILED"
                           /\ attempt[n][k].code = attempt[n][j].code}
    <2>1. H = {}
      BY <1>1 DEF NoAttempt
    <2>2. Braked(attempt, n) <=> Cardinality(tail) >= BrakeLimit
      BY DEF Braked
    <2> HIDE DEF H
    <2>3. tail = {}
      BY <2>1
    <2> HIDE DEF tail
    <2>4. Cardinality(tail) = 0
      BY <2>3, FS_EmptySet
    <2>5. BrakeLimit \in Nat /\ BrakeLimit # 0
      BY ExecutionAssumption
    <2>6. QED
      BY <2>2, <2>4, <2>5
  <1>4. NodesUnbraked
    BY <1>1, <1>3 DEF NodesUnbraked, BrakeNodeOK, NoState, NoAttempt
  <1>5. QED
    BY <1>1, <1>2, <1>4 DEF BrakeInv

\* The invariant is inductive under the lock's exclusion.
LEMMA NextBrakeInv ==
  ASSUME Exclusive, IInv, XInv, BrakeInv, [Next]_vars
  PROVE  BrakeInv'
  <1>1. TypeOK
    BY DEF IInv
  <1>2. CASE \/ ForceUnlock \/ Resolve \/ Stop \/ UNCHANGED vars
             \/ \E n \in Node, i \in Invocation : JobStep(n, i)
    <2>1. UNCHANGED <<pc, mode>>
      BY <1>2 DEF ForceUnlock, Resolve, ResolveRead, ResolveAppend, ResolveApply, ResolverDies,
             Stop, StopRead, StopWrite, vars, JobStep, records, scratch
    <2>2. NoRerun' => NoRerun
      BY <2>1 DEF NoRerun
    <2>3. NoRerun => NodesUnbraked' /\ \A i \in Invocation : BrakeProcOK(i)'
      BY <1>2, BrakeBeside DEF BrakeInv
    <2>4. QED
      BY <2>1, <2>2, <2>3 DEF BrakeInv
  <1>3. ASSUME NEW i \in Invocation, Step(i) \/ Faults(i) PROVE BrakeInv'
    <2>1. \A k \in Invocation : pc'[k] = "idle" => mode'[k] = "NEW"
      BY <1>1, <1>3, NeverIdleAgain DEF BrakeInv
    <2>2. Live(i)
      BY <1>3, StepsAlive
    <2>3. UNCHANGED mode
      BY <1>3, ModeStays
    <2>4. ASSUME NoRerun' PROVE NodesUnbraked' /\ \A k \in Invocation : BrakeProcOK(k)'
      <3>1. NoRerun
        BY <2>3, <2>4 DEF NoRerun
      <3>2. BrakeKnown(i)
        BY <3>1 DEF BrakeKnown, BrakeInv
      <3>3. BrakeKept(i)
        BY <1>3, <3>2, BrakeAtStep
      <3>4. QED
        BY <2>2, <3>1, <3>2, <3>3, BrakeOwnerStep DEF BrakeKnown
    <2>5. QED
      BY <2>1, <2>4 DEF BrakeInv
  <1>4. ASSUME NEW i \in Invocation, Open(i) PROVE BrakeInv'
    <2>1. /\ pc[i] = "idle" /\ owner = None
          /\ \E p \in {"invocation", "ensure", "done"} : Goto(i, p)
          /\ \/ UNCHANGED mode
             \/ \E m \in {"NEW", "RESUME", "RERUN_FROM"} : mode' = [mode EXCEPT ![i] = m]
      BY <1>4 DEF Open, OpenNew, OpenRefused, OpenExisting, LockFree, scratch
    <2>2. pc'[i] # "idle" /\ \A k \in Invocation \ {i} : pc'[k] = pc[k] /\ mode'[k] = mode[k]
      BY <1>1, <2>1, GotoMoves DEF TypeOK, Phase
    <2>3. mode[i] = "NEW"
      BY <2>1 DEF BrakeInv
    <2>4. \A k \in Invocation : pc'[k] = "idle" => mode'[k] = "NEW"
      BY <2>2 DEF BrakeInv
    <2>5. ASSUME NoRerun' PROVE NodesUnbraked' /\ \A k \in Invocation : BrakeProcOK(k)'
      <3>1. NoRerun
        BY <2>2, <2>3, <2>5 DEF NoRerun
      <3>2. BrakeKnown(i)
        BY <3>1 DEF BrakeKnown, BrakeInv
      <3>3. BrakeKept(i)
        BY <1>4, <3>2, BrakeAtOpen
      <3>4. QED
        BY <2>1, <3>1, <3>2, <3>3, BrakeOwnerStep DEF BrakeKnown
    <2>6. QED
      BY <2>4, <2>5 DEF BrakeInv
  <1>5. QED
    BY <1>2, <1>3, <1>4 DEF Next

\* Only CreateAttempt creates an attempt.
LEMMA OthersCreateNothing ==
  ASSUME TypeOK, [Next]_vars, NEW n \in Node, NEW i \in Invocation,
         attempt[n][i].status = "none", attempt'[n][i].status = "RUNNING"
  PROVE  \E k \in Invocation : CreateAttempt(k)
  <1>1. ASSUME NEW k \in Invocation, NEW m, NEW j, NEW s, NEW c, NEW st, NEW p,
               PutAttempt(k, m, j, s, c, st, p)
        PROVE  FALSE
    <2>1. UNCHANGED attempt \/ (attempt[m][j].status = "RUNNING"
                                /\ \E a : attempt' = [attempt EXCEPT ![m][j] = a])
      BY <1>1 DEF PutAttempt
    <2>2. CASE UNCHANGED attempt
      BY <2>2
    <2>3. CASE attempt[m][j].status = "RUNNING" /\ \E a : attempt' = [attempt EXCEPT ![m][j] = a]
      <3>1. m # n \/ j # i
        BY <2>3
      <3>2. attempt'[n][i] = attempt[n][i]
        BY <2>3, <3>1 DEF TypeOK
      <3>3. QED
        BY <3>2
    <2>4. QED
      BY <2>1, <2>2, <2>3
  <1>2. ~UNCHANGED attempt
    OBVIOUS
  <1>3. ASSUME NEW k \in Invocation, Open(k) \/ Faults(k) \/ Close(k) \/ Release(k) PROVE FALSE
    BY <1>2, <1>3 DEF Open, OpenNew, OpenRefused, OpenExisting, Faults, LoseLease, Fail, Crash,
                      Close, Release, records
  <1>4. ASSUME NEW k \in Invocation, Prepare(k) PROVE FALSE
    BY <1>2, <1>4 DEF Prepare, CreateInvocation, EnsureNodeStates, ReconcileRead,
       ApplyTerminalAttempt, ApplyResolution, FinishReconciliation, RerunRead, RerunReset, records
  <1>5. ASSUME NEW k \in Invocation, Schedule(k) PROVE CreateAttempt(k)
    <2>1. ~AdjudicateOrphan(k)
      BY <1>1, <1>2 DEF AdjudicateOrphan
    <2>2. QED
      BY <1>2, <1>5, <2>1
         DEF Schedule, EnsureRunStarted, ReadOrphans, FinalizeOrphanState,
             FinalizeAbandoned, ReadStates, PrepareResumeState, PrepareDone, PassNode, BlockNode,
             StopCheck, AcceptStop, StartRefused, ClaimNode, OutputPathRejected,
             UpdateAggregate, FinishLoop, ConfirmForDrain, LeaseInterrupted, records
  <1>6. ASSUME NEW k \in Invocation, Execute(k) PROVE FALSE
    <2>1. ~SetAttemptExecutionStarted(k) /\ ~FinalizeAttempt(k)
      BY <1>1 DEF SetAttemptExecutionStarted, FinalizeAttempt
    <2>2. QED
      BY <1>2, <1>6, <2>1 DEF Execute, Launch, ClassifyResult, AuthorizeResult, ApplyResult, records
  <1>7. ~(ForceUnlock \/ Resolve \/ Stop \/ UNCHANGED vars
          \/ \E m \in Node, k \in Invocation : JobStep(m, k))
    BY <1>2 DEF ForceUnlock, Resolve, ResolveRead, ResolveAppend, ResolveApply, ResolverDies,
                Stop, StopRead, StopWrite, vars, JobStep, records
  <1>8. QED
    BY <1>3, <1>4, <1>5, <1>6, <1>7 DEF Next, Step

\* While no operator uses --rerun-from, a node that may be started is never
\* braked by its attempts on record: a resume counts all of them, an orphan's
\* result is on record before, and what returns to WAITING is not counted.
THEOREM BrakeInvariant ==
  ASSUME Exclusive
  PROVE  Spec => []BrakeInv
  <1>1. Init => BrakeInv
    BY InitBrakeInv
  <1>2. IInv /\ XInv /\ BrakeInv /\ [Next]_vars => BrakeInv'
    BY NextBrakeInv
  <1>3. QED
    BY <1>1, <1>2, RunInvariant, OwnerInvariant, PTL DEF Spec

\* A RESUME never starts a node whose recent attempts engage the retry brake
\* (retryBrakeForNode), when the Network lock excludes and nobody used
\* --rerun-from.
THEOREM RunRetryBrakeHolds ==
  ASSUME Exclusive
  PROVE  Spec => RetryBrakeHolds
  <1>1. ASSUME IInv, XInv, BrakeInv, [Next]_vars
        PROVE  [\A n \in Node, i \in Invocation :
                   /\ attempt[n][i].status = "none" /\ attempt'[n][i].status = "RUNNING"
                   /\ mode[i] = "RESUME" /\ \A j \in Invocation : mode[j] # "RERUN_FROM"
                   => ~Braked(attempt, n)]_vars
    <2>1. SUFFICES ASSUME NEW n \in Node, NEW i \in Invocation,
                          attempt[n][i].status = "none", attempt'[n][i].status = "RUNNING",
                          NoRerun
                   PROVE  ~Braked(attempt, n)
      BY DEF NoRerun
    <2>2. PICK k \in Invocation : CreateAttempt(k)
      BY <1>1, <2>1, OthersCreateNothing DEF IInv
    <2>3. pc[k] = "start"
      BY <2>2 DEF CreateAttempt
    <2>4. PICK m \in Node : m = Order[at[k]] /\ NodePhaseOK(k, m)
      BY <1>1, <2>3, NodeOfPhase
    <2>5. \E a : attempt' = [attempt EXCEPT ![m][k] = a]
      BY <2>1, <2>2, <2>4 DEF CreateAttempt
    <2>6. m = n
      BY <1>1, <2>1, <2>5 DEF IInv, TypeOK
    <2>7. view[k].state[n] = state[n] /\ state[n].status = "WAITING"
      BY <1>1, <2>3, <2>4, <2>6 DEF XInv, NodePhaseOK, OwnerOK, SyncedOK, Evaluating
    <2>8. QED
      BY <1>1, <2>1, <2>7 DEF BrakeInv, NodesUnbraked, BrakeNodeOK
  <1>2. QED
    BY <1>1, RunInvariant, OwnerInvariant, BrakeInvariant, PTL DEF Spec, RetryBrakeHolds

-----------------------------------------------------------------------------
(* The Run as a workflow.  ProgressInv adds to XInv what the aggregate and  *)
(* the start of a node rely on: the owner's copy of the Run record is the   *)
(* record, the Run is started before its nodes are, and a process about to  *)
(* claim a node made its next attempt.                                      *)

\* The phases of the scheduler after the start of the Run.
Scheduling == {"orphanRead", "orphan", "orphanState", "abandon", "prepareRead", "prepare",
               "loop", "finish", "accept", "start", "aggregate", "blocked"} \cup InNode

\* The phases in which the Run record is in memory.
RunSeen(i) ==
    \/ pc[i] \in {"repair", "rerunRead", "rerun", "begin"} \cup Scheduling
    \/ pc[i] = "invocation" /\ mode[i] = "RERUN_FROM"

NextNumber(i, n) == attempt[n][i].no = view[i].state[n].latest + 1

\* While the Run is a success a process sees nothing else.
ProgressOK(i) ==
    /\ RunSeen(i) => view[i].run = run
    /\ pc[i] \in Scheduling => run.started = "yes"
    /\ pc[i] = "claim" => NextNumber(i, Order[at[i]])
    /\ pc[i] \in Evaluating /\ run.status = "SUCCESS" =>
          \A n \in Node : view[i].state[n].status = "SUCCESS"

\* The aggregate as the repository has it.
StartedOK ==
    /\ run.status = "none" => run.started = "no"
    /\ run.status = "SUCCESS" => run.started = "yes"
    /\ run.started = "no" => \A n \in Node : state[n].latest = 0

ProgressInv == StartedOK /\ \A i \in Invocation : ProgressOK(i)

\* What a step of process i may assume, and what it keeps.
ProgressKnown(i) == IInv /\ XInv /\ StartedOK /\ ProgressOK(i)

WorkflowStep == [Workflow!WorkflowNext]_(Workflow!workflowVars)

ProgressKept(i) ==
    /\ StartedOK' /\ ProgressOK(i)' /\ WorkflowStep
    /\ \A k \in Invocation \ {i} : pc'[k] = pc[k]

\* The statuses of a workflow's nodes, and of one node.
WorkflowStatuses == [n \in Node |-> WorkflowStatus(state[n].status)]

\* What each Node State status is to a workflow.
LEMMA WorkflowValues ==
  /\ WorkflowStatus("none") = "waiting" /\ WorkflowStatus("WAITING") = "waiting"
  /\ WorkflowStatus("BLOCKED") = "waiting" /\ WorkflowStatus("RUNNING") = "running"
  /\ WorkflowStatus("SUCCESS") = "succeeded" /\ WorkflowStatus("FAILED") = "failed"
  /\ WorkflowStatus("CANCELLED") = "failed" /\ WorkflowStatus("UNKNOWN") = "unknown"
  BY DEF WorkflowStatus

\* No Node State is written.
LEMMA SameStates ==
  ASSUME UNCHANGED state
  PROVE  UNCHANGED <<WorkflowStatuses, [n \in Node |-> state[n].latest]>>
  BY DEF WorkflowStatuses

\* One Node State is written.
LEMMA OneState ==
  ASSUME NEW n \in Node, \A m \in Node \ {n} : state'[m] = state[m]
  PROVE  /\ WorkflowStatuses' = [WorkflowStatuses EXCEPT ![n] = WorkflowStatus(state'[n].status)]
         /\ [m \in Node |-> state[m].latest]' =
               [[m \in Node |-> state[m].latest] EXCEPT ![n] = state'[n].latest]
  <1>1. WorkflowStatuses' = [m \in Node |-> WorkflowStatus(state'[m].status)]
    BY DEF WorkflowStatuses
  <1>2. \A m \in Node : WorkflowStatuses[m] = WorkflowStatus(state[m].status)
    BY DEF WorkflowStatuses
  <1>3. DOMAIN WorkflowStatuses = Node
    BY DEF WorkflowStatuses
  <1>4. WorkflowStatuses' = [WorkflowStatuses EXCEPT ![n] = WorkflowStatus(state'[n].status)]
    BY <1>1, <1>2, <1>3
  <1>5. QED
    BY <1>4

\* A step that writes neither the Run nor a Node State.
LEMMA StutterStep ==
  ASSUME UNCHANGED <<run, state>>
  PROVE  WorkflowStep
  BY DEF WorkflowStep, Workflow!workflowVars

\* What may follow a Node State that is not RUNNING next is a step of its node.
LEMMA NodeStep ==
  ASSUME TypeOK, NEW n \in Node, NEW s \in NodeStatus, NEW old, NEW r \in BOOLEAN,
         StateWritable(n, old, s, r), s # "RUNNING", UNCHANGED run,
         s = "WAITING" /\ state[n].status = "SUCCESS" =>
            n \notin NonIdempotent /\ run.status # "SUCCESS",
         state'[n].status = s, state'[n].latest = state[n].latest,
         \A m \in Node \ {n} : state'[m] = state[m]
  PROVE  WorkflowStep
  <1> DEFINE W == WorkflowStatuses
             L == [m \in Node |-> state[m].latest]
  <1>1. W' = [W EXCEPT ![n] = WorkflowStatus(s)] /\ L' = L
    <2>1. L' = [L EXCEPT ![n] = state[n].latest]
      BY OneState
    <2>2. QED
      BY <2>1, OneState
  <1>2. W[n] = WorkflowStatus(state[n].status)
    BY DEF WorkflowStatuses
  <1>3. /\ <<state[n].status, s>> \in AllowedTransition \cup ResolutionTransition
        /\ s = "WAITING" => ~(n \in NonIdempotent /\ state[n].status \in {"FAILED", "CANCELLED"})
    BY DEF StateWritable
  <1>4. state[n].status \in NodeStatus
    BY DEF TypeOK, StateRecord
  <1> DEFINE f == run.status = "SUCCESS"
  <1>5. f' <=> f
    OBVIOUS
  <1>6. \/ W[n] = WorkflowStatus(s)
        \/ W[n] = "running" /\ WorkflowStatus(s) \in {"waiting", "succeeded", "failed", "unknown"}
        \/ W[n] \in {"unknown", "failed"} /\ WorkflowStatus(s) \in {"succeeded", "failed"}
        \/ W[n] = "failed" /\ n \notin NonIdempotent /\ WorkflowStatus(s) = "waiting"
        \/ W[n] = "succeeded" /\ n \notin NonIdempotent /\ ~f /\ WorkflowStatus(s) = "waiting"
    BY <1>2, <1>3, <1>4, WorkflowValues
       DEF AllowedTransition, ResolutionTransition, NodeStatus, Terminal
  <1>7. QED
    BY <1>1, <1>5, <1>6
       DEF WorkflowStatuses, WorkflowStep, Workflow!workflowVars, Workflow!WorkflowNext,
           Workflow!End, Workflow!Settle, Workflow!Retry, Workflow!RunAgain, Workflow!Become

\* The Run is a success when all its nodes are.
LEMMA FinishStep ==
  ASSUME UNCHANGED state, run.status = "SUCCESS" => run'.status = "SUCCESS",
         run'.status = "SUCCESS" => \A n \in Node : state[n].status = "SUCCESS"
  PROVE  WorkflowStep
  <1> DEFINE f == run.status = "SUCCESS"
  <1>1. f => f'
    OBVIOUS
  <1>2. f' => \A n \in Node : WorkflowStatuses[n] = "succeeded"
    BY WorkflowValues DEF WorkflowStatuses
  <1>3. (f' <=> f) \/ f'
    BY <1>1
  <1>4. QED
    BY <1>1, <1>2, <1>3, SameStates
       DEF WorkflowStatuses, WorkflowStep, Workflow!workflowVars, Workflow!WorkflowNext,
           Workflow!Finish

\* A step of process i that keeps the Run, the nodes and what i knows of the Run.
LEMMA ProgressQuiet ==
  ASSUME NEW i \in Invocation, ProgressKnown(i), UNCHANGED <<run, state>>,
         \A k \in Invocation \ {i} : pc'[k] = pc[k],
         RunSeen(i)' => RunSeen(i) /\ view'[i].run = view[i].run,
         pc'[i] \in Scheduling => pc[i] \in Scheduling \/ run.started = "yes",
         pc'[i] = "claim" => NextNumber(i, Order[at[i]])',
         pc'[i] \in Evaluating =>
            pc[i] \in Evaluating /\ view'[i].state = view[i].state
  PROVE  ProgressKept(i)
  <1>1. StartedOK'
    BY DEF ProgressKnown, StartedOK
  <1>2. ProgressOK(i)'
    BY DEF ProgressKnown, ProgressOK
  <1>3. QED
    BY <1>1, <1>2, StutterStep DEF ProgressKept

\* The phases outside of which the invariant says nothing of a process.
ProgressPhase == {"repair", "rerunRead", "rerun", "begin"} \cup Scheduling

\* A process that leaves them, or moves among them on what it knows.
LEMMA ProgressGoto ==
  ASSUME NEW i \in Invocation, ProgressKnown(i), NEW p \in Phase \ {"claim"}, Goto(i, p),
         UNCHANGED <<run, state, view, mode>>,
         \/ p \notin ProgressPhase \cup {"invocation"}
         \/ /\ RunSeen(i)
            /\ p \in Scheduling => pc[i] \in Scheduling \/ run.started = "yes"
            /\ p \in Evaluating => pc[i] \in Evaluating
  PROVE  ProgressKept(i)
  <1>1. TypeOK
    BY DEF ProgressKnown, IInv
  <1>2. pc'[i] = p /\ \A k \in Invocation \ {i} : pc'[k] = pc[k]
    BY <1>1, GotoMoves
  <1>3. p \in Evaluating => p \in ProgressPhase
    BY DEF Evaluating, ProgressPhase, Scheduling
  <1>4. RunSeen(i)' => RunSeen(i)
    BY <1>2 DEF RunSeen, ProgressPhase
  <1>5. p \in Scheduling => pc[i] \in Scheduling \/ run.started = "yes"
    BY DEF ProgressPhase
  <1>6. p \in Evaluating => pc[i] \in Evaluating
    BY <1>3
  <1>7. QED
    BY <1>2, <1>4, <1>5, <1>6, ProgressQuiet

\* The end of an evaluation.
LEMMA ProgressClose ==
  ASSUME NEW i \in Invocation, ProgressKnown(i), UNCHANGED <<run, state>>,
         pc'[i] \in {"close", "release", "done", "crashed"},
         \A k \in Invocation \ {i} : pc'[k] = pc[k]
  PROVE  ProgressKept(i)
  BY ProgressQuiet DEF RunSeen, Scheduling, Evaluating, InNode

\* An error or a stop ends a process.
LEMMA ProgressEnd ==
  ASSUME NEW i \in Invocation, ProgressKnown(i), NEW how \in Outcome, End(i, how),
         UNCHANGED <<run, state>>
  PROVE  ProgressKept(i)
  <1>1. pc'[i] = "close" /\ \A k \in Invocation \ {i} : pc'[k] = pc[k]
    BY EndMoves DEF ProgressKnown, IInv
  <1>2. QED
    BY <1>1, ProgressClose

\* A Node State that is not claimed is written over the version in memory.
LEMMA ProgressState ==
  ASSUME NEW i \in Invocation, ProgressKnown(i), NEW n \in Node, NEW s \in NodeStatus,
         NEW l \in Nat, NEW a \in Invocation \cup {None}, NEW r \in BOOLEAN,
         NEW next \in Phase \ {"claim", "invocation"},
         PutState(i, n, s, l, a, r, next), UNCHANGED run,
         l = view[i].state[n].latest, s # "RUNNING",
         s = "WAITING" /\ view[i].state[n] = state[n] /\ state[n].status = "SUCCESS" =>
            n \notin NonIdempotent /\ run.status # "SUCCESS",
         RunSeen(i), next \in Scheduling => pc[i] \in Scheduling,
         next \in Evaluating =>
            pc[i] \in Evaluating /\ (run.status = "SUCCESS" => s = "SUCCESS")
  PROVE  ProgressKept(i)
  <1>1. TypeOK /\ SeenState(i, n)
    BY DEF ProgressKnown, IInv, ProcOK
  <1>2. /\ \A k \in Invocation \ {i} : pc'[k] = pc[k]
        /\ \/ /\ StateWritable(n, view[i].state[n], s, r)
              /\ WroteState(i, n, s, l, a) /\ pc'[i] = next
           \/ /\ pc'[i] = "close" /\ UNCHANGED <<state, view>>
    BY <1>1, PutStateMoves
  <1>3. CASE pc'[i] = "close" /\ UNCHANGED <<state, view>>
    BY <1>2, <1>3, ProgressClose
  <1>4. CASE /\ StateWritable(n, view[i].state[n], s, r)
             /\ WroteState(i, n, s, l, a) /\ pc'[i] = next
    <2>1. view[i].state[n] = state[n]
      BY <1>1, <1>4 DEF WroteState, SeenState
    <2>2. /\ state'[n].status = s /\ state'[n].latest = state[n].latest
          /\ \A m \in Node \ {n} : state'[m] = state[m]
          /\ view'[i].state[n].status = s /\ view'[i].run = view[i].run
          /\ \A m \in Node \ {n} : view'[i].state[m] = view[i].state[m]
      BY <1>4, <2>1 DEF WroteState
    <2>3. StartedOK'
      BY <2>2 DEF ProgressKnown, StartedOK
    <2>4. WorkflowStep
      BY <1>1, <1>4, <2>1, <2>2, NodeStep
    <2>5. ProgressOK(i)'
      <3>1. view[i].run = run
        BY DEF ProgressKnown, ProgressOK
      <3>2. pc'[i] \in Scheduling => run.started = "yes"
        BY <1>4 DEF ProgressKnown, ProgressOK
      <3>3. pc'[i] \in Evaluating /\ run.status = "SUCCESS" =>
               \A m \in Node : view'[i].state[m].status = "SUCCESS"
        BY <1>4, <2>2 DEF ProgressKnown, ProgressOK
      <3>4. QED
        BY <1>4, <2>2, <3>1, <3>2, <3>3 DEF ProgressOK
    <2>6. QED
      BY <1>2, <2>3, <2>4, <2>5 DEF ProgressKept
  <1>5. QED
    BY <1>2, <1>3, <1>4

\* An attempt is written over the version in memory.
LEMMA ProgressAttempt ==
  ASSUME NEW i \in Invocation, ProgressKnown(i), NEW n \in Node, NEW j \in Invocation,
         NEW s \in {"RUNNING"} \cup Terminal, NEW code \in Code, NEW started \in {"no", "yes"},
         NEW next \in Phase \ {"claim", "invocation"},
         PutAttempt(i, n, j, s, code, started, next),
         UNCHANGED <<run, state>>,
         RunSeen(i), next \in Scheduling => pc[i] \in Scheduling,
         next \in Evaluating => pc[i] \in Evaluating
  PROVE  ProgressKept(i)
  <1>1. TypeOK
    BY DEF ProgressKnown, IInv
  <1>2. /\ \A k \in Invocation \ {i} : pc'[k] = pc[k]
        /\ \/ pc'[i] = next /\ AttemptPut(i, n, j, s)
           \/ pc'[i] = "close" /\ UNCHANGED <<attempt, view>>
    BY <1>1, PutAttemptMoves
  <1>3. CASE pc'[i] = "close"
    BY <1>2, <1>3, ProgressClose
  <1>4. CASE pc'[i] = next /\ AttemptPut(i, n, j, s)
    <2>1. view'[i].run = view[i].run /\ view'[i].state = view[i].state
      BY <1>4 DEF AttemptPut, WroteAttempt
    <2>2. QED
      BY <1>2, <1>4, <2>1, ProgressQuiet
  <1>5. QED
    BY <1>2, <1>3, <1>4

\* The aggregate is written over the version in memory.
LEMMA ProgressRun ==
  ASSUME NEW i \in Invocation, ProgressKnown(i), NEW s \in RunStatus \ {"none"},
         NEW next \in Phase \ {"claim", "invocation"}, NEW how \in Outcome,
         PutRun(i, s, "yes", next, how), UNCHANGED state,
         RunSeen(i), next \in Evaluating => pc[i] \in Evaluating,
         s = "SUCCESS" => \A n \in Node : /\ state[n].status = "SUCCESS"
                                          /\ view[i].state[n].status = "SUCCESS",
         run.status = "SUCCESS" => s = "SUCCESS"
  PROVE  ProgressKept(i)
  <1>1. TypeOK /\ view[i].run = run
    BY DEF ProgressKnown, ProgressOK, IInv
  <1>2. PICK new \in RunRecord :
           /\ new = [status |-> s, started |-> "yes", rev |-> view[i].run.rev + 1]
           /\ new.status = s /\ new.started = "yes"
    <2>1. view[i].run.rev + 1 \in Nat
      BY <1>1 DEF TypeOK, RunRecord
    <2> DEFINE new == [status |-> s, started |-> "yes", rev |-> view[i].run.rev + 1]
    <2>2. new \in RunRecord /\ new.status = s /\ new.started = "yes"
      BY <2>1 DEF RunRecord
    <2>3. QED
      BY <2>2
  <1>3. /\ run' = new /\ view' = [view EXCEPT ![i].run = new] /\ Goto(i, next)
    BY <1>1, <1>2 DEF PutRun
  <1>4. /\ pc'[i] = next /\ \A k \in Invocation \ {i} : pc'[k] = pc[k]
        /\ view'[i].run = run' /\ view'[i].state = view[i].state
    BY <1>1, <1>3, GotoMoves, RunWritten
  <1>5. StartedOK'
    BY <1>2, <1>3 DEF StartedOK
  <1>6. ProgressOK(i)'
    BY <1>2, <1>3, <1>4 DEF ProgressOK
  <1>7. WorkflowStep
    BY <1>2, <1>3, FinishStep
  <1>8. QED
    BY <1>4, <1>5, <1>6, <1>7 DEF ProgressKept

\* The invocation record, the missing Node States and the first read.
LEMMA ProgressPreparation ==
  ASSUME NEW i \in Invocation, ProgressKnown(i),
         CreateInvocation(i) \/ EnsureNodeStates(i) \/ ReconcileRead(i)
  PROVE  ProgressKept(i)
  <1>1. TypeOK /\ UNCHANGED run
    BY DEF ProgressKnown, IInv, CreateInvocation, EnsureNodeStates, ReconcileRead, records
  <1>2. CASE CreateInvocation(i)
    <2>1. PICK p \in {"begin", "ensure"} : /\ p = "begin" => mode[i] = "RERUN_FROM"
                                           /\ Goto(i, p) /\ pc[i] = "invocation"
      BY <1>2 DEF CreateInvocation
    <2>2. UNCHANGED <<state, view, mode>>
      BY <1>2 DEF CreateInvocation, scratch
    <2>3. p \in Phase \ {"claim"} /\ p \notin Evaluating /\ p \notin Scheduling
      BY DEF Phase, Evaluating, Scheduling, InNode
    <2>4. p = "begin" \/ p \notin ProgressPhase \cup {"invocation"}
      BY DEF ProgressPhase, Scheduling, InNode
    <2>5. p = "begin" => RunSeen(i)
      BY <2>1 DEF RunSeen
    <2>6. QED
      BY <1>1, <2>1, <2>2, <2>3, <2>4, <2>5, ProgressGoto
  <1>3. CASE EnsureNodeStates(i)
    <2>1. pc[i] = "ensure" /\ UNCHANGED <<view, mode>>
      BY <1>3 DEF EnsureNodeStates, scratch
    <2>2. CASE \A n \in Node : state[n].status # "none" /\ Goto(i, "reconcile") /\ UNCHANGED state
      <3>1. "reconcile" \in Phase \ {"claim"} /\ "reconcile" \notin ProgressPhase \cup {"invocation"}
        BY DEF Phase, ProgressPhase, Scheduling, InNode
      <3>2. Goto(i, "reconcile") /\ UNCHANGED state
        BY <2>2, NetworkAssumption
      <3>3. QED
        BY <1>1, <2>1, <3>1, <3>2, ProgressGoto
    <2>3. CASE \E n \in Node :
                  /\ state[n].status = "none" /\ UNCHANGED pc
                  /\ state' = [state EXCEPT ![n] =
                        [status |-> "WAITING", rev |-> 1, latest |-> 0, active |-> None]]
      <3>1. PICK n \in Node :
                  /\ state[n].status = "none" /\ UNCHANGED pc
                  /\ state' = [state EXCEPT ![n] =
                        [status |-> "WAITING", rev |-> 1, latest |-> 0, active |-> None]]
        BY <2>3
      <3>2. state[n].latest = 0
        BY <3>1 DEF ProgressKnown, IInv, NodeOK, StateOK, NoState
      <3>3. /\ state'[n].status = "WAITING" /\ state'[n].latest = 0
            /\ \A m \in Node \ {n} : state'[m] = state[m]
        BY <1>1, <3>1 DEF TypeOK
      <3>4. StartedOK'
        BY <1>1, <3>3 DEF ProgressKnown, StartedOK
      <3>5. ProgressOK(i)'
        BY <2>1, <3>1 DEF ProgressOK, RunSeen, Scheduling, Evaluating, InNode
      <3>6. UNCHANGED <<WorkflowStatuses, [m \in Node |-> state[m].latest]>>
        <4>1. WorkflowStatuses[n] = WorkflowStatus(state'[n].status)
          BY <3>1, <3>3, WorkflowValues DEF WorkflowStatuses
        <4>2. WorkflowStatuses' = [WorkflowStatuses EXCEPT ![n] = WorkflowStatuses[n]]
          BY <3>3, <4>1, OneState
        <4>3. [m \in Node |-> state[m].latest]' =
                [[m \in Node |-> state[m].latest] EXCEPT ![n] = state[n].latest]
          BY <3>2, <3>3, OneState
        <4>4. QED
          BY <4>2, <4>3 DEF WorkflowStatuses
      <3>7. WorkflowStep
        BY <1>1, <3>6 DEF WorkflowStep, Workflow!workflowVars, WorkflowStatuses
      <3>8. QED
        BY <3>1, <3>4, <3>5, <3>7 DEF ProgressKept
    <2>4. QED
      BY <1>3, <2>2, <2>3 DEF EnsureNodeStates
  <1>4. CASE ReconcileRead(i)
    <2>1. pc'[i] = "repair" /\ \A k \in Invocation \ {i} : pc'[k] = pc[k]
      BY <1>1, <1>4, GotoMoves DEF ReconcileRead, Phase
    <2>2. UNCHANGED state /\ view'[i].state = state /\ view'[i].run = run
      BY <1>1, <1>4 DEF ReconcileRead, records, TypeOK
    <2>3. StartedOK'
      BY <1>1, <2>2 DEF ProgressKnown, StartedOK
    <2>4. ProgressOK(i)'
      BY <1>1, <2>1, <2>2
         DEF ProgressOK, RunSeen, Scheduling, InNode, ProgressKnown, XInv, SuccessfulRunIsFinal
    <2>5. QED
      BY <1>1, <2>1, <2>2, <2>3, <2>4, StutterStep DEF ProgressKept
  <1>5. QED
    BY <1>2, <1>3, <1>4

\* The repairs of a SUCCESS Run, if any, are of SUCCESS nodes.
LEMMA ProgressRepair ==
  ASSUME NEW i \in Invocation, ProgressKnown(i), ApplyTerminalAttempt(i) \/ ApplyResolution(i)
  PROVE  ProgressKept(i)
  <1>1. /\ TypeOK /\ pc[i] = "repair" /\ UNCHANGED run
    BY DEF ProgressKnown, IInv, ApplyTerminalAttempt, ApplyResolution
  <1>2. /\ RunSeen(i) /\ pc[i] \in Evaluating
        /\ "repair" \in Phase \ {"claim", "invocation"} /\ "repair" \notin Scheduling
    BY <1>1 DEF RunSeen, Evaluating, Phase, Scheduling, InNode
  <1>3. run.status = "SUCCESS" => \A n \in Node : view[i].state[n].status = "SUCCESS"
    BY <1>2 DEF ProgressKnown, ProgressOK
  <1>4. CASE ApplyTerminalAttempt(i)
    <2>1. PICK n \in Node :
             /\ TerminalPending(view[i], n)
             /\ PutState(i, n, view[i].attempt[n][view[i].state[n].active].status,
                         view[i].state[n].latest, None, FALSE, "repair")
      BY <1>4 DEF ApplyTerminalAttempt
    <2>2. PICK s \in Terminal : s = view[i].attempt[n][view[i].state[n].active].status
      BY <2>1 DEF TerminalPending
    <2>3. PICK l \in Nat : l = view[i].state[n].latest
      BY <1>1, RecordTypes
    <2> DEFINE r == FALSE
    <2>4. PutState(i, n, s, l, None, r, "repair") /\ r \in BOOLEAN
      BY <2>1, <2>2, <2>3
    <2> HIDE DEF r
    <2>5. s \in NodeStatus /\ s # "WAITING" /\ s # "RUNNING"
      BY DEF Terminal, NodeStatus
    <2>6. run.status = "SUCCESS" => s = "SUCCESS"
      BY <1>3, <2>1, <2>2 DEF TerminalPending
    <2>7. QED
      BY <1>1, <1>2, <2>3, <2>4, <2>5, <2>6, ProgressState
  <1>5. CASE ApplyResolution(i)
    <2>1. PICK n \in Node, j \in Invocation :
             /\ ResolutionPending(view[i], n, j)
             /\ \E s \in view[i].resolved[n][j] :
                PutState(i, n, s, view[i].state[n].latest, None, TRUE, "repair")
      BY <1>5 DEF ApplyResolution
    <2>2. PICK s \in Outcomes : PutState(i, n, s, view[i].state[n].latest, None, TRUE, "repair")
      BY <1>1, <2>1, RecordTypes
    <2>3. PICK l \in Nat : l = view[i].state[n].latest
      BY <1>1, RecordTypes
    <2> DEFINE r == TRUE
    <2>4. PutState(i, n, s, l, None, r, "repair") /\ r \in BOOLEAN
      BY <2>2, <2>3
    <2> HIDE DEF r
    <2>5. s \in NodeStatus /\ s # "WAITING" /\ s # "RUNNING"
      BY DEF Outcomes, NodeStatus
    <2>6. run.status # "SUCCESS"
      BY <1>3, <2>1 DEF ResolutionPending, ResolutionRefused
    <2>7. QED
      BY <1>1, <1>2, <2>3, <2>4, <2>5, <2>6, ProgressState
  <1>6. QED
    BY <1>4, <1>5

\* The aggregate of a SUCCESS Run's nodes.
LEMMA SuccessAggregate ==
  ASSUME NEW v, NEW started, \A n \in Node : v.state[n].status = "SUCCESS"
  PROVE  Aggregate(Statuses(v), started) = "SUCCESS"
  <1>1. \A n \in Node : Statuses(v)[n] = "SUCCESS"
    BY DEF Statuses
  <1>2. QED
    BY <1>1 DEF Aggregate

\* A SUCCESS aggregate is that of a started Run, and no aggregate is "none".
LEMMA ProgressAggregate ==
  ASSUME NEW i \in Invocation, ProgressKnown(i), pc[i] \in Evaluating, RunSeen(i),
         NEW s, s = Aggregate(Statuses(view[i]), view[i].run.started)
  PROVE  /\ s \in RunStatus \ {"none"}
         /\ s = "SUCCESS" => /\ run.started = "yes"
                             /\ \A n \in Node : /\ state[n].status = "SUCCESS"
                                                /\ view[i].state[n].status = "SUCCESS"
         /\ run.status = "SUCCESS" => s = "SUCCESS"
  <1>1. TypeOK /\ SyncedOK(i)
    BY DEF ProgressKnown, IInv, XInv, OwnerOK
  <1>2. s \in RunStatus \ {"none"}
    BY DEF Aggregate, RunStatus, Terminal
  <1>3. run.status = "SUCCESS" => s = "SUCCESS"
    BY SuccessAggregate DEF ProgressKnown, ProgressOK
  <1>4. ASSUME s = "SUCCESS"
        PROVE  /\ run.started = "yes"
               /\ \A n \in Node : /\ state[n].status = "SUCCESS"
                                  /\ view[i].state[n].status = "SUCCESS"
    <2>1. \A n \in Node : state[n].status = "SUCCESS"
      BY <1>1, <1>4, AggregateSuccess
    <2>2. \A n \in Node : Statuses(view[i])[n] = "SUCCESS"
      BY <1>4 DEF Aggregate
    <2>3. \A n \in Node : view[i].state[n].status = "SUCCESS"
      BY <2>2 DEF Statuses
    <2>4. \A n \in Node : state[n].latest # 0
      BY <2>1 DEF ProgressKnown, IInv, NodeOK, StateOK
    <2>5. run.started # "no"
      BY <2>4, NetworkAssumption DEF ProgressKnown, StartedOK
    <2>6. QED
      BY <1>1, <2>1, <2>3, <2>5 DEF TypeOK, RunRecord
  <1>5. QED
    BY <1>2, <1>3, <1>4

\* Reconciliation may find that the Run has succeeded.
LEMMA ProgressReconciled ==
  ASSUME NEW i \in Invocation, ProgressKnown(i), FinishReconciliation(i)
  PROVE  ProgressKept(i)
  <1>1. TypeOK /\ pc[i] = "repair" /\ UNCHANGED state
    BY DEF ProgressKnown, IInv, FinishReconciliation
  <1>2. RunSeen(i) /\ pc[i] \in Evaluating /\ view[i].run = run
    BY <1>1 DEF RunSeen, Evaluating, ProgressKnown, ProgressOK
  <1>3. PICK s \in RunStatus : s = Aggregate(Statuses(view[i]), view[i].run.started)
    BY AggregateType
  <1>4. /\ s # "none"
        /\ s = "SUCCESS" => /\ run.started = "yes"
                            /\ \A n \in Node : /\ state[n].status = "SUCCESS"
                                               /\ view[i].state[n].status = "SUCCESS"
        /\ run.status = "SUCCESS" => s = "SUCCESS"
    BY <1>2, <1>3, ProgressAggregate
  <1>5. run' = run \/ run' = [run EXCEPT !.status = s, !.rev = run.rev + 1]
    BY <1>3 DEF FinishReconciliation
  <1>6. run' \in RunRecord /\ run'.started = run.started /\ (run' = run \/ run'.status = s)
    <2>1. run.rev + 1 \in Nat /\ run.rev \in Nat /\ run \in RunRecord
      BY <1>1 DEF TypeOK, RunRecord
    <2>2. QED
      BY <1>5, <2>1 DEF RunRecord
  <1>7. view' = [view EXCEPT ![i].run = run']
    BY DEF FinishReconciliation
  <1>8. PICK r \in RunRecord : r = run'
    BY <1>6
  <1>9. view'[i].run = run'
    BY <1>1, <1>7, <1>8, RunWritten
  <1>10. /\ pc'[i] \in {"close", "rerunRead", "begin"}
         /\ \A k \in Invocation \ {i} : pc'[k] = pc[k]
    <2>1. \/ End(i, "failed") \/ End(i, "refused")
          \/ \E p \in {"rerunRead", "begin"} : Goto(i, p)
      BY DEF FinishReconciliation
    <2>2. QED
      BY <1>1, <2>1, EndMoves, GotoMoves DEF Outcome, Phase
  <1>11. StartedOK'
    BY <1>1, <1>4, <1>6 DEF ProgressKnown, StartedOK
  <1>12. ProgressOK(i)'
    BY <1>9, <1>10 DEF ProgressOK, Scheduling, Evaluating, InNode
  <1>13. WorkflowStep
    <2>1. run.status = "SUCCESS" => run'.status = "SUCCESS"
      BY <1>4, <1>6
    <2>2. run'.status = "SUCCESS" => \A n \in Node : state[n].status = "SUCCESS"
      BY <1>4, <1>6 DEF ProgressKnown, XInv, SuccessfulRunIsFinal
    <2>3. QED
      BY <1>1, <2>1, <2>2, FinishStep
  <1>14. QED
    BY <1>10, <1>11, <1>12, <1>13 DEF ProgressKept

\* A rerun resets nodes of a Run that is not SUCCESS, and never a node with
\* idempotent: false that has run.
LEMMA ProgressRerun ==
  ASSUME NEW i \in Invocation, ProgressKnown(i), RerunRead(i) \/ RerunReset(i)
  PROVE  ProgressKept(i)
  <1>1. /\ TypeOK /\ ProcOK(i) /\ OwnerOK(i) /\ UNCHANGED <<run, mode>>
        /\ \A n \in Node : StateOK(n)
    BY DEF ProgressKnown, IInv, NodeOK, XInv, RerunRead, RerunReset, records
  <1>2. "invocation" \in Phase \ {"claim"} /\ "rerun" \in Phase \ {"claim", "invocation"}
        /\ {"invocation", "rerun"} \cap (Scheduling \cup Evaluating) = {}
    BY DEF Phase, Scheduling, Evaluating, InNode
  <1>3. RunSeen(i)
    BY DEF RunSeen, RerunRead, RerunReset
  <1>4. CASE RerunRead(i) /\ RerunRefused(i)
    <2>1. End(i, "failed") /\ UNCHANGED state /\ "failed" \in Outcome
      BY <1>4 DEF RerunRead, records, Outcome
    <2>2. QED
      BY <1>1, <2>1, ProgressEnd
  <1>5. CASE RerunRead(i) /\ ~RerunRefused(i)
    <2>1. Goto(i, "rerun") /\ view' = [view EXCEPT ![i].state = state] /\ UNCHANGED state
      BY <1>5 DEF RerunRead, records
    <2>2. pc'[i] = "rerun" /\ \A k \in Invocation \ {i} : pc'[k] = pc[k]
      BY <1>1, <1>2, <2>1, GotoMoves
    <2>3. view'[i].run = view[i].run
      BY <1>1, <2>1, StatesRead
    <2>4. QED
      BY <1>1, <1>2, <1>3, <2>1, <2>2, <2>3, ProgressQuiet
  <1>6. CASE RerunReset(i) /\ Goto(i, "invocation") /\ UNCHANGED <<state, view>>
    BY <1>1, <1>2, <1>3, <1>6, ProgressGoto
  <1>7. CASE /\ RerunReset(i)
             /\ \E n \in todo[i] :
                   PutState(i, n, "WAITING", view[i].state[n].latest, None, FALSE, "rerun")
    <2>1. PICK n \in todo[i] :
             PutState(i, n, "WAITING", view[i].state[n].latest, None, FALSE, "rerun")
      BY <1>7
    <2>2. n \in Node
      BY <1>1 DEF TypeOK
    <2>3. PICK l \in Nat : l = view[i].state[n].latest
      BY <1>1, <2>2, RecordTypes
    <2> DEFINE r == FALSE
    <2>4. PutState(i, n, "WAITING", l, None, r, "rerun") /\ r \in BOOLEAN
      BY <2>1, <2>3
    <2> HIDE DEF r
    <2>5. pc[i] = "rerun" /\ run.status # "SUCCESS" /\ "WAITING" \in NodeStatus
      BY <1>1, <1>7 DEF RerunReset, OwnerOK, NodeStatus
    <2>6. n \in NonIdempotent => view[i].state[n].latest = 0
      BY <1>1, <2>5 DEF ProcOK, PhaseOK
    <2>7. view[i].state[n] = state[n] /\ state[n].status = "SUCCESS" => n \notin NonIdempotent
      BY <1>1, <2>2, <2>6 DEF StateOK
    <2>8. QED
      BY <1>1, <1>2, <1>3, <2>2, <2>3, <2>4, <2>5, <2>7, ProgressState
  <1>8. QED
    BY <1>4, <1>5, <1>6, <1>7 DEF RerunRead, RerunReset

\* The Run is started before its nodes are, and stays started.
LEMMA ProgressStarted ==
  ASSUME NEW i \in Invocation, ProgressKnown(i), EnsureRunStarted(i)
  PROVE  ProgressKept(i)
  <1>1. TypeOK /\ pc[i] = "begin" /\ UNCHANGED <<state, mode>>
    BY DEF ProgressKnown, IInv, EnsureRunStarted, scratch
  <1>2. RunSeen(i) /\ view[i].run = run
    BY <1>1 DEF RunSeen, ProgressKnown, ProgressOK
  <1>3. PICK p \in {"prepareRead", "orphanRead"} :
           \/ view[i].run.started = "no" /\ PutRun(i, "RUNNING", "yes", p, "none")
           \/ view[i].run.started = "yes" /\ Goto(i, p) /\ UNCHANGED <<run, view>>
    BY DEF EnsureRunStarted
  <1>4. p \in Phase \ {"claim", "invocation"} /\ p \notin Evaluating
    BY DEF Phase, Evaluating, InNode
  <1>5. CASE view[i].run.started = "no" /\ PutRun(i, "RUNNING", "yes", p, "none")
    <2>1. run.status # "SUCCESS"
      BY <1>2, <1>5 DEF ProgressKnown, StartedOK
    <2>2. "RUNNING" \in RunStatus \ {"none"} /\ "none" \in Outcome
      BY DEF RunStatus, Outcome
    <2>3. QED
      BY <1>1, <1>2, <1>4, <1>5, <2>1, <2>2, ProgressRun
  <1>6. CASE view[i].run.started = "yes" /\ Goto(i, p) /\ UNCHANGED <<run, view>>
    BY <1>1, <1>2, <1>4, <1>6, ProgressGoto
  <1>7. QED
    BY <1>3, <1>5, <1>6

\* The orphan adjudication ends nodes.
LEMMA ProgressOrphans ==
  ASSUME NEW i \in Invocation, ProgressKnown(i),
         ReadOrphans(i) \/ AdjudicateOrphan(i) \/ FinalizeOrphanState(i)
  PROVE  ProgressKept(i)
  <1>1. TypeOK /\ IInv /\ ProcOK(i) /\ UNCHANGED <<run, mode>>
    BY DEF ProgressKnown, IInv, ReadOrphans, AdjudicateOrphan, FinalizeOrphanState, records
  <1>2. pc[i] \in {"orphanRead", "orphan", "orphanState"} /\ pc[i] \in Scheduling /\ RunSeen(i)
    BY DEF ReadOrphans, AdjudicateOrphan, FinalizeOrphanState, Scheduling, RunSeen
  <1>3. /\ {"orphan", "orphanState", "abandon"} \subseteq Phase \ {"claim", "invocation"}
        /\ {"orphan", "orphanState", "abandon"} \cap Evaluating = {}
    BY DEF Phase, Evaluating, InNode
  <1>4. CASE ReadOrphans(i)
    <2>1. Goto(i, "orphan") /\ UNCHANGED state
          /\ view' = [view EXCEPT ![i].state = state, ![i].attempt = attempt]
      BY <1>4 DEF ReadOrphans, records
    <2>2. pc'[i] = "orphan" /\ \A k \in Invocation \ {i} : pc'[k] = pc[k]
      BY <1>1, <1>3, <2>1, GotoMoves
    <2>3. view'[i].run = view[i].run
      BY <1>1, <2>1, RecordsRead
    <2>4. QED
      BY <1>1, <1>2, <1>3, <2>1, <2>2, <2>3, ProgressQuiet
  <1>5. CASE AdjudicateOrphan(i)
    <2>1. pc[i] = "orphan" /\ UNCHANGED state
      BY <1>5 DEF AdjudicateOrphan
    <2>2. CASE Goto(i, "abandon") /\ UNCHANGED view
      BY <1>1, <1>2, <1>3, <2>1, <2>2, ProgressGoto
    <2>3. CASE \E n \in todo[i] :
                  PutAttempt(i, n, view[i].state[n].active, decision[i][n].status,
                             decision[i][n].code,
                             view[i].attempt[n][view[i].state[n].active].started, "orphanState")
      <3>1. PICK n \in todo[i] :
                  PutAttempt(i, n, view[i].state[n].active, decision[i][n].status,
                             decision[i][n].code,
                             view[i].attempt[n][view[i].state[n].active].started, "orphanState")
        BY <2>3
      <3>2. n \in Node /\ OrphanOK(i, n)
        BY <1>1, <2>1 DEF TypeOK, ProcOK, PhaseOK
      <3>3. PICK j \in Invocation : j = view[i].state[n].active
        BY <3>2 DEF OrphanOK
      <3>4. decision[i][n] \in Decision /\ view[i].attempt[n][j].started \in {"no", "yes"}
        BY <1>1, <3>2, RecordTypes
      <3>5. PICK s \in {"RUNNING"} \cup Terminal : s = decision[i][n].status
        BY <3>2, <3>4 DEF OrphanOK, Decision
      <3>6. PICK c \in Code : c = decision[i][n].code
        BY <3>4 DEF Decision
      <3>7. PICK st \in {"no", "yes"} : st = view[i].attempt[n][j].started
        BY <3>4
      <3>8. PutAttempt(i, n, j, s, c, st, "orphanState")
        BY <3>1, <3>3, <3>5, <3>6, <3>7
      <3>9. QED
        BY <1>1, <1>2, <1>3, <2>1, <3>2, <3>8, ProgressAttempt
    <2>4. QED
      BY <1>5, <2>2, <2>3 DEF AdjudicateOrphan
  <1>6. CASE FinalizeOrphanState(i)
    <2>1. pc[i] = "orphanState"
      BY <1>6 DEF FinalizeOrphanState
    <2>2. PICK n \in Node : n = Order[at[i]] /\ n \in todo[i]
      BY <1>1, <2>1, NodeOfPhase DEF NodePhaseOK
    <2>3. PICK s \in Terminal : s = decision[i][n].status
      BY <1>1, <2>1, <2>2, RecordTypes DEF ProcOK, PhaseOK, OrphanOK, Decision
    <2>4. PICK l \in Nat : l = view[i].state[n].latest
      BY <1>1, RecordTypes
    <2> DEFINE r == FALSE
    <2>5. PutState(i, n, s, l, None, r, "orphan") /\ r \in BOOLEAN
      BY <1>6, <2>2, <2>3, <2>4 DEF FinalizeOrphanState
    <2> HIDE DEF r
    <2>6. s \in NodeStatus /\ s # "WAITING" /\ s # "RUNNING"
      BY DEF Terminal, NodeStatus
    <2>7. QED
      BY <1>1, <1>2, <1>3, <2>4, <2>5, <2>6, ProgressState
  <1>7. QED
    BY <1>4, <1>5, <1>6

\* The states are read again: of a SUCCESS Run they are SUCCESS.
LEMMA ProgressStatesRead ==
  ASSUME NEW i \in Invocation, ProgressKnown(i), ReadStates(i)
  PROVE  ProgressKept(i)
  <1>1. TypeOK /\ pc[i] = "prepareRead" /\ UNCHANGED <<run, state>>
    BY DEF ProgressKnown, IInv, ReadStates, records
  <1>2. pc'[i] = "prepare" /\ \A k \in Invocation \ {i} : pc'[k] = pc[k]
    BY <1>1, GotoMoves DEF ReadStates, Phase
  <1>3. view'[i].state = state /\ view'[i].run = view[i].run
    BY <1>1, StatesRead DEF ReadStates
  <1>4. view[i].run = run /\ run.started = "yes"
    BY <1>1 DEF ProgressKnown, ProgressOK, RunSeen, Scheduling
  <1>5. StartedOK'
    BY <1>1 DEF ProgressKnown, StartedOK
  <1>6. ProgressOK(i)'
    BY <1>1, <1>2, <1>3, <1>4 DEF ProgressOK, ProgressKnown, XInv, SuccessfulRunIsFinal
  <1>7. QED
    BY <1>1, <1>2, <1>5, <1>6, StutterStep DEF ProgressKept

\* A resume has nodes wait again that failed or were blocked.
LEMMA ProgressResume ==
  ASSUME NEW i \in Invocation, ProgressKnown(i),
         FinalizeAbandoned(i) \/ PrepareResumeState(i) \/ PrepareDone(i)
  PROVE  ProgressKept(i)
  <1>1. TypeOK /\ UNCHANGED <<run, mode>>
    BY DEF ProgressKnown, IInv, FinalizeAbandoned, PrepareResumeState, PrepareDone, records,
           scratch
  <1>2. pc[i] \in Scheduling /\ RunSeen(i) /\ pc[i] \in {"abandon", "prepare"}
    BY DEF FinalizeAbandoned, PrepareResumeState, PrepareDone, Scheduling, RunSeen
  <1>3. /\ {"prepareRead", "prepare", "loop"} \subseteq Phase \ {"claim", "invocation"}
        /\ "prepareRead" \notin Evaluating /\ {"prepare", "loop"} \subseteq Evaluating
    BY DEF Phase, Evaluating, InNode
  <1>4. ASSUME UNCHANGED <<state, view, pc>> PROVE ProgressKept(i)
    <2>1. /\ pc'[i] # "claim" /\ \A k \in Invocation \ {i} : pc'[k] = pc[k]
          /\ RunSeen(i)' => view'[i].run = view[i].run
          /\ pc'[i] = pc[i] /\ view'[i].state = view[i].state
      BY <1>2, <1>4
    <2>2. QED
      BY <1>1, <1>2, <1>4, <2>1, ProgressQuiet
  <1>5. CASE FinalizeAbandoned(i)
    <2>1. UNCHANGED <<state, view>> /\ (UNCHANGED pc \/ Goto(i, "prepareRead"))
      BY <1>5 DEF FinalizeAbandoned
    <2>2. CASE Goto(i, "prepareRead")
      BY <1>1, <1>2, <1>3, <2>1, <2>2, ProgressGoto
    <2>3. QED
      BY <1>4, <2>1, <2>2
  <1>6. CASE PrepareResumeState(i)
    <2>1. pc[i] = "prepare" /\ pc[i] \in Evaluating
      BY <1>6 DEF PrepareResumeState, Evaluating
    <2>2. PICK n \in Node :
             \/ /\ Retryable(view[i], n)
                /\ PutState(i, n, view[i].state[n].status, view[i].state[n].latest,
                            view[i].state[n].active, FALSE, "prepare")
             \/ /\ view[i].state[n].status = "BLOCKED" \/ Retryable(view[i], n)
                /\ PutState(i, n, "WAITING", view[i].state[n].latest, None, FALSE, "prepare")
             \/ UNCHANGED <<state, view, pc>>
      BY <1>1, <1>6 DEF PrepareResumeState, TypeOK, HeldByBrake
    <2>3. PICK l \in Nat, s \in NodeStatus, a \in Invocation \cup {None} :
             l = view[i].state[n].latest /\ s = view[i].state[n].status
             /\ a = view[i].state[n].active
      BY <1>1, RecordTypes
    <2> DEFINE r == FALSE
    <2>4. \/ s \in {"FAILED", "CANCELLED"} /\ PutState(i, n, s, l, a, r, "prepare")
          \/ s \in {"BLOCKED", "FAILED", "CANCELLED"} /\ PutState(i, n, "WAITING", l, None, r, "prepare")
          \/ UNCHANGED <<state, view, pc>>
      BY <2>2, <2>3 DEF Retryable
    <2>5. r \in BOOLEAN /\ "WAITING" \in NodeStatus
      BY DEF NodeStatus
    <2> HIDE DEF r
    <2>6. run.status = "SUCCESS" => s = "SUCCESS"
      BY <2>1, <2>3 DEF ProgressKnown, ProgressOK
    <2>7. CASE s \in {"FAILED", "CANCELLED"} /\ PutState(i, n, s, l, a, r, "prepare")
      BY <1>1, <1>2, <1>3, <2>1, <2>3, <2>5, <2>6, <2>7, ProgressState
    <2>8. CASE /\ s \in {"BLOCKED", "FAILED", "CANCELLED"}
               /\ PutState(i, n, "WAITING", l, None, r, "prepare")
      <3>1. run.status # "SUCCESS" /\ ~(view[i].state[n] = state[n] /\ state[n].status = "SUCCESS")
        BY <2>3, <2>6, <2>8
      <3>2. QED
        BY <1>1, <1>2, <1>3, <2>1, <2>3, <2>5, <2>8, <3>1, ProgressState
    <2>9. QED
      BY <1>4, <2>4, <2>7, <2>8
  <1>7. CASE PrepareDone(i)
    <2>1. Goto(i, "loop") /\ UNCHANGED <<state, view>> /\ pc[i] = "prepare"
      BY <1>7 DEF PrepareDone, records
    <2>2. QED
      BY <1>1, <1>2, <1>3, <2>1, ProgressGoto
  <1>8. QED
    BY <1>5, <1>6, <1>7

\* The loop passes nodes and blocks some, none in a SUCCESS Run.
LEMMA ProgressLoop ==
  ASSUME NEW i \in Invocation, ProgressKnown(i), PassNode(i) \/ BlockNode(i)
  PROVE  ProgressKept(i)
  <1>1. TypeOK /\ pc[i] = "loop" /\ UNCHANGED <<run, mode>>
    BY DEF ProgressKnown, IInv, PassNode, BlockNode, InLoop, records, scratch
  <1>2. pc[i] \in Scheduling /\ RunSeen(i) /\ pc[i] \in Evaluating
    BY <1>1 DEF Scheduling, RunSeen, Evaluating
  <1>3. {"finish", "blocked"} \subseteq Phase \ {"claim", "invocation"}
    BY DEF Phase
  <1>4. CASE PassNode(i)
    <2>1. UNCHANGED <<state, view>> /\ (UNCHANGED pc \/ Goto(i, "finish"))
      BY <1>4 DEF PassNode, records
    <2>2. CASE Goto(i, "finish")
      BY <1>1, <1>2, <1>3, <2>1, <2>2, ProgressGoto
    <2>3. CASE UNCHANGED pc
      BY <1>1, <1>2, <2>1, <2>3, ProgressQuiet
    <2>4. QED
      BY <2>1, <2>2, <2>3
  <1>5. CASE BlockNode(i)
    <2>1. PICK n \in Node : n = Order[at[i]]
      <3>1. at[i] \in 1..Len(Order) + 1 /\ Len(Order) \in Nat /\ at[i] <= Len(Order)
        BY <1>1, <1>5, Positions DEF ProgressKnown, IInv, ProcOK, PhaseOK, AtOK, BlockNode, InLoop
      <3>2. at[i] \in 1..Len(Order)
        BY <3>1
      <3>3. QED
        BY <3>2, Positions
    <2>2. PICK l \in Nat, a \in Invocation \cup {None} :
             l = view[i].state[n].latest /\ a = view[i].state[n].active
      BY <1>1, RecordTypes
    <2> DEFINE r == FALSE
    <2>3. PutState(i, n, "BLOCKED", l, a, r, "blocked") /\ r \in BOOLEAN
      BY <1>5, <2>1, <2>2 DEF BlockNode
    <2> HIDE DEF r
    <2>4. view[i].state[n].status # "SUCCESS"
      BY <1>5, <2>1 DEF BlockNode, Passed
    <2>5. run.status # "SUCCESS" /\ "BLOCKED" \in NodeStatus
      BY <1>2, <2>4 DEF ProgressKnown, ProgressOK, NodeStatus
    <2>6. QED
      BY <1>1, <1>2, <1>3, <2>2, <2>3, <2>5, ProgressState
  <1>6. QED
    BY <1>4, <1>5

\* The node boundary.
LEMMA ProgressBoundary ==
  ASSUME NEW i \in Invocation, ProgressKnown(i),
         StopCheck(i) \/ AcceptStop(i) \/ StartRefused(i) \/ LeaseInterrupted(i)
  PROVE  ProgressKept(i)
  <1>1. UNCHANGED <<run, state, view, mode>>
    BY DEF StopCheck, AcceptStop, StartRefused, LeaseInterrupted, records, scratch
  <1>2. CASE End(i, "stopped") \/ End(i, "interrupted")
    BY <1>1, <1>2, ProgressEnd DEF Outcome
  <1>3. CASE ~(End(i, "stopped") \/ End(i, "interrupted"))
    <2>1. PICK p \in {"accept", "start", "finish"} : Goto(i, p)
      BY <1>3 DEF StopCheck, AcceptStop, StartRefused, LeaseInterrupted
    <2>2. p \in Phase \ {"claim"}
      BY DEF Phase
    <2>3. pc[i] \in {"loop", "accept", "start"}
      BY <1>3 DEF StopCheck, AcceptStop, StartRefused, LeaseInterrupted, InLoop
    <2>4. RunSeen(i) /\ pc[i] \in Scheduling /\ pc[i] \in Evaluating
      BY <2>3 DEF RunSeen, Scheduling, Evaluating
    <2>5. QED
      BY <1>1, <2>1, <2>2, <2>4, ProgressGoto
  <1>4. QED
    BY <1>2, <1>3

\* The attempt gets the number after the node's latest.
LEMMA ProgressCreate ==
  ASSUME NEW i \in Invocation, ProgressKnown(i), CreateAttempt(i)
  PROVE  ProgressKept(i)
  <1>1. TypeOK /\ IInv /\ pc[i] = "start" /\ UNCHANGED <<run, state, mode, at>>
    BY DEF ProgressKnown, IInv, CreateAttempt, scratch
  <1>2. CASE End(i, "failed")
    BY <1>1, <1>2, ProgressEnd DEF Outcome
  <1>3. CASE ~End(i, "failed")
    <2>1. PICK n \in Node : n = Order[at[i]]
      BY <1>1, NodeOfPhase
    <2> DEFINE no == view[i].state[n].latest + 1
               new == [NoAttempt EXCEPT !.status = "RUNNING", !.rev = 1, !.no = no,
                                        !.before = view[i].state[n].rev]
    <2>2. /\ attempt' = [attempt EXCEPT ![n][i] = new]
          /\ view' = [view EXCEPT ![i].attempt[n][i] = new]
          /\ Goto(i, "claim")
      BY <1>3, <2>1 DEF CreateAttempt
    <2>3. new \in AttemptRecord /\ new.no = no
      <3>1. no \in Nat /\ 1 \in Nat /\ view[i].state[n].rev \in Nat
        BY <1>1, RecordTypes
      <3> HIDE DEF no
      <3>2. QED
        BY <3>1, TypesOfNothing DEF AttemptRecord
    <2> HIDE DEF new
    <2>4. /\ view'[i].state = view[i].state /\ view'[i].run = view[i].run
          /\ attempt'[n][i] = new
      BY <1>1, <2>2, <2>3, AttemptWritten DEF WroteAttempt
    <2>5. pc'[i] = "claim" /\ \A k \in Invocation \ {i} : pc'[k] = pc[k]
      BY <1>1, <2>2, GotoMoves DEF Phase
    <2>6. NextNumber(i, Order[at[i]])'
      BY <1>1, <2>1, <2>3, <2>4 DEF NextNumber
    <2>7. RunSeen(i) /\ pc[i] \in Scheduling /\ pc[i] \in Evaluating
      BY <1>1 DEF RunSeen, Scheduling, Evaluating
    <2>8. QED
      BY <1>1, <2>4, <2>5, <2>6, <2>7, ProgressQuiet
  <1>4. QED
    BY <1>2, <1>3

\* A claimed node starts.
LEMMA ProgressClaim ==
  ASSUME NEW i \in Invocation, ProgressKnown(i), ClaimNode(i)
  PROVE  ProgressKept(i)
  <1>1. TypeOK /\ IInv /\ ProcOK(i) /\ pc[i] = "claim" /\ UNCHANGED <<run, at>>
    BY DEF ProgressKnown, IInv, ClaimNode, scratch
  <1>2. PICK n \in Node : n = Order[at[i]] /\ NodePhaseOK(i, n)
    BY <1>1, NodeOfPhase DEF InNode
  <1>3. view[i].state[n].status = "WAITING" /\ view[i].attempt[n][i].no # 0
    BY <1>1, <1>2 DEF NodePhaseOK, InNode
  <1>4. PICK l \in Nat : l = view[i].attempt[n][i].no
    BY <1>1, RecordTypes
  <1> DEFINE r == FALSE
  <1>5. PutState(i, n, "RUNNING", l, i, r, "ready") /\ r \in BOOLEAN
    BY <1>2, <1>4 DEF ClaimNode
  <1> HIDE DEF r
  <1>6. "RUNNING" \in NodeStatus /\ "ready" \in Phase
    BY DEF NodeStatus, Phase
  <1>7. /\ \A k \in Invocation \ {i} : pc'[k] = pc[k]
        /\ \/ /\ WroteState(i, n, "RUNNING", l, i) /\ pc'[i] = "ready"
           \/ /\ pc'[i] = "close" /\ UNCHANGED <<state, view>>
    BY <1>1, <1>5, <1>6, PutStateMoves
  <1>8. CASE pc'[i] = "close" /\ UNCHANGED <<state, view>>
    BY <1>1, <1>7, <1>8, ProgressClose
  <1>9. CASE WroteState(i, n, "RUNNING", l, i) /\ pc'[i] = "ready"
    <2>1. view[i].state[n] = state[n] /\ attempt[n][i].no = l
      BY <1>1, <1>3, <1>4, <1>9 DEF WroteState, ProcOK, SeenState, SeenAttempt
    <2>2. l = state[n].latest + 1
      BY <1>1, <1>2, <2>1 DEF ProgressKnown, ProgressOK, NextNumber
    <2>3. /\ state'[n].status = "RUNNING" /\ state'[n].latest = l
          /\ \A m \in Node \ {n} : state'[m] = state[m]
          /\ view'[i].run = view[i].run
      BY <1>9 DEF WroteState
    <2>4. view[i].run = run /\ run.started = "yes" /\ run.status # "SUCCESS"
      BY <1>1, <1>3
         DEF ProgressKnown, ProgressOK, RunSeen, Scheduling, Evaluating, InNode
    <2>5. StartedOK'
      BY <1>1, <2>4 DEF ProgressKnown, StartedOK
    <2>6. ProgressOK(i)'
      BY <1>1, <1>9, <2>3, <2>4 DEF ProgressOK
    <2>7. ASSUME NEW d \in DependsOn[n] PROVE d \in Node /\ state[d].status = "SUCCESS"
      <3>1. d \in Node
        BY NetworkAssumption
      <3>2. view[i].state[d].status = "SUCCESS"
        BY <1>1, <1>2 DEF ProgressKnown, XInv, OwnerOK, DependenciesOK
      <3>3. view[i].state[d] = state[d]
        BY <1>1, <3>1, <3>2 DEF ProgressKnown, XInv, OwnerOK, SyncedOK, Evaluating, InNode
      <3>4. QED
        BY <3>1, <3>2, <3>3
    <2> DEFINE W == WorkflowStatuses
               L == [m \in Node |-> state[m].latest]
               f == run.status = "SUCCESS"
    <2>8. W' = [W EXCEPT ![n] = "running"]
      <3>1. WorkflowStatus(state'[n].status) = "running"
        BY <2>3, WorkflowValues
      <3>2. WorkflowStatuses' = [WorkflowStatuses EXCEPT ![n] = WorkflowStatus(state'[n].status)]
        BY <2>3, OneState
      <3>3. QED
        BY <3>1, <3>2
    <2>9. L' = [L EXCEPT ![n] = L[n] + 1]
      <3>1. L' = [L EXCEPT ![n] = l]
        BY <2>3, OneState
      <3>2. QED
        BY <2>2, <3>1
    <2>10. W[n] = "waiting"
      BY <1>3, <2>1, WorkflowValues DEF WorkflowStatuses
    <2>11. \A d \in DependsOn[n] : W[d] = "succeeded"
      BY <2>7, WorkflowValues DEF WorkflowStatuses
    <2>12. f' <=> f
      BY <1>1
    <2>13. WorkflowStep
      BY <2>8, <2>9, <2>10, <2>11, <2>12
         DEF WorkflowStatuses, WorkflowStep, Workflow!workflowVars, Workflow!WorkflowNext,
             Workflow!Start, Workflow!Become
    <2>14. QED
      BY <1>7, <2>5, <2>6, <2>13 DEF ProgressKept
  <1>10. QED
    BY <1>7, <1>8, <1>9

\* The aggregate after a node and at the end.
LEMMA ProgressAggregates ==
  ASSUME NEW i \in Invocation, ProgressKnown(i), UpdateAggregate(i) \/ FinishLoop(i)
  PROVE  ProgressKept(i)
  <1>1. TypeOK /\ UNCHANGED state /\ pc[i] \in {"aggregate", "blocked", "finish"}
    BY DEF ProgressKnown, IInv, UpdateAggregate, FinishLoop
  <1>2. RunSeen(i) /\ pc[i] \in Scheduling /\ pc[i] \in Evaluating
    BY <1>1 DEF RunSeen, Scheduling, Evaluating
  <1>3. view[i].run.started = "yes"
    BY <1>2 DEF ProgressKnown, ProgressOK
  <1>4. PICK s \in RunStatus : s = Aggregate(Statuses(view[i]), view[i].run.started)
    BY AggregateType
  <1>5. PICK p \in {"loop", "close"}, how \in {"drained", "none", "finished"} :
           PutRun(i, s, "yes", p, how)
    BY <1>3, <1>4 DEF UpdateAggregate, FinishLoop
  <1>6. p \in Phase \ {"claim", "invocation"} /\ how \in Outcome
    BY DEF Phase, Outcome
  <1>7. /\ s \in RunStatus \ {"none"}
        /\ s = "SUCCESS" => \A n \in Node : /\ state[n].status = "SUCCESS"
                                            /\ view[i].state[n].status = "SUCCESS"
        /\ run.status = "SUCCESS" => s = "SUCCESS"
    BY <1>2, <1>4, ProgressAggregate
  <1>8. QED
    BY <1>1, <1>2, <1>5, <1>6, <1>7, ProgressRun

\* The attempt executor ends nodes.
LEMMA ProgressExecute ==
  ASSUME NEW i \in Invocation, ProgressKnown(i), OutputPathRejected(i) \/ Execute(i)
  PROVE  ProgressKept(i)
  <1>1. /\ TypeOK /\ IInv /\ UNCHANGED <<run, mode>>
        /\ pc[i] \in InNode \ {"claim"}
    BY DEF ProgressKnown, IInv, Execute, OutputPathRejected, SetAttemptExecutionStarted, Launch,
           ClassifyResult, AuthorizeResult, FinalizeAttempt, ApplyResult, InNode, records, scratch
  <1>2. RunSeen(i) /\ pc[i] \in Scheduling /\ pc[i] \in Evaluating
    BY <1>1 DEF RunSeen, Scheduling, Evaluating
  <1>3. {"launch", "wait", "authorize", "persist", "apply", "aggregate"}
           \subseteq Phase \ {"claim", "invocation"}
    BY DEF Phase
  <1>4. PICK n \in Node : n = Order[at[i]] /\ NodePhaseOK(i, n)
    BY <1>1, NodeOfPhase
  <1>5. CASE SetAttemptExecutionStarted(i)
    <2>1. PutAttempt(i, n, i, "RUNNING", "PENDING", "yes", "launch") /\ UNCHANGED state
      BY <1>4, <1>5 DEF SetAttemptExecutionStarted
    <2>2. "PENDING" \in Code /\ "RUNNING" \in {"RUNNING"} \cup Terminal
      BY DEF Code
    <2>3. QED
      BY <1>1, <1>2, <1>3, <2>1, <2>2, ProgressAttempt
  <1>6. CASE FinalizeAttempt(i)
    <2>1. pc[i] = "persist" /\ UNCHANGED state
      BY <1>6 DEF FinalizeAttempt
    <2>2. PICK s \in {"RUNNING"} \cup Terminal, c \in Code, st \in {"no", "yes"} :
             /\ s = decision[i][n].status /\ c = decision[i][n].code
             /\ st = view[i].attempt[n][i].started
      BY <1>1, <1>4, <2>1, RecordTypes DEF NodePhaseOK, Decision
    <2>3. PutAttempt(i, n, i, s, c, st, "apply")
      BY <1>4, <1>6, <2>2 DEF FinalizeAttempt
    <2>4. QED
      BY <1>1, <1>2, <1>3, <2>1, <2>3, ProgressAttempt
  <1>7. CASE ApplyResult(i)
    <2>1. pc[i] = "apply"
      BY <1>7 DEF ApplyResult
    <2>2. view[i].state[n].status = "RUNNING" /\ decision[i][n].status \in Terminal
      BY <1>1, <1>4, <2>1, RecordTypes DEF NodePhaseOK, InNode, Decision
    <2>3. PICK s \in NodeStatus :
             s = IF decision[i][n].code = "PREPARE_FAILED" THEN "WAITING" ELSE decision[i][n].status
      BY <2>2 DEF Terminal, NodeStatus
    <2>4. PICK l \in Nat : l = view[i].state[n].latest
      BY <1>1, RecordTypes
    <2> DEFINE r == FALSE
    <2>5. PutState(i, n, s, l, None, r, "aggregate") /\ r \in BOOLEAN
      BY <1>4, <1>7, <2>3, <2>4 DEF ApplyResult
    <2> HIDE DEF r
    <2>6. s # "RUNNING"
      BY <2>2, <2>3 DEF Terminal
    <2>7. run.status # "SUCCESS" /\ ~(view[i].state[n] = state[n] /\ state[n].status = "SUCCESS")
      BY <1>2, <2>2 DEF ProgressKnown, ProgressOK
    <2>8. QED
      BY <1>1, <1>2, <1>3, <2>4, <2>5, <2>6, <2>7, ProgressState
  <1>8. CASE \E p \in {"authorize", "wait", "persist"} : Goto(i, p) /\ UNCHANGED <<state, view>>
    BY <1>1, <1>2, <1>3, <1>8, ProgressGoto
  <1>9. QED
    BY <1>5, <1>6, <1>7, <1>8
       DEF Execute, OutputPathRejected, Launch, ClassifyResult, AuthorizeResult, records

\* close, release, crashes and errors.
LEMMA ProgressEnds ==
  ASSUME NEW i \in Invocation, ProgressKnown(i),
         ConfirmForDrain(i) \/ Close(i) \/ Release(i) \/ Faults(i)
  PROVE  ProgressKept(i)
  <1>1. TypeOK /\ UNCHANGED <<run, state>>
    BY DEF ProgressKnown, IInv, ConfirmForDrain, Close, Release, Faults, LoseLease, Fail, Crash,
           records
  <1>2. CASE LoseLease(i) \/ ConfirmForDrain(i)
    <2>1. UNCHANGED <<pc, view, at, mode, attempt>>
      BY <1>2 DEF LoseLease, ConfirmForDrain, records
    <2>2. pc'[i] = "claim" => NextNumber(i, Order[at[i]])'
      BY <2>1 DEF NextNumber, ProgressKnown, ProgressOK
    <2>3. RunSeen(i)' => RunSeen(i)
      BY <2>1 DEF RunSeen
    <2>4. QED
      BY <1>1, <2>1, <2>2, <2>3, ProgressQuiet
  <1>3. CASE \E p \in {"release", "done", "crashed"} : Goto(i, p)
    <2>1. /\ pc'[i] \in {"release", "done", "crashed"}
          /\ \A k \in Invocation \ {i} : pc'[k] = pc[k]
      BY <1>1, <1>3, GotoMoves DEF Phase
    <2>2. QED
      BY <1>1, <2>1, ProgressClose
  <1>4. CASE End(i, "failed")
    BY <1>1, <1>4, ProgressEnd DEF Outcome
  <1>5. QED
    BY <1>2, <1>3, <1>4 DEF Close, Release, Faults, Fail, Crash

\* Every step of a process that has the Run open, faults included.
LEMMA ProgressAtStep ==
  ASSUME NEW i \in Invocation, ProgressKnown(i), Step(i) \/ Faults(i)
  PROVE  ProgressKept(i)
  <1>1. CASE Prepare(i)
    BY <1>1, ProgressPreparation, ProgressRepair, ProgressReconciled, ProgressRerun DEF Prepare
  <1>2. CASE Schedule(i)
    BY <1>2, ProgressStarted, ProgressOrphans, ProgressStatesRead, ProgressResume, ProgressLoop,
       ProgressBoundary, ProgressCreate, ProgressClaim, ProgressAggregates, ProgressExecute,
       ProgressEnds DEF Schedule
  <1>3. QED
    BY <1>1, <1>2, ProgressExecute, ProgressEnds DEF Step

\* Opening the Run.
LEMMA ProgressAtOpen ==
  ASSUME NEW i \in Invocation, ProgressKnown(i), Open(i)
  PROVE  ProgressKept(i)
  <1>1. TypeOK /\ UNCHANGED state
    BY DEF ProgressKnown, IInv, Open, OpenNew, OpenRefused, OpenExisting, records
  <1>2. CASE OpenNew(i)
    <2>1. pc'[i] = "invocation" /\ \A k \in Invocation \ {i} : pc'[k] = pc[k]
      BY <1>1, <1>2, GotoMoves DEF OpenNew, Phase
    <2>2. mode'[i] = "NEW" /\ run'.status = "CREATED" /\ run'.started = "no"
          /\ run.status = "none"
      BY <1>1, <1>2 DEF OpenNew, TypeOK
    <2>3. StartedOK'
      BY <1>1, <2>2 DEF ProgressKnown, StartedOK
    <2>4. ProgressOK(i)'
      BY <2>1, <2>2 DEF ProgressOK, RunSeen, Scheduling, Evaluating, InNode
    <2>5. WorkflowStep
      BY <1>1, <2>2, FinishStep
    <2>6. QED
      BY <2>1, <2>3, <2>4, <2>5 DEF ProgressKept
  <1>3. CASE OpenRefused(i)
    <2>1. pc'[i] = "done" /\ \A k \in Invocation \ {i} : pc'[k] = pc[k] /\ UNCHANGED run
      BY <1>1, <1>3, GotoMoves DEF OpenRefused, Phase, records
    <2>2. UNCHANGED run
      BY <1>3 DEF OpenRefused, records
    <2>3. QED
      BY <1>1, <2>1, <2>2, ProgressClose
  <1>4. CASE OpenExisting(i)
    <2>1. \/ Goto(i, "invocation") /\ mode' = [mode EXCEPT ![i] = "RESUME"]
          \/ Goto(i, "ensure")
      BY <1>4 DEF OpenExisting
    <2>2. /\ \/ pc'[i] = "invocation" /\ mode'[i] = "RESUME"
             \/ pc'[i] = "ensure"
          /\ \A k \in Invocation \ {i} : pc'[k] = pc[k]
      BY <1>1, <2>1, GotoMoves DEF TypeOK, Phase
    <2>3. UNCHANGED run
      BY <1>4 DEF OpenExisting, records
    <2>4. /\ ~RunSeen(i)' /\ pc'[i] \notin Scheduling /\ pc'[i] # "claim"
          /\ pc'[i] \notin Evaluating
      BY <2>2 DEF RunSeen, Scheduling, Evaluating, InNode
    <2>5. QED
      BY <1>1, <2>2, <2>3, <2>4, ProgressQuiet
  <1>5. QED
    BY <1>2, <1>3, <1>4 DEF Open

\* What runs beside the owner: resolve-node decides what a result was.
LEMMA ProgressBeside ==
  ASSUME IInv, XInv, ProgressInv,
         \/ ForceUnlock \/ Resolve \/ Stop \/ UNCHANGED vars
         \/ \E n \in Node, i \in Invocation : JobStep(n, i)
  PROVE  ProgressInv' /\ WorkflowStep
  <1>1. UNCHANGED <<run, attempt, pc, view, at, mode>>
    BY DEF ForceUnlock, Resolve, ResolveRead, ResolveAppend, ResolveApply, ResolverDies, Stop,
           StopRead, StopWrite, vars, JobStep, records, scratch
  <1>2. ASSUME NEW i \in Invocation PROVE ProgressOK(i)'
    <2>1. ProgressOK(i)
      BY DEF ProgressInv
    <2>2. QED
      BY <1>1, <2>1 DEF ProgressOK, RunSeen, NextNumber
  <1>3. CASE UNCHANGED state
    <2>1. StartedOK'
      BY <1>1, <1>3 DEF ProgressInv, StartedOK
    <2>2. QED
      BY <1>1, <1>2, <1>3, <2>1, StutterStep DEF ProgressInv
  <1>4. CASE ResolveApply
    <2>1. TypeOK /\ ResolverOK /\ resolver.stage = "apply"
      BY <1>4 DEF IInv, ResolveApply
    <2>2. PICK n \in Node, s \in Outcomes : n = resolver.node /\ s = resolver.to
      BY <2>1 DEF TypeOK, ResolverRecord
    <2> DEFINE r == TRUE
    <2>3. r \in BOOLEAN
      OBVIOUS
    <2>4. CASE ~StateWritable(n, resolver.old, s, r)
      BY <1>3, <1>4, <2>2, <2>4 DEF ResolveApply
    <2>5. CASE StateWritable(n, resolver.old, s, r)
      <3>1. state' = [state EXCEPT ![n] = [status |-> s, rev |-> state[n].rev + 1,
                                           latest |-> state[n].latest, active |-> None]]
        <4>1. state[n].rev = resolver.old.rev
          BY <2>5 DEF StateWritable
        <4>2. QED
          BY <1>4, <2>1, <2>2, <2>5, <4>1 DEF ResolveApply, NewState, TypeOK
      <3>2. /\ state'[n].status = s /\ state'[n].latest = state[n].latest
            /\ \A m \in Node \ {n} : state'[m] = state[m]
        BY <2>1, <3>1 DEF TypeOK
      <3>3. s \in NodeStatus /\ s # "RUNNING" /\ s # "WAITING"
        BY DEF Outcomes, NodeStatus
      <3>4. StartedOK'
        <4>1. ASSUME NEW m \in Node PROVE state'[m].latest = state[m].latest
          BY <3>2
        <4>2. QED
          BY <1>1, <4>1 DEF ProgressInv, StartedOK
      <3> HIDE DEF r
      <3>5. WorkflowStep
        BY <1>1, <2>1, <2>3, <2>5, <3>2, <3>3, NodeStep
      <3>6. QED
        BY <1>2, <3>4, <3>5 DEF ProgressInv
    <2>6. QED
      BY <2>4, <2>5
  <1>5. QED
    BY <1>3, <1>4 DEF ForceUnlock, Resolve, ResolveRead, ResolveAppend, ResolverDies, Stop,
       StopRead, StopWrite, vars, JobStep, records

\* Under the lock's exclusion one process at a time knows anything.
LEMMA ProgressOwnerStep ==
  ASSUME IInv, XInv, ProgressInv, NEW i \in Invocation, Live(i) \/ owner = None,
         ProgressKept(i)
  PROVE  ProgressInv' /\ WorkflowStep
  <1>1. ASSUME NEW k \in Invocation, k # i PROVE ProgressOK(k)'
    <2>1. Live(k) => owner = k
      BY DEF XInv, OwnerOK
    <2>2. Live(i) => owner = i
      BY DEF XInv, OwnerOK
    <2>3. ~Live(k)
      BY <1>1, <2>1, <2>2, ExecutionAssumption
    <2>4. pc'[k] \in {"idle", "done", "crashed"}
      BY <1>1, <2>3 DEF Live, ProgressKept
    <2>5. QED
      BY <2>4 DEF ProgressOK, RunSeen, Scheduling, Evaluating, InNode
  <1>2. QED
    BY <1>1 DEF ProgressInv, ProgressKept

\* No Run, no node, no process.
LEMMA InitProgress ==
  ASSUME Init
  PROVE  ProgressInv
  <1>1. /\ \A i \in Invocation : pc[i] = "idle"
        /\ run.status = "none" /\ run.started = "no"
        /\ \A n \in Node : state[n].latest = 0
    BY DEF Init, NoRun, NoView, NoState
  <1>2. \A i \in Invocation : ProgressOK(i)
    BY <1>1 DEF ProgressOK, RunSeen, Scheduling, Evaluating, InNode
  <1>3. QED
    BY <1>1, <1>2 DEF ProgressInv, StartedOK

\* The invariant is inductive, and every step is one of the workflow.
LEMMA NextProgress ==
  ASSUME Exclusive, IInv, XInv, ProgressInv, [Next]_vars
  PROVE  ProgressInv' /\ WorkflowStep
  <1>1. ASSUME NEW i \in Invocation PROVE ProgressKnown(i)
    BY DEF ProgressKnown, ProgressInv
  <1>2. ASSUME NEW i \in Invocation, Step(i) \/ Faults(i)
        PROVE  ProgressInv' /\ WorkflowStep
    <2>1. Live(i)
      BY <1>2, StepsAlive
    <2>2. ProgressKept(i)
      BY <1>1, <1>2, ProgressAtStep
    <2>3. QED
      BY <2>1, <2>2, ProgressOwnerStep
  <1>3. ASSUME NEW i \in Invocation, Open(i)
        PROVE  ProgressInv' /\ WorkflowStep
    <2>1. owner = None
      BY <1>3 DEF Open, OpenNew, OpenRefused, OpenExisting, LockFree
    <2>2. ProgressKept(i)
      BY <1>1, <1>3, ProgressAtOpen
    <2>3. QED
      BY <2>1, <2>2, ProgressOwnerStep
  <1>4. QED
    BY <1>2, <1>3, ProgressBeside DEF Next

\* The Run before it exists is a workflow none of whose nodes has started.
LEMMA InitWorkflow ==
  ASSUME Init
  PROVE  Workflow!WorkflowInit
  <1>1. \A n \in Node : state[n].status = "none" /\ state[n].latest = 0
    BY DEF Init, NoView, NoState
  <1>2. run.status # "SUCCESS"
    BY DEF Init, NoRun
  <1>3. [n \in Node |-> WorkflowStatus(state[n].status)] = [n \in Node |-> "waiting"]
    BY <1>1, WorkflowValues
  <1>4. [n \in Node |-> state[n].latest] = [n \in Node |-> 0]
    BY <1>1
  <1> DEFINE f == run.status = "SUCCESS"
  <1>5. f <=> FALSE
    BY <1>2
  <1>6. QED
    BY <1>3, <1>4, <1>5 DEF Workflow!WorkflowInit

\* What the refinement rests on, when the Network lock excludes: the owner's
\* copy of the Run record is the record, a Run is started before its nodes are
\* and before it can succeed, an attempt about to be claimed has the number
\* after the node's latest, and of a SUCCESS Run every copy is SUCCESS.
THEOREM ProgressInvariant ==
  ASSUME Exclusive
  PROVE  Spec => []ProgressInv
  <1>1. Init => ProgressInv
    BY InitProgress
  <1>2. IInv /\ XInv /\ ProgressInv /\ [Next]_vars => ProgressInv'
    BY NextProgress
  <1>3. QED
    BY <1>1, <1>2, RunInvariant, OwnerInvariant, PTL DEF Spec

\* Crashed, resumed, rerun and reconciled invocations and the resolutions
\* beside them amount to the workflow of NetworkWorkflow, for any network and
\* any number of invocations and faults, when the Network lock excludes.
THEOREM RunImplementsWorkflow ==
  ASSUME Exclusive
  PROVE  Spec => ImplementsWorkflow
  <1>1. Init => Workflow!WorkflowInit
    BY InitWorkflow
  <1>2. IInv /\ XInv /\ ProgressInv /\ [Next]_vars
           => [UNCHANGED Workflow!workflowVars \/ Workflow!WorkflowNext]_(Workflow!workflowVars)
    BY NextProgress DEF WorkflowStep
  <1>3. QED
    BY <1>1, <1>2, RunInvariant, OwnerInvariant, ProgressInvariant, PTL
       DEF Spec, ImplementsWorkflow, Workflow!WorkflowSpec
=============================================================================
