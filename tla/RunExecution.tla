---------------------------- MODULE RunExecution ----------------------------
(***************************************************************************)
(* The life of one Network Run: the CLI invocations that create, resume    *)
(* and rerun it (orchestration/ensure-run.ts), the reconciliation before   *)
(* the DAG is evaluated (reconciliation.ts), the adjudication of orphaned  *)
(* attempts (orphan-attempt-adjudication.ts), the sequential scheduler     *)
(* (sequential-scheduler.ts) and the attempt executor                      *)
(* (executor/attempt-executor.ts), the jobs they start, and the operators  *)
(* who resolve nodes (resolve-node.ts) and stop the Run (cancel-request.ts)*)
(* without holding the Network lock.                                       *)
(*                                                                         *)
(* Every write is a compare-and-set on the record's revision (persistence/ *)
(* kintone/repository.ts).  A process works on the versioned records it    *)
(* read (`view`), writes one record per step, and may crash, lose its      *)
(* lease or meet an error between any two steps.  The reads of one phase   *)
(* are one step: a mixture of older and newer records could only add       *)
(* compare-and-sets that fail.                                             *)
(*                                                                         *)
(* An invocation makes at most one attempt per node, so <<node,            *)
(* invocation>> stands for the node_attempt_id.                            *)
(***************************************************************************)
EXTENDS RunRecords

CONSTANTS
    Invocation,     \* run-network processes on this Run
    None,           \* no invocation
    Exclusive,      \* TRUE: the Network lock excludes (NetworkLock!MutualExclusion)
    BrakeLimit,     \* equal trailing failures that brake a retry (3 in the code)
    MaxFaults,      \* bound: crashes, errors and lease losses
    MaxCalls        \* bound: resolve-node and cancel-run calls

ASSUME ExecutionAssumption ==
    /\ None \notin Invocation
    /\ Exclusive \in BOOLEAN
    /\ BrakeLimit \in Nat \ {0}
    /\ MaxFaults \in Nat /\ MaxCalls \in Nat

VARIABLES
    run,        \* the NETWORK_RUN record
    state,      \* the NODE_STATE record of each node
    attempt,    \* the NODE_ATTEMPT record of each node and invocation
    resolved,   \* the outcomes of each attempt's ATTEMPT_RESOLUTION records
    cancel,     \* the CANCEL_REQUEST record
    invRec,     \* the status of each RUN_INVOCATION record
    job,        \* what the kSQL-Flow job of each attempt has really done
    owner,      \* the holder of the Network lock
    pc,         \* where each invocation is
    mode,       \* its RUN_INVOCATION mode
    at,         \* its position in Order
    sel,        \* the nodes of RERUN_FROM
    todo,       \* the nodes its current phase has still to treat
    excl,       \* its excluded nodes
    view,       \* the versioned records it works on
    lease,      \* its LeaseMonitor: HELD, (LEASE_)UNCERTAIN, FINAL(_WRITE_CONFIRMED)
    decision,   \* the outcome it decided for an attempt
    seen,       \* the CANCEL_REQUEST revision it read
    outcome,    \* how it ends
    resolver,   \* the resolve-node call in progress
    stopper,    \* the cancel-run call in progress
    used,       \* how much of each bound is used up
    heldStarts  \* history: attempts created since the current hold began

records == <<run, state, attempt, resolved, cancel, invRec>>
scratch == <<mode, at, sel, todo, excl, lease, decision, seen>>
env == <<resolver, stopper, used, heldStarts>>
vars == <<records, job, owner, pc, outcome, view, scratch, env>>

-----------------------------------------------------------------------------
(* Types. *)

Outcomes == {"SUCCESS", "FAILED", "CANCELLED"}
RunRecord == [status : RunStatus, started : {"no", "yes"}, rev : Nat]
StateRecord == [status : NodeStatus, rev : Nat, latest : Nat,
                active : Invocation \cup {None}]
\* result_code: PREPARE_FAILED, an IO path error, the failure kind of a result.
Code == {"PENDING", "PREPARE_FAILED", "IO_PATH", "RESULT"}
AttemptRecord == [status : {"none", "RUNNING"} \cup Terminal,
                  code : Code,
                  rev : Nat, no : Nat, before : Nat, started : {"no", "yes"}]
Decision == [status : {"none"} \cup Terminal, code : Code]
View == [run : RunRecord, state : [Node -> StateRecord],
         attempt : [Node -> [Invocation -> AttemptRecord]],
         resolved : [Node -> [Invocation -> SUBSET Outcomes]]]
JobState == {"none", "launched", "notBegun", "vanished", "RUNNING",
             "died"} \cup Outcomes
Phase == {"idle", "invocation", "ensure", "reconcile", "repair", "rerunRead",
          "rerun", "begin", "orphanRead", "orphan", "orphanState", "abandon", "prepareRead",
          "prepare", "loop", "blocked", "accept", "start", "claim", "ready", "launch",
          "wait", "authorize", "persist", "apply", "aggregate", "finish",
          "close", "release", "done", "crashed"}
Outcome == {"none", "noop", "hold", "refused", "stopped", "failed", "drained",
            "interrupted", "finished"}
ResolverRecord == [stage : {"idle", "append", "apply"}, node : Node,
                   inv : Invocation \cup {None}, to : Outcomes, old : StateRecord]
StopperRecord == [stage : {"idle", "write"}, to : {"REQUESTED", "RELEASED"}, rev : Nat]

TypeOK ==
    /\ run \in RunRecord
    /\ state \in [Node -> StateRecord]
    /\ attempt \in [Node -> [Invocation -> AttemptRecord]]
    /\ resolved \in [Node -> [Invocation -> SUBSET Outcomes]]
    /\ cancel \in [state : {"none", "REQUESTED", "ACCEPTED", "RELEASED"}, rev : Nat]
    /\ invRec \in [Invocation -> {"none", "RUNNING"} \cup Terminal]
    /\ job \in [Node -> [Invocation -> JobState]]
    /\ owner \in Invocation \cup {None}
    /\ pc \in [Invocation -> Phase]
    /\ mode \in [Invocation -> {"NEW", "RESUME", "RERUN_FROM"}]
    /\ at \in [Invocation -> Nat]
    /\ sel \in [Invocation -> SUBSET Node]
    /\ todo \in [Invocation -> SUBSET Node]
    /\ excl \in [Invocation -> SUBSET Node]
    /\ view \in [Invocation -> View]
    /\ lease \in [Invocation -> {"HELD", "UNCERTAIN", "FINAL"}]
    /\ decision \in [Invocation -> [Node -> Decision]]
    /\ seen \in [Invocation -> Nat]
    /\ outcome \in [Invocation -> Outcome]
    /\ resolver \in ResolverRecord
    /\ stopper \in StopperRecord
    /\ used \in [faults : Nat, calls : Nat]
    /\ heldStarts \in Nat

NoState == [status |-> "none", rev |-> 0, latest |-> 0, active |-> None]
NoAttempt == [status |-> "none", code |-> "PENDING", rev |-> 0, no |-> 0,
              before |-> 0, started |-> "no"]
NoRun == [status |-> "none", started |-> "no", rev |-> 0]
NoDecision == [n \in Node |-> [status |-> "none", code |-> "PENDING"]]
NoResolver == [stage |-> "idle", node |-> Order[1], inv |-> None, to |-> "FAILED",
               old |-> NoState]
NoStopper == [stage |-> "idle", to |-> "REQUESTED", rev |-> 0]
NoView == [run |-> NoRun, state |-> [n \in Node |-> NoState],
           attempt |-> [n \in Node |-> [i \in Invocation |-> NoAttempt]],
           resolved |-> [n \in Node |-> [i \in Invocation |-> {}]]]

-----------------------------------------------------------------------------
(* The repository: compare-and-set writes by invocation i on its view.     *)

Goto(i, p) == pc' = [pc EXCEPT ![i] = p]
End(i, how) == Goto(i, "close") /\ outcome' = [outcome EXCEPT ![i] = how]

\* upsertNodeState accepts status s over the version `old` of node n.
StateWritable(n, old, s, resolving) ==
    /\ state[n].rev = old.rev
    /\ \/ <<state[n].status, s>> \in AllowedTransition
       \/ resolving /\ <<state[n].status, s>> \in ResolutionTransition
    /\ ~(/\ n \in NonIdempotent
         /\ state[n].status \in {"FAILED", "CANCELLED"} /\ s = "WAITING")

NewState(old, s, latest, active) ==
    [status |-> s, rev |-> old.rev + 1, latest |-> latest, active |-> active]

\* upsertNodeState; an error ends the invocation.
PutState(i, n, s, latest, active, resolving, next) ==
    LET old == view[i].state[n]
        new == NewState(old, s, latest, active)
    IN  \/ /\ StateWritable(n, old, s, resolving)
           /\ state' = [state EXCEPT ![n] = new]
           /\ view' = [view EXCEPT ![i].state[n] = new]
           /\ Goto(i, next) /\ UNCHANGED outcome
        \/ /\ ~StateWritable(n, old, s, resolving)
           /\ End(i, "failed") /\ UNCHANGED <<state, view>>

\* updateRunAggregate
PutRun(i, s, started, next, how) ==
    LET new == [status |-> s, started |-> started, rev |-> view[i].run.rev + 1]
    IN  \/ /\ run.rev = view[i].run.rev
           /\ run' = new
           /\ view' = [view EXCEPT ![i].run = new]
           /\ Goto(i, next) /\ outcome' = [outcome EXCEPT ![i] = how]
        \/ /\ run.rev # view[i].run.rev
           /\ End(i, "failed") /\ UNCHANGED <<run, view>>

\* finalizeAttempt and setAttemptExecutionStarted: a RUNNING attempt only.
PutAttempt(i, n, j, s, code, started, next) ==
    LET old == view[i].attempt[n][j]
        new == [old EXCEPT !.status = s, !.code = code, !.started = started,
                           !.rev = old.rev + 1]
        writable == attempt[n][j].status = "RUNNING" /\ attempt[n][j].rev = old.rev
    IN  \/ /\ writable
           /\ attempt' = [attempt EXCEPT ![n][j] = new]
           /\ view' = [view EXCEPT ![i].attempt[n][j] = new]
           /\ Goto(i, next) /\ UNCHANGED outcome
        \/ /\ ~writable
           /\ End(i, "failed") /\ UNCHANGED <<attempt, view>>

Hold == cancel.state \in {"REQUESTED", "ACCEPTED"}

-----------------------------------------------------------------------------
(* ensureRun *)

\* Without exclusion an operator's mistaken force-unlock let another in.
LockFree == owner = None \/ ~Exclusive

\* acquire, findRunInsideLock and the checks on the Run, up to createRun.
OpenNew(i) ==
    /\ pc[i] = "idle" /\ LockFree
    /\ run.status = "none"
    /\ run' = [status |-> "CREATED", started |-> "no", rev |-> 1]
    /\ owner' = i
    /\ mode' = [mode EXCEPT ![i] = "NEW"]
    /\ Goto(i, "invocation")
    /\ UNCHANGED <<state, attempt, resolved, cancel, invRec, job, at, sel, todo, excl,
                   view, lease, decision, seen, outcome, env>>

\* ALREADY_SUCCESS and RUN_ON_HOLD release the lock again.
OpenRefused(i) ==
    /\ pc[i] = "idle" /\ LockFree
    /\ run.status # "none"
    /\ \/ run.status = "SUCCESS" /\ outcome' = [outcome EXCEPT ![i] = "noop"]
       \/ Hold /\ outcome' = [outcome EXCEPT ![i] = "hold"]
    /\ Goto(i, "done")
    /\ UNCHANGED <<records, job, owner, scratch, view, env>>

\* RESUME creates its invocation now, RERUN_FROM after its node states.
OpenExisting(i) ==
    /\ pc[i] = "idle" /\ LockFree
    /\ run.status # "none" /\ ~Hold
    /\ owner' = i
    /\ \/ /\ run.status # "SUCCESS"
          /\ mode' = [mode EXCEPT ![i] = "RESUME"]
          /\ Goto(i, "invocation") /\ UNCHANGED sel
       \/ \E n \in Node :
             /\ mode' = [mode EXCEPT ![i] = "RERUN_FROM"]
             /\ sel' = [sel EXCEPT ![i] = Descendants({n})]
             /\ Goto(i, "ensure")
    /\ UNCHANGED <<records, job, at, todo, excl, view, lease, decision, seen, outcome,
                   env>>

CreateInvocation(i) ==
    /\ pc[i] = "invocation"
    /\ invRec' = [invRec EXCEPT ![i] = "RUNNING"]
    /\ Goto(i, IF mode[i] = "RERUN_FROM" THEN "begin" ELSE "ensure")
    /\ UNCHANGED <<run, state, attempt, resolved, cancel, job, owner, scratch, view, outcome, env>>

\* ensureNodeStates creates the missing Node States one by one.
EnsureNodeStates(i) ==
    /\ pc[i] = "ensure"
    /\ \/ \E n \in Node :
             /\ state[n].status = "none"
             /\ state' = [state EXCEPT ![n] =
                             [status |-> "WAITING", rev |-> 1, latest |-> 0, active |-> None]]
             /\ UNCHANGED pc
       \/ /\ \A n \in Node : state[n].status # "none"
          /\ Goto(i, "reconcile") /\ UNCHANGED state
    /\ UNCHANGED <<run, attempt, resolved, cancel, invRec, job, owner, scratch, view, outcome, env>>

-----------------------------------------------------------------------------
(* reconcileRun *)

ReconcileRead(i) ==
    /\ pc[i] = "reconcile"
    /\ view' = [view EXCEPT ![i] = [run |-> run, state |-> state, attempt |-> attempt,
                                    resolved |-> resolved]]
    /\ Goto(i, "repair")
    /\ UNCHANGED <<records, job, owner, scratch, outcome, env>>

\* MULTIPLE_RUNNING_ATTEMPTS, REVISION_SERIES_UNDETERMINED and _INVERTED,
\* ACTIVE_ATTEMPT_ID_MISSING, ACTIVE_ATTEMPT_NOT_FOUND.
Unsafe(v, n) ==
    \/ Cardinality({j \in Invocation : v.attempt[n][j].status = "RUNNING"}) > 1
    \/ \E j \in Invocation : /\ v.attempt[n][j].status # "none"
                             /\ v.attempt[n][j].before >= v.state[n].rev
    \/ v.state[n].status = "RUNNING" /\ v.state[n].active = None
    \/ /\ v.state[n].active # None
       /\ v.attempt[n][v.state[n].active].status = "none"

\* The active attempt is terminal and its status is not yet the node's, or
\* only active_attempt_id is left to clear.
TerminalPending(v, n) ==
    /\ v.state[n].active # None /\ ~Unsafe(v, n)
    /\ v.attempt[n][v.state[n].active].status \in Terminal
    /\ v.state[n].status \in {"RUNNING", v.attempt[n][v.state[n].active].status}

\* STATE_TERMINAL_ATTEMPT_RUNNING and STATE_ATTEMPT_STATUS_MISMATCH.
Mismatched(v, n) ==
    /\ v.state[n].active # None /\ ~TerminalPending(v, n)
    /\ v.attempt[n][v.state[n].active].status # v.state[n].status

\* CONFLICTING_ATTEMPT_RESOLUTIONS, RESOLUTION_ATTEMPT_NOT_UNKNOWN,
\* RESOLUTION_NOT_CURRENT_ATTEMPT, RESOLUTION_STATE_NOT_UNKNOWN.
ResolutionRefused(v, n, j) ==
    /\ v.resolved[n][j] # {}
    /\ \/ Cardinality(v.resolved[n][j]) > 1
       \/ v.attempt[n][j].status \notin {"UNKNOWN", "FAILED"}
       \/ v.attempt[n][j].no # v.state[n].latest
       \/ Unsafe(v, n)
       \/ /\ v.state[n].status \notin v.resolved[n][j] \cup {"UNKNOWN"}
          /\ ~(/\ v.state[n].status = "FAILED" /\ v.attempt[n][j].status = "FAILED"
               /\ n \in NonIdempotent)

ResolutionPending(v, n, j) ==
    /\ v.resolved[n][j] # {} /\ ~ResolutionRefused(v, n, j)
    /\ v.state[n].status \notin v.resolved[n][j]

Inconsistent(v) ==
    \E n \in Node : \/ Unsafe(v, n) \/ Mismatched(v, n)
                    \/ \E j \in Invocation : ResolutionRefused(v, n, j)

\* repairState with the result of the terminal active attempt.
ApplyTerminalAttempt(i) ==
    /\ pc[i] = "repair"
    /\ \E n \in Node :
          /\ TerminalPending(view[i], n)
          /\ LET old == view[i].state[n]
             IN  PutState(i, n, view[i].attempt[n][old.active].status, old.latest, None,
                          FALSE, "repair")
    /\ UNCHANGED <<run, attempt, resolved, cancel, invRec, job, owner, scratch, env>>

\* repairState with the outcome of an Attempt Resolution.
ApplyResolution(i) ==
    /\ pc[i] = "repair"
    /\ \A n \in Node : ~TerminalPending(view[i], n)
    /\ \E n \in Node, j \in Invocation :
          /\ ResolutionPending(view[i], n, j)
          /\ \E o \in view[i].resolved[n][j] :
                PutState(i, n, o, view[i].state[n].latest, None, TRUE, "repair")
    /\ UNCHANGED <<run, attempt, resolved, cancel, invRec, job, owner, scratch, env>>

Statuses(v) == [n \in Node |-> v.state[n].status]

\* The aggregate is recomputed; RECONCILIATION_REQUIRED if anything is left.
FinishReconciliation(i) ==
    LET v == view[i]
        s == Aggregate(Statuses(v), v.run.started)
        conflict == s # v.run.status /\ run.rev # v.run.rev
    IN  /\ pc[i] = "repair"
        /\ \A n \in Node : /\ ~TerminalPending(v, n)
                           /\ \A j \in Invocation : ~ResolutionPending(v, n, j)
        /\ run' = IF s # v.run.status /\ ~conflict
                  THEN [run EXCEPT !.status = s, !.rev = @ + 1] ELSE run
        /\ view' = [view EXCEPT ![i].run = run']
        /\ IF conflict THEN End(i, "failed")
           ELSE IF Inconsistent(v) THEN End(i, "refused")
           ELSE Goto(i, IF mode[i] = "RERUN_FROM" THEN "rerunRead" ELSE "begin")
                /\ UNCHANGED outcome
        /\ UNCHANGED <<state, attempt, resolved, cancel, invRec, job, owner, scratch, env>>

-----------------------------------------------------------------------------
(* prepareRerunFrom *)

\* Faulty variants: executed non-idempotent nodes, or SUCCESS Runs, may be
\* rerun.
RerunRefusedUnknownOnly(i) ==
    view[i].run.status = "SUCCESS" \/ \E n \in sel[i] : state[n].status = "UNKNOWN"
RerunReopensSuccess(i) ==
    \E n \in sel[i] : \/ state[n].status = "UNKNOWN"
                      \/ n \in NonIdempotent /\ state[n].latest > 0

\* RERUN_FROM_SUCCESS_RUN, RERUN_FROM_UNKNOWN_STATE, RERUN_FROM_NON_IDEMPOTENT.
RerunRefused(i) ==
    \/ view[i].run.status = "SUCCESS"
    \/ \E n \in sel[i] : \/ state[n].status = "UNKNOWN"
                         \/ n \in NonIdempotent /\ state[n].latest > 0

RerunRead(i) ==
    /\ pc[i] = "rerunRead"
    /\ IF RerunRefused(i)
       THEN End(i, "failed") /\ UNCHANGED <<view, todo>>
       ELSE /\ view' = [view EXCEPT ![i].state = state]
            /\ todo' = [todo EXCEPT ![i] = sel[i]]
            /\ Goto(i, "rerun") /\ UNCHANGED outcome
    /\ UNCHANGED <<records, job, owner, mode, at, sel, excl, lease, decision, seen, env>>

RerunReset(i) ==
    /\ pc[i] = "rerun"
    /\ \/ \E n \in todo[i] :
             /\ PutState(i, n, "WAITING", view[i].state[n].latest, None, FALSE, "rerun")
             /\ todo' = [todo EXCEPT ![i] = @ \ {n}]
       \/ /\ todo[i] = {}
          /\ Goto(i, "invocation") /\ UNCHANGED <<state, view, todo, outcome>>
    /\ UNCHANGED <<run, attempt, resolved, cancel, invRec, job, owner, mode, at, sel, excl,
                   lease, decision, seen, env>>

-----------------------------------------------------------------------------
(* runSequentialScheduler, before the loop.  confirmOrdinaryWrite has to   *)
(* find the lease HELD; LeaseInterrupted below is its other answer.        *)

EnsureRunStarted(i) ==
    LET next == IF mode[i] = "NEW" THEN "prepareRead" ELSE "orphanRead"
    IN  /\ pc[i] = "begin"
        /\ \/ /\ view[i].run.started = "no" /\ lease[i] = "HELD"
              /\ PutRun(i, "RUNNING", "yes", next, "none")
           \/ /\ view[i].run.started = "yes"
              /\ Goto(i, next) /\ UNCHANGED <<run, view, outcome>>
        /\ UNCHANGED <<state, attempt, resolved, cancel, invRec, job, owner, scratch, env>>

\* Faulty variant: no failure on record is taken for success.
OrphanPresumedDone(j) ==
    [status |-> IF j \in {"FAILED", "CANCELLED"} THEN j ELSE "SUCCESS", code |-> "RESULT"]

\* decideOrphanResult on the JOB log of an attempt.
OrphanDecision(j) ==
    [status |-> IF j \in Outcomes THEN j ELSE "UNKNOWN", code |-> "RESULT"]

\* All candidates and their JOB logs are read before the first write.
ReadOrphans(i) ==
    LET orphan(n) == /\ state[n].status = "RUNNING"
                     /\ state[n].active \notin {None, i}
                     /\ attempt[n][state[n].active].status = "RUNNING"
    IN  /\ pc[i] = "orphanRead"
        /\ view' = [view EXCEPT ![i].state = state, ![i].attempt = attempt]
        /\ todo' = [todo EXCEPT ![i] = {n \in Node : orphan(n)}]
        /\ decision' = [decision EXCEPT ![i] =
              [n \in Node |-> IF orphan(n) THEN OrphanDecision(job[n][state[n].active])
                              ELSE NoDecision[n]]]
        /\ Goto(i, "orphan")
        /\ UNCHANGED <<records, job, owner, mode, at, sel, excl, lease, seen, outcome, env>>

AdjudicateOrphan(i) ==
    /\ pc[i] = "orphan"
    /\ \/ \E n \in todo[i] :
             /\ lease[i] = "HELD"
             /\ LET j == view[i].state[n].active
                IN  PutAttempt(i, n, j, decision[i][n].status, decision[i][n].code,
                               view[i].attempt[n][j].started, "orphanState")
             /\ at' = [at EXCEPT ![i] = CHOOSE k \in 1..Len(Order) : Order[k] = n]
       \/ /\ todo[i] = {}
          /\ Goto(i, "abandon") /\ UNCHANGED <<attempt, view, at, outcome>>
    /\ UNCHANGED <<run, state, resolved, cancel, invRec, job, owner, mode, sel, todo, excl,
                   lease, decision, seen, env>>

FinalizeOrphanState(i) ==
    LET n == Order[at[i]]
    IN  /\ pc[i] = "orphanState" /\ lease[i] = "HELD"
        /\ PutState(i, n, decision[i][n].status, view[i].state[n].latest, None, FALSE, "orphan")
        /\ todo' = [todo EXCEPT ![i] = @ \ {n}]
        /\ UNCHANGED <<run, attempt, resolved, cancel, invRec, job, owner, mode, at, sel, excl,
                       lease, decision, seen, env>>

\* finalizeInvocation: an invocation that is not ended gets its status.
FinalizeInvocation(j, status) ==
    IF invRec[j] = "RUNNING" THEN [invRec EXCEPT ![j] = status] ELSE invRec

\* finalizeAbandonedInvocations
FinalizeAbandoned(i) ==
    LET abandoned == {j \in Invocation \ {i} : invRec[j] = "RUNNING"}
    IN  /\ pc[i] = "abandon"
        /\ \/ \E j \in abandoned :
                 /\ lease[i] = "HELD"
                 /\ invRec' = FinalizeInvocation(j, "CANCELLED")
                 /\ UNCHANGED pc
           \/ abandoned = {} /\ Goto(i, "prepareRead") /\ UNCHANGED invRec
        /\ UNCHANGED <<run, state, attempt, resolved, cancel, job, owner, view, outcome, scratch, env>>

\* retryBrakeForNode: the newest attempts, PREPARE_FAILED ones aside, FAILED
\* with one failure kind BrakeLimit times.
Braked(a, n) ==
    LET H == {j \in Invocation : /\ a[n][j].status # "none"
                                 /\ ~(/\ a[n][j].status = "CANCELLED"
                                      /\ a[n][j].code = "PREPARE_FAILED")}
        tail == {j \in H : \A k \in H : a[n][k].no >= a[n][j].no =>
                              a[n][k].status = "FAILED" /\ a[n][k].code = a[n][j].code}
    IN  Cardinality(tail) >= BrakeLimit

ReadStates(i) ==
    /\ pc[i] = "prepareRead"
    /\ view' = [view EXCEPT ![i].state = state]
    /\ todo' = [todo EXCEPT ![i] = IF mode[i] = "RESUME" THEN Node ELSE {}]
    /\ Goto(i, "prepare")
    /\ UNCHANGED <<records, job, owner, mode, at, sel, excl, lease, decision, seen, outcome, env>>

Retryable(v, n) ==
    n \notin NonIdempotent /\ v.state[n].status \in {"FAILED", "CANCELLED"}

\* Faulty variant: only CANCELLED nodes are held back.
HeldIfCancelled(v, n) == v.state[n].status = "CANCELLED" /\ Braked(v.attempt, n)

HeldByBrake(v, n) == Retryable(v, n) /\ Braked(v.attempt, n)

\* prepareResumeStates: back to WAITING, or the brake is noted.
PrepareResumeState(i) ==
    /\ pc[i] = "prepare"
    /\ \E n \in todo[i] :
          LET v == view[i]
              old == v.state[n]
              braked == HeldByBrake(v, n)
          IN  /\ \/ /\ braked /\ lease[i] = "HELD"
                    /\ PutState(i, n, old.status, old.latest, old.active, FALSE, "prepare")
                 \/ /\ ~braked /\ (old.status = "BLOCKED" \/ Retryable(v, n))
                    /\ lease[i] = "HELD"
                    /\ PutState(i, n, "WAITING", old.latest, None, FALSE, "prepare")
                 \/ /\ ~braked /\ old.status # "BLOCKED" /\ ~Retryable(v, n)
                    /\ UNCHANGED <<state, view, pc, outcome>>
              /\ excl' = [excl EXCEPT ![i] = IF braked THEN @ \cup {n} ELSE @]
              /\ todo' = [todo EXCEPT ![i] = @ \ {n}]
    /\ UNCHANGED <<run, attempt, resolved, cancel, invRec, job, owner, mode, at, sel, lease,
                   decision, seen, env>>

\* excludedRoots and their descendants.
PrepareDone(i) ==
    LET v == view[i]
        roots == {n \in Node : \/ v.state[n].status = "UNKNOWN"
                               \/ /\ n \in NonIdempotent
                                  /\ v.state[n].status \in {"FAILED", "CANCELLED"}}
    IN  /\ pc[i] = "prepare" /\ todo[i] = {}
        /\ excl' = [excl EXCEPT ![i] = Descendants(@ \cup roots)]
        /\ at' = [at EXCEPT ![i] = 1]
        /\ Goto(i, "loop")
        /\ UNCHANGED <<records, job, owner, view, mode, sel, todo, lease, decision, seen,
                       outcome, env>>

-----------------------------------------------------------------------------
(* The loop over the nodes in topological order, on the states in memory. *)

MustBlock(i, n) ==
    \/ n \in excl[i]
    \/ \E d \in DependsOn[n] :
          view[i].state[d].status \in {"FAILED", "BLOCKED", "CANCELLED", "UNKNOWN"}

\* Faulty variant: a dependency that is still to run does not defer.
PassedUnlessWaiting(i, n) ==
    LET s == view[i].state[n].status
    IN  \/ mode[i] = "RERUN_FROM" /\ n \notin sel[i]
        \/ s = "SUCCESS" \/ (n \in excl[i] /\ s # "WAITING")
        \/ ~MustBlock(i, n) /\ s # "WAITING"

\* PRESERVED, EXCLUDED or DEFERRED.
Passed(i, n) ==
    LET s == view[i].state[n].status
    IN  \/ mode[i] = "RERUN_FROM" /\ n \notin sel[i]
        \/ s = "SUCCESS"
        \/ n \in excl[i] /\ s # "WAITING"
        \/ /\ ~MustBlock(i, n)
           /\ \/ s # "WAITING"
              \/ \E d \in DependsOn[n] : view[i].state[d].status \in {"WAITING", "RUNNING"}

InLoop(i) == pc[i] = "loop" /\ at[i] <= Len(Order)

PassNode(i) ==
    /\ pc[i] = "loop"
    /\ \/ /\ InLoop(i) /\ Passed(i, Order[at[i]])
          /\ at' = [at EXCEPT ![i] = @ + 1] /\ UNCHANGED pc
       \/ /\ at[i] = Len(Order) + 1
          /\ Goto(i, "finish") /\ UNCHANGED at
    /\ UNCHANGED <<records, job, owner, view, mode, sel, todo, excl, lease, decision, seen,
                   outcome, env>>

BlockNode(i) ==
    LET n == Order[at[i]]
    IN  /\ InLoop(i) /\ ~Passed(i, n) /\ MustBlock(i, n) /\ lease[i] = "HELD"
        /\ PutState(i, n, "BLOCKED", view[i].state[n].latest, view[i].state[n].active,
                    FALSE, "blocked")
        /\ UNCHANGED <<run, attempt, resolved, cancel, invRec, job, owner, scratch, env>>

\* Faulty variant: only an accepted request stops.
StopCheckAcceptedOnly(i) ==
    /\ InLoop(i) /\ ~Passed(i, Order[at[i]]) /\ ~MustBlock(i, Order[at[i]])
    /\ seen' = [seen EXCEPT ![i] = cancel.rev]
    /\ \/ cancel.state = "ACCEPTED" /\ End(i, "stopped")
       \/ cancel.state # "ACCEPTED" /\ Goto(i, "start") /\ UNCHANGED outcome
    /\ UNCHANGED <<records, job, owner, view, mode, at, sel, todo, excl, lease, decision, env>>

\* getCancelRequest at the node boundary.
StopCheck(i) ==
    /\ InLoop(i) /\ ~Passed(i, Order[at[i]]) /\ ~MustBlock(i, Order[at[i]])
    /\ seen' = [seen EXCEPT ![i] = cancel.rev]
    /\ \/ cancel.state = "ACCEPTED" /\ End(i, "stopped")
       \/ cancel.state = "REQUESTED" /\ Goto(i, "accept") /\ UNCHANGED outcome
       \/ ~Hold /\ Goto(i, "start") /\ UNCHANGED outcome
    /\ UNCHANGED <<records, job, owner, view, mode, at, sel, todo, excl, lease, decision, env>>

\* updateCancelRequest; after a REVISION_CONFLICT the request is read again.
AcceptStop(i) ==
    /\ pc[i] = "accept"
    /\ \/ /\ cancel.rev = seen[i]
          /\ cancel' = [state |-> "ACCEPTED", rev |-> cancel.rev + 1]
          /\ End(i, "stopped")
       \/ /\ cancel.rev # seen[i] /\ UNCHANGED cancel
          /\ \/ Hold /\ End(i, "stopped")
             \/ ~Hold /\ Goto(i, "start") /\ UNCHANGED outcome
    /\ UNCHANGED <<run, state, attempt, resolved, invRec, job, owner, view, scratch, env>>

\* canStartNewNode refuses: the loop ends.
StartRefused(i) ==
    /\ pc[i] = "start" /\ lease[i] # "HELD"
    /\ Goto(i, "finish")
    /\ UNCHANGED <<records, job, owner, view, outcome, scratch, env>>

\* createAttempt: the attempt number is unique (ATTEMPT_NUMBER_CONFLICT).
CreateAttempt(i) ==
    LET n == Order[at[i]]
        no == view[i].state[n].latest + 1
        new == [NoAttempt EXCEPT !.status = "RUNNING", !.rev = 1, !.no = no,
                                 !.before = view[i].state[n].rev]
        taken == \E j \in Invocation : attempt[n][j].no = no
    IN  /\ pc[i] = "start" /\ lease[i] = "HELD"
        /\ IF taken
           THEN End(i, "failed") /\ UNCHANGED <<attempt, view, heldStarts>>
           ELSE /\ attempt' = [attempt EXCEPT ![n][i] = new]
                /\ view' = [view EXCEPT ![i].attempt[n][i] = new]
                /\ heldStarts' = IF Hold THEN heldStarts + 1 ELSE heldStarts
                /\ Goto(i, "claim") /\ UNCHANGED outcome
        /\ UNCHANGED <<run, state, resolved, cancel, invRec, job, owner, scratch, resolver,
                       stopper, used>>

ClaimNode(i) ==
    LET n == Order[at[i]]
    IN  /\ pc[i] = "claim"
        /\ PutState(i, n, "RUNNING", view[i].attempt[n][i].no, i, FALSE, "ready")
        /\ UNCHANGED <<run, attempt, resolved, cancel, invRec, job, owner, scratch, env>>

Decide(i, s, c) ==
    decision' = [decision EXCEPT ![i][Order[at[i]]] = [status |-> s, code |-> c]]

\* resolveNodeOutputs rejects a path: the attempt fails before execute.
OutputPathRejected(i) ==
    /\ pc[i] = "ready"
    /\ Decide(i, "FAILED", "IO_PATH")
    /\ Goto(i, "authorize")
    /\ UNCHANGED <<records, job, owner, view, outcome, mode, at, sel, todo, excl, lease, seen, env>>

-----------------------------------------------------------------------------
(* AttemptExecutor.execute *)

SetAttemptExecutionStarted(i) ==
    LET n == Order[at[i]]
    IN  /\ pc[i] = "ready"
        /\ PutAttempt(i, n, i, "RUNNING", "PENDING", "yes", "launch")
        /\ UNCHANGED <<run, state, resolved, cancel, invRec, job, owner, scratch, env>>

Launch(i) ==
    /\ pc[i] = "launch"
    /\ job' = [job EXCEPT ![Order[at[i]]][i] = "launched"]
    /\ Goto(i, "wait")
    /\ UNCHANGED <<records, owner, view, outcome, scratch, env>>

\* What readAndClassifyResult, the JOB log marker and decideMissingResult
\* make of a job that ended as j; a result may be missing or invalid.
Classified(j) ==
    {<<"UNKNOWN", "RESULT">>}
    \cup (IF j \in Outcomes THEN {<<j, "RESULT">>} ELSE {})
    \cup (IF j = "notBegun" THEN {<<"CANCELLED", "PREPARE_FAILED">>} ELSE {})

JobEnded(j) == j \in {"notBegun", "vanished", "died"} \cup Outcomes

ClassifyResult(i) ==
    LET j == job[Order[at[i]]][i]
    IN  /\ pc[i] = "wait" /\ JobEnded(j)
        /\ \E c \in Classified(j) : Decide(i, c[1], c[2])
        /\ Goto(i, "authorize")
        /\ UNCHANGED <<records, job, owner, view, outcome, mode, at, sel, todo, excl, lease,
                       seen, env>>

\* canPersistResults, or confirmLeaseForFinalWrite succeeds.
AuthorizeResult(i) ==
    /\ pc[i] = "authorize"
    /\ lease' = [lease EXCEPT ![i] = IF @ = "UNCERTAIN" THEN "FINAL" ELSE @]
    /\ Goto(i, "persist")
    /\ UNCHANGED <<records, job, owner, view, outcome, mode, at, sel, todo, excl, decision,
                   seen, env>>

FinalizeAttempt(i) ==
    LET n == Order[at[i]]
        d == decision[i][n]
    IN  /\ pc[i] = "persist"
        /\ PutAttempt(i, n, i, d.status, d.code, view[i].attempt[n][i].started, "apply")
        /\ UNCHANGED <<run, state, resolved, cancel, invRec, job, owner, scratch, env>>

\* A PREPARE_FAILED attempt leaves its node WAITING.
ApplyResult(i) ==
    LET n == Order[at[i]]
        d == decision[i][n]
        s == IF d.code = "PREPARE_FAILED" THEN "WAITING" ELSE d.status
    IN  /\ pc[i] = "apply"
        /\ PutState(i, n, s, view[i].state[n].latest, None, FALSE, "aggregate")
        /\ UNCHANGED <<run, attempt, resolved, cancel, invRec, job, owner, scratch, env>>

-----------------------------------------------------------------------------
(* updateAggregate, the end of the loop and close *)

\* The loop goes on, unless an attempt was finished with final writes only.
UpdateAggregate(i) ==
    LET v == view[i]
        s == Aggregate(Statuses(v), v.run.started)
        drained == pc[i] = "aggregate" /\ lease[i] = "FINAL"
    IN  /\ pc[i] \in {"aggregate", "blocked"} /\ lease[i] # "UNCERTAIN"
        /\ IF drained THEN PutRun(i, s, v.run.started, "close", "drained")
           ELSE PutRun(i, s, v.run.started, "loop", "none")
        /\ at' = [at EXCEPT ![i] = @ + 1]
        /\ UNCHANGED <<state, attempt, resolved, cancel, invRec, job, owner, mode, sel, todo,
                       excl, lease, decision, seen, env>>

FinishLoop(i) ==
    LET v == view[i]
    IN  /\ pc[i] = "finish" /\ lease[i] # "UNCERTAIN"
        /\ PutRun(i, Aggregate(Statuses(v), v.run.started), v.run.started, "close", "finished")
        /\ UNCHANGED <<state, attempt, resolved, cancel, invRec, job, owner, scratch, env>>

\* The invocation's status: invocationOutcome of the aggregate at the end.
InvocationStatus(i) ==
    CASE outcome[i] = "finished" /\ view[i].run.status \in Terminal -> view[i].run.status
      [] outcome[i] \in {"failed", "refused"} -> "FAILED"
      [] OTHER -> "CANCELLED"

\* finalizeInvocation, unless the lease was lost (persistInvocation: false).
Close(i) ==
    /\ pc[i] = "close"
    /\ invRec' = IF outcome[i] = "interrupted" THEN invRec
                 ELSE FinalizeInvocation(i, InvocationStatus(i))
    /\ Goto(i, "release")
    /\ UNCHANGED <<run, state, attempt, resolved, cancel, job, owner, view, outcome, scratch, env>>

\* The process is gone and its memory with it.
Forget(i) ==
    /\ at' = [at EXCEPT ![i] = 0]
    /\ sel' = [sel EXCEPT ![i] = {}]
    /\ todo' = [todo EXCEPT ![i] = {}]
    /\ excl' = [excl EXCEPT ![i] = {}]
    /\ view' = [view EXCEPT ![i] = NoView]
    /\ lease' = [lease EXCEPT ![i] = "HELD"]
    /\ decision' = [decision EXCEPT ![i] = NoDecision]
    /\ seen' = [seen EXCEPT ![i] = 0]
    /\ UNCHANGED mode

Release(i) ==
    /\ pc[i] = "release"
    /\ owner' = IF owner = i THEN None ELSE owner
    /\ Goto(i, "done")
    /\ Forget(i)
    /\ UNCHANGED <<records, job, outcome, env>>

-----------------------------------------------------------------------------
(* Faults *)

Fault == used.faults < MaxFaults /\ used' = [used EXCEPT !.faults = @ + 1]

\* A heartbeat fails or kintone is unreachable while the scheduler runs.
LoseLease(i) ==
    /\ pc[i] \in Phase \ {"idle", "invocation", "ensure", "reconcile", "repair", "rerunRead",
                          "rerun", "close", "release", "done", "crashed"}
    /\ lease[i] = "HELD" /\ Fault
    /\ lease' = [lease EXCEPT ![i] = "UNCERTAIN"]
    /\ UNCHANGED <<records, job, owner, pc, outcome, view, mode, at, sel, todo, excl, decision,
                   seen, resolver, stopper, heldStarts>>

\* Phases whose calls controlPlaneDrainRunner retries.
Drained(i) == pc[i] \in {"orphanRead", "loop", "accept", "wait", "persist", "apply",
                         "aggregate", "blocked", "finish"}

\* confirmLeaseForFinalWrite succeeds before the retried call.
ConfirmForDrain(i) ==
    /\ Drained(i) /\ lease[i] = "UNCERTAIN"
    /\ lease' = [lease EXCEPT ![i] = "FINAL"]
    /\ UNCHANGED <<records, job, owner, pc, outcome, view, mode, at, sel, todo, excl, decision,
                   seen, env>>

\* An ordinary write that confirmOrdinaryWrite has to allow comes next.
OrdinaryWriteNext(i) ==
    \/ pc[i] = "begin" /\ view[i].run.started = "no"
    \/ pc[i] = "orphan" /\ todo[i] # {}
    \/ pc[i] = "orphanState"
    \/ pc[i] = "abandon" /\ \E j \in Invocation \ {i} : invRec[j] = "RUNNING"
    \/ pc[i] = "prepare" /\ \E n \in todo[i] : \/ view[i].state[n].status = "BLOCKED"
                                               \/ Retryable(view[i], n)
    \/ InLoop(i) /\ ~Passed(i, Order[at[i]]) /\ MustBlock(i, Order[at[i]])

\* Faulty variant: a refused ordinary write does not end the scheduler.
InterruptedInDrainOnly(i) ==
    /\ (Drained(i) \/ pc[i] = "authorize") /\ lease[i] = "UNCERTAIN"
    /\ pc[i] = "wait" => JobEnded(job[Order[at[i]]][i])
    /\ End(i, "interrupted")
    /\ UNCHANGED <<records, job, owner, view, scratch, env>>

\* SchedulerLeaseInterruptedError, AttemptResultPersistenceDeferredError.
LeaseInterrupted(i) ==
    /\ \/ OrdinaryWriteNext(i) /\ lease[i] # "HELD"
       \/ (Drained(i) \/ pc[i] = "authorize") /\ lease[i] = "UNCERTAIN"
    /\ pc[i] = "wait" => JobEnded(job[Order[at[i]]][i])
    /\ End(i, "interrupted")
    /\ UNCHANGED <<records, job, owner, view, scratch, env>>

\* Any other error of a call; from then on only close and release are left.
Fail(i) ==
    /\ pc[i] \notin {"idle", "wait", "done", "crashed"} /\ Fault
    /\ \/ pc[i] \notin {"close", "release"} /\ End(i, "failed") /\ UNCHANGED <<scratch, view>>
       \/ pc[i] = "close" /\ Goto(i, "release") /\ UNCHANGED <<outcome, scratch, view>>
       \/ pc[i] = "release" /\ Goto(i, "done") /\ Forget(i) /\ UNCHANGED outcome
    /\ UNCHANGED <<records, job, owner, resolver, stopper, heldStarts>>

Crash(i) ==
    /\ pc[i] \notin {"idle", "done", "crashed"} /\ Fault
    /\ Goto(i, "crashed")
    /\ outcome' = [outcome EXCEPT ![i] = "none"]
    /\ Forget(i)
    /\ UNCHANGED <<records, job, owner, resolver, stopper, heldStarts>>

\* force-unlock-network: see NetworkLock.
ForceUnlock ==
    /\ owner # None /\ pc[owner] \in {"done", "crashed"}
    /\ owner' = None
    /\ UNCHANGED <<records, job, pc, outcome, view, scratch, env>>

-----------------------------------------------------------------------------
(* The kSQL-Flow job of an attempt: refused by its Job lock or not started *)
(* at all (the executor treats them alike), lost, or run to an end; it     *)
(* outlives a crashed orchestrator.                                        *)

JobStep(n, i) ==
    /\ \/ /\ job[n][i] = "launched"
          /\ \E j \in {"notBegun", "vanished", "RUNNING"} :
                job' = [job EXCEPT ![n][i] = j]
       \/ /\ job[n][i] = "RUNNING"
          /\ \E j \in Outcomes \cup {"died"} : job' = [job EXCEPT ![n][i] = j]
    /\ UNCHANGED <<records, owner, pc, outcome, view, scratch, env>>

-----------------------------------------------------------------------------
(* resolve-node and cancel-run run beside the lock owner.                  *)

ResolveRead(n, o) ==
    /\ resolver.stage = "idle" /\ used.calls < MaxCalls
    /\ \/ state[n].status = "UNKNOWN"
       \/ state[n].status = "FAILED" /\ n \in NonIdempotent
    /\ \E j \in Invocation :
          /\ attempt[n][j].no = state[n].latest /\ attempt[n][j].status = state[n].status
          /\ resolver' = [stage |-> "append", node |-> n, inv |-> j, to |-> o, old |-> state[n]]
    /\ used' = [used EXCEPT !.calls = @ + 1]
    /\ UNCHANGED <<records, job, owner, pc, outcome, view, scratch, stopper, heldStarts>>

ResolveAppend ==
    /\ resolver.stage = "append"
    /\ resolved' = [resolved EXCEPT ![resolver.node][resolver.inv] = @ \cup {resolver.to}]
    /\ resolver' = [resolver EXCEPT !.stage = "apply"]
    /\ UNCHANGED <<run, state, attempt, cancel, invRec, job, owner, pc, outcome, view, scratch,
                   stopper, used, heldStarts>>

\* The Node State; nothing else is written when the compare-and-set fails.
ResolveApply ==
    LET n == resolver.node
        ok == StateWritable(n, resolver.old, resolver.to, TRUE)
    IN  /\ resolver.stage = "apply"
        /\ state' = IF ok
                    THEN [state EXCEPT ![n] = NewState(@, resolver.to, @.latest, None)]
                    ELSE state
        /\ resolver' = NoResolver
        /\ UNCHANGED <<run, attempt, resolved, cancel, invRec, job, owner, pc, outcome, view,
                       scratch, stopper, used, heldStarts>>

ResolverDies ==
    /\ resolver.stage # "idle" /\ Fault
    /\ resolver' = NoResolver
    /\ UNCHANGED <<records, job, owner, pc, outcome, view, scratch, stopper, heldStarts>>

\* changeCancelRequest reads; a request needs a Run that is not terminal.
StopRead(to) ==
    /\ stopper.stage = "idle" /\ used.calls < MaxCalls
    /\ run.status # "none"
    /\ \/ to = "REQUESTED" /\ ~Hold /\ run.status \notin Terminal
       \/ to = "RELEASED" /\ Hold
    /\ stopper' = [stage |-> "write", to |-> to, rev |-> cancel.rev]
    /\ used' = [used EXCEPT !.calls = @ + 1]
    /\ UNCHANGED <<records, job, owner, pc, outcome, view, scratch, resolver, heldStarts>>

StopWrite ==
    LET ok == cancel.rev = stopper.rev
    IN  /\ stopper.stage = "write"
        /\ cancel' = IF ok THEN [state |-> stopper.to, rev |-> cancel.rev + 1] ELSE cancel
        /\ heldStarts' = IF ok THEN 0 ELSE heldStarts
        /\ stopper' = NoStopper
        /\ UNCHANGED <<run, state, attempt, resolved, invRec, job, owner, pc, outcome, view,
                       scratch, resolver, used>>

-----------------------------------------------------------------------------

Init ==
    /\ run = NoRun
    /\ state = NoView.state /\ attempt = NoView.attempt /\ resolved = NoView.resolved
    /\ cancel = [state |-> "none", rev |-> 0]
    /\ invRec = [i \in Invocation |-> "none"]
    /\ job = [n \in Node |-> [i \in Invocation |-> "none"]]
    /\ owner = None
    /\ pc = [i \in Invocation |-> "idle"]
    /\ mode = [i \in Invocation |-> "NEW"]
    /\ at = [i \in Invocation |-> 0]
    /\ sel = [i \in Invocation |-> {}]
    /\ todo = [i \in Invocation |-> {}]
    /\ excl = [i \in Invocation |-> {}]
    /\ view = [i \in Invocation |-> NoView]
    /\ lease = [i \in Invocation |-> "HELD"]
    /\ decision = [i \in Invocation |-> NoDecision]
    /\ seen = [i \in Invocation |-> 0]
    /\ outcome = [i \in Invocation |-> "none"]
    /\ resolver = NoResolver
    /\ stopper = NoStopper
    /\ used = [faults |-> 0, calls |-> 0]
    /\ heldStarts = 0

Prepare(i) ==
    \/ CreateInvocation(i) \/ EnsureNodeStates(i)
    \/ ReconcileRead(i) \/ ApplyTerminalAttempt(i) \/ ApplyResolution(i)
    \/ FinishReconciliation(i) \/ RerunRead(i) \/ RerunReset(i)

Schedule(i) ==
    \/ EnsureRunStarted(i)
    \/ ReadOrphans(i) \/ AdjudicateOrphan(i) \/ FinalizeOrphanState(i)
    \/ FinalizeAbandoned(i) \/ ReadStates(i) \/ PrepareResumeState(i) \/ PrepareDone(i)
    \/ PassNode(i) \/ BlockNode(i) \/ StopCheck(i) \/ AcceptStop(i)
    \/ StartRefused(i) \/ CreateAttempt(i) \/ ClaimNode(i) \/ OutputPathRejected(i)
    \/ UpdateAggregate(i) \/ FinishLoop(i)
    \/ ConfirmForDrain(i) \/ LeaseInterrupted(i)

Execute(i) ==
    \/ SetAttemptExecutionStarted(i) \/ Launch(i) \/ ClassifyResult(i)
    \/ AuthorizeResult(i) \/ FinalizeAttempt(i) \/ ApplyResult(i)

Open(i) == OpenNew(i) \/ OpenRefused(i) \/ OpenExisting(i)
Step(i) == Prepare(i) \/ Schedule(i) \/ Execute(i) \/ Close(i) \/ Release(i)
Faults(i) == LoseLease(i) \/ Fail(i) \/ Crash(i)
Resolve == \/ \E n \in Node, o \in Outcomes : ResolveRead(n, o)
           \/ ResolveAppend \/ ResolveApply \/ ResolverDies
Stop == (\E to \in {"REQUESTED", "RELEASED"} : StopRead(to)) \/ StopWrite

Next ==
    \/ \E i \in Invocation : Open(i) \/ Step(i) \/ Faults(i)
    \/ ForceUnlock
    \/ \E n \in Node, i \in Invocation : JobStep(n, i)
    \/ Resolve
    \/ Stop

Spec == Init /\ [][Next]_vars

\* A live process takes its next step, and a started job ends (kSQL-Flow
\* stops itself at its timeout and the orchestrator kills it after that).
Fairness ==
    /\ \A i \in Invocation : WF_vars(Step(i))
    /\ \A n \in Node, i \in Invocation : WF_vars(JobStep(n, i))

FairSpec == Spec /\ Fairness

-----------------------------------------------------------------------------
(* Properties *)

Executed(n, i) == job[n][i] \in {"RUNNING", "died"} \cup Outcomes
Live(i) == pc[i] \notin {"idle", "done", "crashed"}

\* The SQL of a node with idempotent: false runs at most once in a Run,
\* whatever crashes, resumes, reruns and resolutions happen, and even if two
\* processes believe they own the Network lock: the compare-and-sets, the
\* unique attempt number and the refusals of ensureRun are enough.
AtMostOnce ==
    \A n \in NonIdempotent, i, j \in Invocation :
        Executed(n, i) /\ Executed(n, j) => i = j

\* A Node State says SUCCESS only if the job of its latest attempt really
\* ended in SUCCESS or an operator resolved that attempt as SUCCESS
\* (AttemptExecutor, decideOrphanResult, reconcileRun, resolveNode).
SuccessIsTruthful ==
    \A n \in Node : state[n].status = "SUCCESS" =>
        \E i \in Invocation :
            /\ attempt[n][i].no = state[n].latest
            /\ job[n][i] = "SUCCESS" \/ "SUCCESS" \in resolved[n][i]

\* A Run recorded as SUCCESS has only SUCCESS nodes and is never reopened
\* (updateAggregate, RERUN_FROM_SUCCESS_RUN), under the lock's exclusion.
SuccessfulRunIsFinal ==
    run.status = "SUCCESS" => \A n \in Node : state[n].status = "SUCCESS"

\* A job is launched only when the recorded states of all dependencies are
\* SUCCESS: the scheduler's copy of the states is not stale where it matters.
StartsAfterDependencies ==
    [][\A n \in Node, i \in Invocation :
          job[n][i] = "none" /\ job'[n][i] = "launched" =>
              \A d \in DependsOn[n] : state[d].status = "SUCCESS"]_vars

\* While a stop request is on record at most one more node starts: the one
\* whose boundary check read the request just before it was written.
StopBoundary == heldStarts <= 1

\* When a process evaluates the DAG under the lock, no older invocation is
\* still recorded as RUNNING (finalizeAbandonedInvocations).
AbandonedAreClosed ==
    \A i, j \in Invocation :
        pc[i] \in {"loop", "start", "launch"} /\ invRec[j] = "RUNNING" => i = j

\* A RESUME never starts a node whose recent attempts engage the retry brake;
\* only an operator's --rerun-from lifts it (retryBrakeForNode).
RetryBrakeHolds ==
    [][\A n \in Node, i \in Invocation :
          /\ attempt[n][i].status = "none" /\ attempt'[n][i].status = "RUNNING"
          /\ mode[i] = "RESUME" /\ \A j \in Invocation : mode[j] # "RERUN_FROM"
          => ~Braked(attempt, n)]_vars

\* Every invocation that got the lock ends or crashes: no phase waits for
\* something that does not come, whatever fails (close in every path).
InvocationEnds == \A i \in Invocation : Live(i) ~> ~Live(i)

-----------------------------------------------------------------------------
(* The Run as its users see it. *)

\* A Node State as the status of a workflow's node.
WorkflowStatus(s) ==
    CASE s \in {"none", "WAITING", "BLOCKED"} -> "waiting"
      [] s = "RUNNING" -> "running"
      [] s = "SUCCESS" -> "succeeded"
      [] s \in {"FAILED", "CANCELLED"} -> "failed"
      [] s = "UNKNOWN" -> "unknown"

Workflow == INSTANCE NetworkWorkflow
    WITH Once <- NonIdempotent,
         status <- [n \in Node |-> WorkflowStatus(state[n].status)],
         starts <- [n \in Node |-> state[n].latest],
         finished <- run.status = "SUCCESS"

\* Invocations that crash, resume, rerun and reconcile, and operators that
\* resolve beside them, amount to one workflow: every node starts after all it
\* depends on, with the next attempt number, no start is forgotten, a result
\* is only ever revised by deciding what it was, a node with idempotent: false
\* that has a result is not started again, and a SUCCESS Run stays as it is
\* (ensureRun, reconcileRun, runSequentialScheduler, resolveNode).
ImplementsWorkflow == Workflow!WorkflowSpec

-----------------------------------------------------------------------------
(* What the documents say and the code does not do.                        *)

\* specification.md: a FAILED or CANCELLED Run can be continued by resume.
ResumableRunResumes ==
    \A i \in Invocation :
        pc[i] = "close" /\ outcome[i] = "refused" =>
            view[i].run.status \notin {"FAILED", "CANCELLED"}

\* job-network-phase1-spec.md 7.2: a non-idempotent node whose attempts are
\* only PREPARE_FAILED continues with --resume, so it must not end CANCELLED.
PrepareFailedStaysWaiting ==
    \A n \in NonIdempotent :
        state[n].status = "CANCELLED" =>
            \E i \in Invocation : /\ attempt[n][i].status # "none"
                                  /\ attempt[n][i].code # "PREPARE_FAILED"

\* runbook-recovery.md 4: when nodes are selected, the RUNNING attempts that
\* older invocations left have been adjudicated.
OrphanAdjudicatedFirst ==
    \A n \in Node, i, j \in Invocation :
        pc[i] = "loop" /\ attempt[n][j].status = "RUNNING" => i = j
=============================================================================
