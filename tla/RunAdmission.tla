---------------------------- MODULE RunAdmission ----------------------------
(***************************************************************************)
(* Which Run an invocation of run-network works on.  Calls of cron, of     *)
(* operators and of the poller arrive with a period, a key, a Run id or    *)
(* nothing; the key is resolved before the Network lock is asked for, and  *)
(* under the lock the Run is found, refused, created or resumed.           *)
(*                                                                         *)
(* NetworkLock shows that one invocation at a time is between the lock and *)
(* the end of its Run; here the lock is the caller it belongs to.  What    *)
(* else may refuse a resume (a hold, the profile, the bundle, the inputs)  *)
(* and how the nodes run is in RunExecution and PinnedRun; here a resume   *)
(* may fail, and a Run ends with any status.                               *)
(*                                                                         *)
(* Sources: orchestration/ensure-run.ts, persistence/kintone/              *)
(* repository.ts, orchestration/archive-run.ts.                            *)
(***************************************************************************)
EXTENDS NetworkDefinition

CONSTANTS
    Callers,        \* processes that call run-network
    CalledPolicies, \* the policies of the networks that are called
    Instants,       \* the instants a call may be for
    GivenKeys,      \* the keys a caller may give
    MaxCalls        \* calls of run-network

ASSUME AdmissionAssumption ==
    /\ Instants \subseteq Nat
    /\ MaxCalls \in Nat

VARIABLES
    runs,           \* the Network Runs, by business key
    proc,           \* each caller: the key of its call, and whether it resumes
    holder,         \* the caller that has the Network lock, if any
    calls,          \* calls made so far
    served          \* history: the periods cron asked for, with the key found

admVars == <<runs, proc, holder, calls, served>>
vars == <<def, phase, errors, indegree, ready, order, root, selected, queue,
          runs, proc, holder, calls, served>>

Option(S) == {{}} \cup {{x} : x \in S}

NoCall == [scheduledFor |-> {}, businessKey |-> {}, resumeRun |-> {}, resume |-> FALSE]
Idle == [pc |-> "idle", key |-> {}, resume |-> FALSE, period |-> {}]

Put(k, run) == [l \in DOMAIN runs \cup {k} |-> IF l = k THEN run ELSE runs[l]]
NewRun == [status |-> "CREATED", lifecycle_status |-> "ACTIVE"]

\* The Run id of a --resume-run is known because the Run exists; --resume and
\* --resume-run exclude each other and a Run id needs no key.
CallsPossible ==
    [scheduledFor : Option(Instants \cup {Garbled}), businessKey : Option(GivenKeys),
     resumeRun : {{}}, resume : BOOLEAN]
    \cup {[NoCall EXCEPT !.resumeRun = {k}] : k \in DOMAIN runs}

-----------------------------------------------------------------------------
(* run-network *)

\* ensureRun up to the lock: the key is resolved, or the call refused.
Call(p, call) ==
    /\ phase = "loaded" /\ def.policy \in CalledPolicies
    /\ proc[p].pc = "idle" /\ calls < MaxCalls
    /\ calls' = calls + 1
    /\ LET resolved == IF call.resumeRun # {} THEN [keys |-> call.resumeRun, errors |-> {}]
                       ELSE ResolveEnsureBusinessKey(def.policy, call, calls)
       IN proc' = [proc EXCEPT ![p] =
            IF resolved.keys = {} THEN Idle \* BUSINESS_KEY_INVALID
            ELSE [pc |-> "resolved", key |-> resolved.keys,
                  resume |-> call.resume \/ call.resumeRun # {},
                  period |-> IF call.businessKey = {} THEN call.scheduledFor ELSE {}]]
    /\ UNCHANGED <<def, phase, errors, indegree, ready, order, root, selected, queue,
                   runs, holder, served>>

Key(p) == CHOOSE k \in proc[p].key : TRUE

\* acquire() finds the lock taken.
LockConflict(p) ==
    /\ proc[p].pc = "resolved" /\ holder # {}
    /\ proc' = [proc EXCEPT ![p] = Idle]
    /\ UNCHANGED <<def, phase, errors, indegree, ready, order, root, selected, queue,
                   runs, holder, calls, served>>

\* A Run that failed taken for a finished one.
BlockedByRunning(k) ==
    {other \in DOMAIN runs \ {k} :
        runs[other].lifecycle_status # "ARCHIVED" /\ runs[other].status \notin {"SUCCESS", "FAILED"}}

\* listRuns, filtered: Runs of other keys that are neither finished nor closed.
BlockedBy(k) ==
    {other \in DOMAIN runs \ {k} :
        runs[other].lifecycle_status # "ARCHIVED" /\ runs[other].status # "SUCCESS"}

MaxActiveRunsReached(k) == Cardinality(BlockedBy(k)) >= def.max_active_runs

\* The call ends with a result code and without the lock.
Return(p) == proc' = [proc EXCEPT ![p] = Idle] /\ holder' = {}

Work(p) == proc' = [proc EXCEPT ![p].pc = "working"] /\ holder' = {p}

\* createNewRun: the Run record is written, or something before it fails.
CreateRun(p, k) ==
    \/ Work(p) /\ runs' = Put(k, NewRun)
    \/ Return(p) /\ UNCHANGED runs

\* The Run exists, and is of this network and profile (assertRunIdentity): NOOP for
\* a finished one, RUN_ALREADY_EXISTS for a call that does not ask to resume, and
\* RUN_NOT_RESUMABLE, or another refusal, for a call that does.
UseRun(p, k) ==
    /\ UNCHANGED runs
    /\ \/ Return(p)
       \/ /\ runs[k].status # "SUCCESS" /\ proc[p].resume
          /\ runs[k].lifecycle_status # "ARCHIVED"
          /\ Work(p)

\* ensureRun under the lock; a refusal releases it in the same step.
Admit(p) ==
    LET k == Key(p)
        refused == \/ ~CanonicalIdentifier(k)
                   \/ k \notin DOMAIN runs /\ MaxActiveRunsReached(k)
    IN /\ proc[p].pc = "resolved" /\ holder = {}
       /\ \/ refused /\ Return(p) /\ UNCHANGED runs
          \/ ~refused /\ k \in DOMAIN runs /\ UseRun(p, k)
          \/ ~refused /\ k \notin DOMAIN runs /\ CreateRun(p, k)
       /\ served' = IF k \in DOMAIN runs'
                    THEN served \cup {[at |-> t, key |-> k] : t \in proc[p].period}
                    ELSE served
       /\ UNCHANGED <<def, phase, errors, indegree, ready, order, root, selected, queue, calls>>

\* The scheduler and close(): any status the nodes add up to; a process that
\* dies leaves the Run RUNNING and the lock to force-unlock-network.
Finish(p, status) ==
    /\ proc[p].pc = "working"
    /\ runs' = [runs EXCEPT ![Key(p)].status = status]
    /\ Return(p)
    /\ UNCHANGED <<def, phase, errors, indegree, ready, order, root, selected, queue, calls, served>>

\* archive-run, under the same lock; FAILED stands for CANCELLED as well.
ArchiveRun(k) ==
    /\ holder = {} /\ k \in DOMAIN runs
    /\ runs[k].status = "FAILED" /\ runs[k].lifecycle_status = "ACTIVE"
    /\ runs' = [runs EXCEPT ![k].lifecycle_status = "ARCHIVED"]
    /\ UNCHANGED <<def, phase, errors, indegree, ready, order, root, selected, queue,
                   proc, holder, calls, served>>

-----------------------------------------------------------------------------
Init ==
    /\ DefInit
    /\ runs = <<>> /\ holder = {} /\ calls = 0 /\ served = {}
    /\ proc = [p \in Callers |-> Idle]

\* Every call loads the definition anew and with the same result; the model loads
\* it once, before the first call.
Next ==
    \/ calls = 0 /\ DefNext /\ UNCHANGED admVars
    \/ \E p \in Callers :
         \/ \E call \in CallsPossible : Call(p, call)
         \/ LockConflict(p) \/ Admit(p)
         \/ \E status \in {"SUCCESS", "FAILED", "RUNNING"} : Finish(p, status)
    \/ \E k \in DOMAIN runs : ArchiveRun(k)

Spec == Init /\ [][Next]_vars

\* The loops of the definition run to their end once they are entered; their
\* caller does not wait for anything.
FairSpec == Spec
    /\ WF_defVars(Validate) /\ WF_defVars(Place) /\ WF_defVars(SortEnds)
    /\ WF_defVars(CountVisit) /\ WF_defVars(CountEnds)
    /\ WF_defVars(SelectDescendants) /\ WF_defVars(SelectionEnds)
    /\ WF_defVars(HoldNode) /\ WF_defVars(HoldEnds)

-----------------------------------------------------------------------------
(* Properties *)

TypeOK ==
    /\ DefTypeOK
    /\ \A k \in DOMAIN runs :
         /\ CanonicalIdentifier(k)
         /\ runs[k] \in [status : {"CREATED", "RUNNING", "SUCCESS", "FAILED"},
                         lifecycle_status : {"ACTIVE", "ARCHIVED"}]
    /\ \A p \in Callers :
         /\ proc[p].pc \in {"idle", "resolved", "working"}
         /\ (proc[p].pc = "working") = (holder = {p})
         /\ proc[p].pc # "idle" => Cardinality(proc[p].key) = 1
    /\ holder \in SUBSET Callers
    /\ calls \in 0..MaxCalls

\* The local hour an instant falls on, counted without a calendar.
LocalHour(t) == t + Offset[def.policy.timezone]

SamePeriod(s, t) ==
    LET hours == IF def.policy.period = "day" THEN HoursPerDay ELSE HoursPerDay * DaysPerMonth
    IN LocalHour(s) \div hours = LocalHour(t) \div hours

(* However a network formats its keys, every period has one Run and no two *)
(* periods share one: two calls of cron get the same Run exactly when      *)
(* their instants fall into the same day or month of the network's zone,   *)
(* across the ends of months and years (specification.md, 4.3).            *)
(* resolveBusinessKey with validateScheduledPeriodPolicy.                  *)
OneRunPerPeriod ==
    \A s, t \in served : (s.key = t.key) = SamePeriod(s.at, t.at)

(* No sequence of new calls, resumes, failures and archivals leaves more   *)
(* unfinished Runs than max_active_runs: a Run that is finished or closed  *)
(* made room for good (specification.md, 4.2 and 5.3).  ensureRun.         *)
ActiveRunsBounded ==
    Cardinality({k \in DOMAIN runs :
        runs[k].lifecycle_status = "ACTIVE" /\ runs[k].status # "SUCCESS"}) <= def.max_active_runs

(* Every definition that is read is loaded or rejected, and every search   *)
(* of a loaded one ends, whatever its cycles: the loops of                 *)
(* stableTopologicalSort and of the two searches.                          *)
LoadEnds == (phase \in {"read", "sorting", "counting", "selecting", "holding"}) ~>
            (phase \in {"loaded", "rejected", "selected", "refused"})
=============================================================================
